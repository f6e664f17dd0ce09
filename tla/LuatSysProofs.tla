--------------------------- MODULE LuatSysProofs ---------------------------
(***************************************************************************)
(* Theorems about LuatSys, for any tasks, callbacks, topics, blocks, slots *)
(* and bus.                                                                *)
(*                                                                         *)
(* SysInv is about the coroutines: types, the owners of the two ranges of  *)
(* ids, and the stack of who resumed whom.  It holds always.               *)
(*                                                                         *)
(* TimersInv is about the pools and the timers below them.  Each step of   *)
(* sys.lua is first reduced to the little that it does to both (StepKinds: *)
(* a task goes to sleep, a callback gets a timer, a timer is dropped, a    *)
(* task wakes, the handler frees a one-shot), and TimersInv is shown for   *)
(* each kind.  A sleep must take an id that nobody uses.  The test for     *)
(* that in sys.wait looks into the wrong table, so it is the counter alone *)
(* that keeps ids apart: these theorems assume that it has not gone round  *)
(* (TaskIdsLeft).  ArgsInv is about the arguments of callbacks and needs   *)
(* the same of the other counter (CallbackIdsLeft).                        *)
(*                                                                         *)
(* UsesRightly then makes what LuatTimerProofs says of the timers true     *)
(* under sys.lua, and the action properties follow step by step.           *)
(***************************************************************************)
EXTENDS LuatSys, LuatTimerProofs, FiniteSetTheorems

(* The two ranges of ids belong to tasks and to callbacks. *)
PoolKinds ==
    \A k \in TimerId :
        timerPool[k] \in (IF k < TASK_TIMER_ID_MAX THEN Task ELSE Callback) \cup {NULL}

(* What dispatch copies is finite, so that the copy is a sequence. *)
SubscribersFinite == \A topic \in Topic : IsFiniteSet(subscribers[topic])

-----------------------------------------------------------------------------
(* The stack. *)

LEMMA PushStack ==
    ASSUME stack \in Seq(Actor), NEW x, Push(x)
    PROVE  /\ Len(stack') = Len(stack) + 1
           /\ \A i \in 1 .. Len(stack) : stack'[i] = stack[i]
           /\ stack'[Len(stack) + 1] = x
           /\ x \in Actor => stack' \in Seq(Actor)
BY AppendProperties DEF Push

LEMMA PopStack ==
    ASSUME stack \in Seq(Actor), stack # <<>>, Pop
    PROVE  /\ stack' \in Seq(Actor)
           /\ Len(stack') = Len(stack) - 1
           /\ Len(stack) \in Nat \ {0}
           /\ \A i \in 1 .. Len(stack) - 1 : stack'[i] = stack[i]
<1>1. Len(stack) \in Nat \ {0}
  BY EmptySeq
<1> DEFINE n == Len(stack) - 1
<1>2. n \in Int /\ \A i \in 1 .. n : stack[i] \in Actor
  BY <1>1, ElementOfSeq
<1>3. n + 1 = Len(stack) /\ n \in Nat
  BY <1>1
<1>4. stack' = SubSeq(stack, 1, n)
  BY DEF Pop
<1> HIDE DEF n
<1>5. /\ SubSeq(stack, 1, n) \in Seq(Actor)
      /\ Len(SubSeq(stack, 1, n)) = (IF 1 <= n THEN n - 1 + 1 ELSE 0)
      /\ \A i \in 1 .. n - 1 + 1 : SubSeq(stack, 1, n)[i] = stack[1 + i - 1]
  BY <1>2, SubSeqProperties
<1>6. QED
  BY <1>1, <1>3, <1>4, <1>5

LEMMA TopOfStack ==
    ASSUME stack \in Seq(Actor), stack # <<>>
    PROVE  Len(stack) \in 1 .. Len(stack) /\ Top \in Actor
<1>1. Len(stack) \in Nat \ {0}
  BY EmptySeq
<1>2. QED
  BY <1>1, ElementOfSeq DEF Top

-----------------------------------------------------------------------------
(* The types of what the calls into rtos change. *)

HeapTypeOK == TableTypeOK /\ orphans \subseteq Orphan

LEMMA GetTimerType ==
    ASSUME TableTypeOK, NEW id
    PROVE  luat_timer_get(id) \in Block \cup {NULL}
<1>1. CASE SlotsWith(id) = {}
  BY <1>1 DEF luat_timer_get
<1>2. CASE SlotsWith(id) # {}
  <2>1. First(SlotsWith(id)) \in SlotsWith(id)
    BY <1>2, FirstIsMember DEF SlotsWith
  <2>2. QED
    BY <1>2, <2>1 DEF luat_timer_get, SlotsWith, TableTypeOK
<1>3. QED
  BY <1>1, <1>2

LEMMA StopHeapType ==
    ASSUME HeapTypeOK, NEW b \in Block, StopAndFree(b)
    PROVE  HeapTypeOK'
<1>1. TableTypeOK'
  BY DEF HeapTypeOK, TableTypeOK, StopAndFree, Timer, RepeatLeft
<1>2. orphans' \subseteq Orphan
  BY DEF HeapTypeOK, TableTypeOK, StopAndFree, Orphan, Timer
<1>3. QED
  BY <1>1, <1>2 DEF HeapTypeOK

LEMMA TimerStopType ==
    ASSUME HeapTypeOK, NEW id, l_rtos_timer_stop(id)
    PROVE  HeapTypeOK'
<1>1. CASE luat_timer_get(id) = NULL
  BY <1>1 DEF l_rtos_timer_stop, HeapTypeOK, TableTypeOK
<1>2. CASE luat_timer_get(id) # NULL
  <2>1. luat_timer_get(id) \in Block
    BY <1>2, GetTimerType DEF HeapTypeOK
  <2>2. QED
    BY <1>2, <2>1, StopHeapType DEF l_rtos_timer_stop
<1>3. QED
  BY <1>1, <1>2

LEMMA TimerStartType ==
    ASSUME HeapTypeOK, NEW id \in TimerId, NEW ms, NEW rep \in Repeat, NEW ret,
           l_rtos_timer_start(id, ms, rep, ret)
    PROVE  HeapTypeOK'
<1>0. orphans' \subseteq Orphan
  BY DEF HeapTypeOK, l_rtos_timer_start
<1>1. CASE UNCHANGED <<block, timers>>
  BY <1>0, <1>1 DEF HeapTypeOK, TableTypeOK
<1>2. ASSUME NEW b \in FreeBlocks, luat_timer_start(b, id, rep)
      PROVE  HeapTypeOK'
  <2>1. rep \in RepeatLeft
    BY RepeatAssumption DEF RepeatLeft
  <2>2. TableTypeOK'
    BY <1>2, <2>1 DEF HeapTypeOK, TableTypeOK, luat_timer_start, FreeBlocks, Timer
  <2>3. QED
    BY <1>0, <2>2 DEF HeapTypeOK
<1>3. ASSUME NEW b \in FreeBlocks, luat_timer_start_fails(b, id)
      PROVE  HeapTypeOK'
  BY <1>0, <1>3 DEF HeapTypeOK, TableTypeOK, luat_timer_start_fails, FreeBlocks, Timer
<1>4. QED
  BY <1>1, <1>2, <1>3 DEF l_rtos_timer_start

LEMMA HandlerType ==
    ASSUME HeapTypeOK, NEW m, NEW t \in HandlerTimers(m), l_timer_handler(t)
    PROVE  HeapTypeOK' /\ t \in Block \cup {NULL}
<1>1. t \in Block \cup {NULL}
  BY GetTimerType DEF HandlerTimers, HeapTypeOK
<1>2. CASE UNCHANGED <<block, timers, orphans>>
  BY <1>1, <1>2 DEF HeapTypeOK, TableTypeOK
<1>3. CASE t # NULL /\ StopAndFree(t)
  BY <1>1, <1>3, StopHeapType
<1>4. CASE /\ t # NULL /\ block[t].repeat > 0
           /\ block' = [block EXCEPT ![t].repeat = @ - 1]
           /\ UNCHANGED <<timers, orphans>>
  BY <1>1, <1>4 DEF HeapTypeOK, TableTypeOK, Timer, RepeatLeft
<1>5. QED
  BY <1>2, <1>3, <1>4 DEF l_timer_handler

LEMMA DaemonType ==
    ASSUME TimerTypeOK, Daemon \/ DriverPosts \/ \E o \in orphans : OrphanExpires(o)
    PROVE  TimerTypeOK'
<1>0. TableTypeOK
  BY DEF TimerTypeOK, TableTypeOK
<1>1. ASSUME NEW id \in TimerId, LookUp(id)
      PROVE  daemon' \in Call \cup {NULL}
  BY <1>0, <1>1, GetTimerType DEF LookUp, Call
<1>2. ASSUME NEW b \in Block, TimerExpires(b)
      PROVE  TimerTypeOK'
  <2>1. block[b].id \in TimerId
    BY DEF TimerTypeOK, Timer
  <2>2. block' \in [Block -> Timer]
    BY <1>2 DEF TimerExpires, TimerTypeOK, Timer
  <2>3. QED
    BY <1>1, <1>2, <2>1, <2>2 DEF TimerExpires, TimerTypeOK
<1>3. ASSUME NEW o \in orphans, OrphanExpires(o)
      PROVE  TimerTypeOK'
  <2>1. o.id \in TimerId
    BY DEF TimerTypeOK, Orphan
  <2>2. QED
    BY <1>1, <1>3, <2>1 DEF OrphanExpires, TimerTypeOK
<1>4. CASE CallbackPosts
  <2>1. TimerMsg(daemon.ptr, daemon.id) \in Msg
    BY <1>4 DEF CallbackPosts, TimerTypeOK, Call, Msg
  <2>2. QED
    BY <1>4, <2>1, PutType DEF CallbackPosts, TimerTypeOK
<1>5. CASE DriverPosts
  BY <1>5, PutType DEF DriverPosts, TimerTypeOK, Msg
<1>6. QED
  BY <1>2, <1>3, <1>4, <1>5 DEF Daemon
-----------------------------------------------------------------------------
(* Types. *)

LEMMA UserCallType ==
    ASSUME SysTypeOK, UserCall
    PROVE  calls' \in 0 .. MaxCalls /\ stack # <<>> /\ Top \in Actor
BY SysAssumption, TopOfStack DEF SysTypeOK, UserCall

LEMMA TimersTyped ==
    ASSUME TimerTypeOK, HeapTypeOK', UNCHANGED <<daemon, bus>>
    PROVE  TimerTypeOK'
BY DEF TimerTypeOK, HeapTypeOK, TableTypeOK

LEMMA HeapTyped == TimerTypeOK => HeapTypeOK
BY DEF TimerTypeOK, HeapTypeOK, TableTypeOK

LEMMA NextTaskIdType ==
    ASSUME SysTypeOK
    PROVE  NextTaskTimerId \in 0 .. TASK_TIMER_ID_MAX - 1 /\ NextTaskTimerId \in TimerId
BY SysAssumption DEF SysTypeOK, NextTaskTimerId

(* The next callback id is free, and above the last one while there is such. *)
LEMMA NextMsgIdType ==
    ASSUME SysTypeOK, FreeMsgIds # {}
    PROVE  /\ NextMsgId \in TASK_TIMER_ID_MAX + 1 .. MSG_TIMER_ID_MAX
           /\ NextMsgId \in TimerId
           /\ timerPool[NextMsgId] = NULL
           /\ (\E k \in FreeMsgIds : k > msgId) => NextMsgId > msgId
<1> DEFINE later == {k \in FreeMsgIds : k > msgId}
<1>1. FreeMsgIds \subseteq Nat /\ later \subseteq Nat
  BY SysAssumption DEF FreeMsgIds
<1>2. NextMsgId = First(IF later # {} THEN later ELSE FreeMsgIds)
  BY DEF NextMsgId
<1>3. later # {} => First(later) \in later
  BY <1>1, FirstOfNats
<1>4. First(FreeMsgIds) \in FreeMsgIds
  BY <1>1, FirstOfNats
<1>5. NextMsgId \in FreeMsgIds /\ (later # {} => NextMsgId \in later)
  BY <1>2, <1>3, <1>4
<1>6. QED
  BY <1>5, SysAssumption DEF FreeMsgIds

LEMMA DropTimerType ==
    ASSUME SysTypeOK, NEW k \in TimerId, DropTimer(k)
    PROVE  /\ HeapTypeOK'
           /\ timerPool' \in [TimerId -> Task \cup Callback \cup {NULL}]
           /\ para' \in [TimerId -> BOOLEAN]
BY TimerStopType, HeapTyped DEF SysTypeOK, DropTimer

LEMMA TimerStopByType ==
    ASSUME SysTypeOK, NEW fn, timerStopBy(fn)
    PROVE  /\ HeapTypeOK'
           /\ timerPool' \in [TimerId -> Task \cup Callback \cup {NULL}]
           /\ para' \in [TimerId -> BOOLEAN]
<1>1. ASSUME NEW k \in Matching(fn), DropTimer(k)
      PROVE  /\ HeapTypeOK'
             /\ timerPool' \in [TimerId -> Task \cup Callback \cup {NULL}]
             /\ para' \in [TimerId -> BOOLEAN]
  BY <1>1, DropTimerType DEF Matching
<1>2. CASE UNCHANGED <<block, timers, orphans, timerPool, para>>
  BY <1>2, HeapTyped DEF SysTypeOK, HeapTypeOK, TableTypeOK
<1>3. QED
  BY <1>1, <1>2 DEF timerStopBy

LEMMA CoresumeType ==
    ASSUME SysTypeOK, NEW t \in Task, Coresume(t)
    PROVE  /\ tstate' \in [Task -> TaskState]
           /\ waitTopic' \in [Task -> Topic \cup {NULL}]
           /\ subscribers' \in [Topic -> SUBSET (Task \cup Fn)]
           /\ stack' \in Seq(Actor)
<1>1. stack' \in Seq(Actor)
  BY PushStack DEF SysTypeOK, Coresume, Actor
<1>2. QED
  BY <1>1 DEF SysTypeOK, Coresume, TaskState, Suspended

(* A call that leaves the timers, the pools or the messages alone leaves    *)
(* their types alone.                                                       *)
LEMMA SameTypes ==
    ASSUME SysTypeOK
    PROVE  /\ UNCHANGED timerVars => TimerTypeOK'
           /\ UNCHANGED <<block, timers, orphans>> => HeapTypeOK'
BY HeapTyped DEF SysTypeOK, timerVars, TimerTypeOK, HeapTypeOK, TableTypeOK

LEMMA FailsType ==
    ASSUME NEW traceBack \in Traceback, Fails(traceBack)
    PROVE  starting' \in [fn : Callback, rep : Repeat \cup {NULL}]
BY DEF Fails, Callback

(* The three outcomes of a resume with arguments. *)
EndsWait(t) ==
    /\ tstate[t] \in TimedWait
    /\ WaitEndsByMessage(t)
    /\ Coresume(t)
    /\ UNCHANGED <<daemon, bus, taskTimerId, msgId, para, starting>>

EndsYield(t) ==
    /\ tstate[t] = "msg"
    /\ Coresume(t)
    /\ UNCHANGED <<timerVars, poolVars, starting>>

EndsNothing(t) == CoresumeFails(t) /\ UNCHANGED <<timerVars, poolVars>>

LEMMA CoresumeCases ==
    ASSUME NEW t, CoresumeWithArguments(t)
    PROVE  EndsWait(t) \/ EndsYield(t) \/ EndsNothing(t)
BY DEF CoresumeWithArguments, EndsWait, EndsYield, EndsNothing

LEMMA WithArgumentsType ==
    ASSUME SysTypeOK, NEW t \in Task, CoresumeWithArguments(t)
    PROVE  /\ TimerTypeOK'
           /\ UNCHANGED <<taskTimerId, msgId, para>>
           /\ timerPool' \in [TimerId -> Task \cup Callback \cup {NULL}]
           /\ taskTimerPool' \in [Task -> TimerId \cup {NULL}]
           /\ tstate' \in [Task -> TaskState]
           /\ waitTopic' \in [Task -> Topic \cup {NULL}]
           /\ subscribers' \in [Topic -> SUBSET (Task \cup Fn)]
           /\ stack' \in Seq(Actor)
           /\ starting' \in [fn : Callback, rep : Repeat \cup {NULL}] \cup {NULL}
<1> USE DEF poolVars
<1>1. CASE EndsWait(t)
  <2>1. TimerTypeOK'
    BY <1>1, HeapTyped, TimerStopType, TimersTyped DEF EndsWait, WaitEndsByMessage, SysTypeOK
  <2>2. /\ timerPool' \in [TimerId -> Task \cup Callback \cup {NULL}]
        /\ taskTimerPool' \in [Task -> TimerId \cup {NULL}]
    BY <1>1 DEF EndsWait, WaitEndsByMessage, SysTypeOK
  <2>3. QED
    BY <1>1, <2>1, <2>2, CoresumeType DEF EndsWait, SysTypeOK
<1>2. CASE EndsYield(t)
  BY <1>2, CoresumeType, SameTypes DEF EndsYield, SysTypeOK
<1>3. CASE EndsNothing(t)
  BY <1>3, FailsType, SameTypes DEF EndsNothing, CoresumeFails, SysTypeOK
<1>4. QED
  BY <1>1, <1>2, <1>3, CoresumeCases

LEMMA CallKeepsType ==
    ASSUME SysTypeOK, (\E t \in Task : TaskCall(t)) \/ AnyCall
    PROVE  SysTypeOK'
<1> USE DEF poolVars, msgVars, runVars
<1>1. ASSUME NEW t \in Task, NEW kind \in TimedWait, NEW topic \in Topic \cup {NULL},
             NEW ms \in {0, 1}, Wait(t, kind, topic, ms)
      PROVE  SysTypeOK'
  <2>1. UserCall /\ NextTaskTimerId \in TimerId /\ 0 \in Repeat
    BY <1>1, NextTaskIdType, SysAssumption DEF Wait
  <2>2. HeapTypeOK'
    BY <1>1, <2>1, HeapTyped, TimerStartType DEF Wait, SysTypeOK
  <2>3. TimerTypeOK'
    BY <1>1, <2>2, TimersTyped DEF Wait, SysTypeOK
  <2>4. stack' \in Seq(Actor)
    BY <1>1, <2>1, PopStack, UserCallType DEF Wait, SysTypeOK
  <2>5. /\ tstate' \in [Task -> TaskState]
        /\ waitTopic' \in [Task -> Topic \cup {NULL}]
        /\ subscribers' \in [Topic -> SUBSET (Task \cup Fn)]
    BY <1>1 DEF Wait, SysTypeOK, TaskState, Suspended
  <2>6. /\ taskTimerId' \in 0 .. TASK_TIMER_ID_MAX - 1
        /\ timerPool' \in [TimerId -> Task \cup Callback \cup {NULL}]
        /\ taskTimerPool' \in [Task -> TimerId \cup {NULL}]
    BY <1>1, NextTaskIdType DEF Wait, SysTypeOK
  <2>7. abandoned' \subseteq TimerId \cup {NULL}
    BY <1>1 DEF Wait, SysTypeOK
  <2>8. QED
    BY <1>1, <2>1, <2>3, <2>4, <2>5, <2>6, <2>7, UserCallType DEF Wait, SysTypeOK
<1>2. ASSUME NEW t \in Task, NEW topic \in Topic, WaitUntilMsg(t, topic)
      PROVE  SysTypeOK'
  <2>1. UserCall
    BY <1>2 DEF WaitUntilMsg
  <2>2. stack' \in Seq(Actor)
    BY <1>2, <2>1, PopStack, UserCallType DEF WaitUntilMsg, SysTypeOK
  <2>3. /\ tstate' \in [Task -> TaskState]
        /\ waitTopic' \in [Task -> Topic \cup {NULL}]
        /\ subscribers' \in [Topic -> SUBSET (Task \cup Fn)]
    BY <1>2 DEF WaitUntilMsg, SysTypeOK, TaskState, Suspended
  <2>4. QED
    BY <1>2, <2>1, <2>2, <2>3, UserCallType, SameTypes DEF WaitUntilMsg, SysTypeOK
<1>2a. ASSUME NEW t \in Task, Yield(t)
       PROVE  SysTypeOK'
  <2>1. UserCall
    BY <1>2a DEF Yield
  <2>2. stack' \in Seq(Actor) /\ tstate' \in [Task -> TaskState]
    BY <1>2a, <2>1, PopStack, UserCallType DEF Yield, SysTypeOK, TaskState, Suspended
  <2>3. QED
    BY <1>2a, <2>1, <2>2, UserCallType, SameTypes DEF Yield, SysTypeOK
<1>2b. ASSUME NEW t \in Task, SysCoresume(t)
       PROVE  SysTypeOK'
  <2>1. UserCall /\ CoresumeWithArguments(t)
    BY <1>2b DEF SysCoresume
  <2>2. QED
    BY <1>2b, <2>1, WithArgumentsType, UserCallType DEF SysCoresume, SysTypeOK
<1>2c. ASSUME NEW t \in Task, SysCoresumeBare(t)
       PROVE  SysTypeOK'
  <2>1. UserCall /\ Coresume(t)
    BY <1>2c DEF SysCoresumeBare
  <2>2. abandoned' \subseteq TimerId \cup {NULL}
    BY <1>2c DEF SysCoresumeBare, SysTypeOK
  <2>3. QED
    BY <1>2c, <2>1, <2>2, CoresumeType, UserCallType, SameTypes DEF SysCoresumeBare, SysTypeOK
<1>3. ASSUME NEW t \in Task, TaskInit(t)
      PROVE  SysTypeOK'
  <2>1. UserCall
    BY <1>3 DEF TaskInit
  <2>2. stack' \in Seq(Actor)
    BY <1>3, PushStack DEF TaskInit, SysTypeOK, Actor
  <2>3. tstate' \in [Task -> TaskState]
    BY <1>3 DEF TaskInit, SysTypeOK, TaskState
  <2>4. QED
    BY <1>3, <2>1, <2>2, <2>3, UserCallType, SameTypes DEF TaskInit, SysTypeOK
<1>4. ASSUME NEW fn, SysTimerStop(fn)
      PROVE  SysTypeOK'
  <2>1. UserCall
    BY <1>4 DEF SysTimerStop
  <2>2. TimerTypeOK'
    BY <1>4, TimerStopByType, TimersTyped DEF SysTimerStop, SysTypeOK
  <2>3. QED
    BY <1>4, <2>1, <2>2, TimerStopByType, UserCallType DEF SysTimerStop, SysTypeOK
<1>5. ASSUME NEW fn \in Fn, SysTimerStopAll(fn)
      PROVE  SysTypeOK'
  <2>1. UserCall
    BY <1>5 DEF SysTimerStopAll
  <2>2. starting' \in [fn : Callback, rep : Repeat \cup {NULL}]
    BY <1>5 DEF SysTimerStopAll, Callback
  <2>3. QED
    BY <1>5, <2>1, <2>2, UserCallType, SameTypes DEF SysTimerStopAll, SysTypeOK
<1>6. ASSUME NEW k \in TASK_TIMER_ID_MAX + 1 .. MSG_TIMER_ID_MAX, SysTimerStopId(k)
      PROVE  SysTypeOK'
  <2>1. UserCall /\ k \in TimerId
    BY <1>6, SysAssumption DEF SysTimerStopId, SysTypeOK
  <2>2. TimerTypeOK'
    BY <1>6, <2>1, DropTimerType, TimersTyped DEF SysTimerStopId, SysTypeOK
  <2>3. QED
    BY <1>6, <2>1, <2>2, DropTimerType, UserCallType DEF SysTimerStopId, SysTypeOK
<1>7. ASSUME NEW fn \in Fn, NEW rep \in Repeat, TimerAdvStart(fn, rep)
      PROVE  SysTypeOK'
  <2>1. UserCall
    BY <1>7 DEF TimerAdvStart
  <2>2. TimerTypeOK'
    BY <1>7, TimerStopByType, TimersTyped DEF TimerAdvStart, SysTypeOK
  <2>3. starting' \in [fn : Callback, rep : Repeat \cup {NULL}]
    BY <1>7 DEF TimerAdvStart, Callback
  <2>4. QED
    BY <1>7, <2>1, <2>2, <2>3, TimerStopByType, UserCallType DEF TimerAdvStart, SysTypeOK
<1>8. ASSUME NEW topic \in Topic, Publish(topic)
      PROVE  SysTypeOK'
  <2>1. UserCall /\ messageQueue' \in Seq(Topic)
    BY <1>8, AppendProperties DEF Publish, SysTypeOK
  <2>2. QED
    BY <1>8, <2>1, UserCallType, SameTypes DEF Publish, SysTypeOK
<1>8a. ASSUME NEW topic \in Topic, NEW fn \in Fn,
              Subscribe(topic, fn) \/ Unsubscribe(topic, fn)
       PROVE  SysTypeOK'
  <2>1. UserCall /\ UNCHANGED <<timerVars, poolVars, runVars, messageQueue, tmpt>>
    BY <1>8a DEF Subscribe, Unsubscribe
  <2>2. subscribers' \in [Topic -> SUBSET (Task \cup Fn)]
    BY <1>8a DEF Subscribe, Unsubscribe, SysTypeOK
  <2>3. QED
    BY <2>1, <2>2, UserCallType, SameTypes DEF SysTypeOK
<1>9. ASSUME NEW t \in Task, NEW traceBack \in Traceback, TaskFails(t, traceBack)
      PROVE  SysTypeOK'
  <2>1. UserCall
    BY <1>9 DEF TaskFails
  <2>2. starting' \in [fn : Callback, rep : Repeat \cup {NULL}]
    BY <1>9, FailsType DEF TaskFails
  <2>3. stack' \in Seq(Actor) /\ tstate' \in [Task -> TaskState]
    BY <1>9, <2>1, PopStack, UserCallType DEF TaskFails, SysTypeOK, TaskState
  <2>4. QED
    BY <1>9, <2>1, <2>2, <2>3, SameTypes, UserCallType DEF TaskFails, SysTypeOK
<1>10. CASE CallbackFails
  <2>1. UserCall /\ stack' \in Seq(Actor)
    BY <1>10, EmptySeq DEF CallbackFails, EndsLoop
  <2>2. QED
    BY <1>10, <2>1, UserCallType, SameTypes DEF CallbackFails, EndsLoop, SysTypeOK
<1>11. ASSUME NEW t \in Task, TaskCall(t)
       PROVE  SysTypeOK'
  BY <1>1, <1>2, <1>2a, <1>11 DEF TaskCall, TimedWait
<1>12. CASE AnyCall
  BY <1>2b, <1>2c, <1>3, <1>4, <1>5, <1>6, <1>7, <1>8, <1>8a, <1>9, <1>10, <1>12 DEF AnyCall
<1>13. QED
  BY <1>11, <1>12

LEMMA ProceedKeepsType ==
    ASSUME SysTypeOK, Proceed
    PROVE  SysTypeOK'
<1> USE DEF poolVars, msgVars, runVars
<1>1. CASE Return
  <2>1. stack' \in Seq(Actor)
    BY <1>1, PopStack DEF Return, SysTypeOK
  <2>2. tstate' \in [Task -> TaskState]
    BY <1>1 DEF Return, SysTypeOK, TaskState
  <2>3. para' \in [TimerId -> BOOLEAN] /\ spent' \in TimerId \cup {NULL}
    BY <1>1 DEF Return, SysTypeOK
  <2>4. QED
    BY <1>1, <2>1, <2>2, <2>3, SameTypes DEF Return, SysTypeOK
<1>2. ASSUME NEW ms \in {0, 1}, NEW ret \in {0, 1}, TimerAdvStarted(ms, ret)
      PROVE  SysTypeOK'
  <2>1. /\ NextMsgId \in TASK_TIMER_ID_MAX + 1 .. MSG_TIMER_ID_MAX
        /\ NextMsgId \in TimerId
    BY <1>2, NextMsgIdType DEF TimerAdvStarted
  <2>2. starting.fn \in Callback /\ starting.rep \in Repeat
    BY <1>2 DEF TimerAdvStarted, SysTypeOK
  <2>3. /\ l_rtos_timer_start(NextMsgId, ms, starting.rep, ret)
        /\ para' = [para EXCEPT ![NextMsgId] =
                      @ \/ (ret = 1 /\ HasArguments(starting.fn))]
    BY <1>2 DEF TimerAdvStarted
  <2>4. TimerTypeOK'
    BY <1>2, <2>1, <2>2, <2>3, TimerStartType, HeapTyped, TimersTyped
    DEF TimerAdvStarted, SysTypeOK
  <2>5. para' \in [TimerId -> BOOLEAN]
    BY <2>3 DEF SysTypeOK
  <2>6. /\ timerPool' \in [TimerId -> Task \cup Callback \cup {NULL}]
        /\ msgId' \in TASK_TIMER_ID_MAX .. MSG_TIMER_ID_MAX
    BY <1>2, <2>1, <2>2, SysAssumption DEF TimerAdvStarted, SysTypeOK
  <2>7. QED
    BY <1>2, <2>4, <2>5, <2>6 DEF TimerAdvStarted, SysTypeOK
<1>3. CASE StopNextOfAll
  <2>1. ASSUME NEW k \in TimerId, DropTimer(k), UNCHANGED starting
        PROVE  SysTypeOK'
    <3>1. TimerTypeOK'
      BY <1>3, <2>1, DropTimerType, TimersTyped DEF StopNextOfAll, SysTypeOK
    <3>2. QED
      BY <1>3, <2>1, <3>1, DropTimerType DEF StopNextOfAll, SysTypeOK
  <2>2. CASE starting' = NULL /\ UNCHANGED <<block, timers, orphans, timerPool, para>>
    <3>1. TimerTypeOK'
      BY <1>3, <2>2, SameTypes, TimersTyped DEF StopNextOfAll, SysTypeOK
    <3>2. QED
      BY <1>3, <2>2, <3>1 DEF StopNextOfAll, SysTypeOK
  <2>3. QED
    BY <1>3, <2>1, <2>2 DEF StopNextOfAll
<1>4. CASE AssertFails
  <2>1. stack' \in Seq(Actor)
    BY <1>4, EmptySeq DEF AssertFails, EndsLoop
  <2>2. QED
    BY <1>4, <2>1, SameTypes DEF AssertFails, EndsLoop, SysTypeOK
<1>5. CASE wrapper
  <2>1. TimerTypeOK'
    BY <1>5, TimerStopByType, TimersTyped DEF wrapper, SysTypeOK
  <2>2. starting' \in [fn : Callback, rep : Repeat \cup {NULL}]
    BY <1>5, SysAssumption DEF wrapper, SysTypeOK
  <2>3. QED
    BY <1>5, <2>1, <2>2, TimerStopByType DEF wrapper, SysTypeOK
<1>6. QED
  BY <1>1, <1>2, <1>3, <1>4, <1>5 DEF Proceed

(* dispatch copies each subscriber once: the copy has as many places as     *)
(* there are subscribers, and all of them in it.                            *)
LEMMA CopyOnce ==
    ASSUME NEW S, IsFiniteSet(S), NEW f \in [1 .. Cardinality(S) -> S],
           \A x \in S : \E k \in DOMAIN f : f[k] = x
    PROVE  /\ f \in Seq(S)
           /\ Len(f) = Cardinality(S)
           /\ \A i, j \in 1 .. Len(f) : f[i] = f[j] => i = j
<1>1. Cardinality(S) \in Nat
  BY FS_CardinalityType
<1>2. f \in Seq(S) /\ Len(f) = Cardinality(S)
  BY <1>1, IsASeq
<1>3. f \in Surjection(1 .. Cardinality(S), S)
  BY Zenon DEF Surjection
<1>4. /\ IsFiniteSet(1 .. Cardinality(S))
      /\ Cardinality(1 .. Cardinality(S)) = Cardinality(S)
  BY <1>1, FS_Interval
<1>5. f \in Injection(1 .. Cardinality(S), S)
  BY <1>3, <1>4, FS_SurjSameCardinalityImpliesInj
<1>6. QED
  BY <1>2, <1>5 DEF Injection, IsInjective

LEMMA TakesCopy ==
    ASSUME SysTypeOK, SubscribersFinite, TakeMessage
    PROVE  LET subs == subscribers[Head(messageQueue)] IN
           /\ Head(messageQueue) \in Topic
           /\ messageQueue' \in Seq(Topic)
           /\ tmpt' \in Seq(subs)
           /\ \A i, j \in 1 .. Len(tmpt') : tmpt'[i] = tmpt'[j] => i = j
<1>1. Head(messageQueue) \in Topic /\ messageQueue' \in Seq(Topic)
  BY HeadTailProperties DEF TakeMessage, SysTypeOK
<1> DEFINE subs == subscribers[Head(messageQueue)]
<1>2. PICK f \in [1 .. Cardinality(subs) -> subs] :
        /\ \A x \in subs : \E k \in DOMAIN f : f[k] = x
        /\ tmpt' = f
  BY DEF TakeMessage
<1>3. IsFiniteSet(subs)
  BY <1>1 DEF SubscribersFinite
<1> HIDE DEF subs
<1>4. f \in Seq(subs) /\ \A i, j \in 1 .. Len(f) : f[i] = f[j] => i = j
  BY <1>2, <1>3, CopyOnce
<1>5. QED
  BY <1>1, <1>2, <1>4 DEF subs

LEMMA TakesNext ==
    ASSUME SysTypeOK, tmpt # <<>>
    PROVE  /\ Head(tmpt) \in Task \cup Fn
           /\ Head(tmpt) = tmpt[1]
           /\ Tail(tmpt) \in Seq(Task \cup Fn)
           /\ Len(Tail(tmpt)) = Len(tmpt) - 1
           /\ Len(tmpt) \in Nat \ {0}
           /\ \A i \in 1 .. Len(Tail(tmpt)) : Tail(tmpt)[i] = tmpt[i + 1]
BY HeadTailProperties, EmptySeq DEF SysTypeOK

(* What rtos.receive and safeRun make of a message for the timer t. *)
HandlesTimer(t) ==
    /\ l_timer_handler(t)
    /\ IF t = NULL
       THEN UNCHANGED <<timerPool, taskTimerPool, spent, subscribers,
                        stack, tstate, waitTopic, starting>>
       ELSE TimerEvent(block[t].id, block[t].repeat)

(* The ways of TimerEvent: the id is nobody's, a task's that is resumed or  *)
(* cannot be, a task's that waits for another, or a callback's.             *)
EventOfNobody(id) ==
    /\ timerPool[id] = NULL
    /\ UNCHANGED <<timerPool, taskTimerPool, spent, subscribers, stack, tstate, waitTopic,
                   starting>>

EventWakes(id, t) ==
    /\ timerPool[id] = t /\ taskTimerPool[t] = id
    /\ timerPool' = [timerPool EXCEPT ![id] = NULL]
    /\ taskTimerPool' = [taskTimerPool EXCEPT ![t] = NULL]
    /\ tstate[t] \in Suspended
    /\ Coresume(t)
    /\ UNCHANGED <<spent, starting>>

EventFails(id, t) ==
    /\ timerPool[id] = t /\ taskTimerPool[t] = id
    /\ timerPool' = [timerPool EXCEPT ![id] = NULL]
    /\ taskTimerPool' = [taskTimerPool EXCEPT ![t] = NULL]
    /\ CoresumeFails(t)
    /\ UNCHANGED spent

EventMissesTask(id, t) ==
    /\ timerPool[id] = t /\ taskTimerPool[t] # id
    /\ timerPool' = [timerPool EXCEPT ![id] = NULL]
    /\ UNCHANGED <<taskTimerPool, spent, subscribers, stack, tstate, waitTopic, starting>>

EventCalls(id, fn, rep) ==
    /\ timerPool[id] = fn
    /\ rep = 0 => timerPool' = [timerPool EXCEPT ![id] = NULL]
    /\ rep # 0 => UNCHANGED timerPool
    /\ spent' = IF rep = 0 /\ para[id] THEN id ELSE NULL
    /\ Push(fn)
    /\ UNCHANGED <<taskTimerPool, subscribers, tstate, waitTopic, starting>>

LEMMA TimerEventCases ==
    ASSUME PoolKinds, NEW id \in TimerId, NEW rep, TimerEvent(id, rep)
    PROVE  \/ EventOfNobody(id)
           \/ /\ id < TASK_TIMER_ID_MAX
              /\ \E t \in Task : EventWakes(id, t) \/ EventFails(id, t) \/ EventMissesTask(id, t)
           \/ /\ id >= TASK_TIMER_ID_MAX
              /\ \E fn \in Callback : EventCalls(id, fn, rep)
<1>0. id \in Nat /\ TASK_TIMER_ID_MAX \in Nat
  BY SysAssumption
<1>1. CASE timerPool[id] = NULL
  BY <1>1, Zenon DEF TimerEvent, EventOfNobody
<1>2. CASE timerPool[id] # NULL /\ id < TASK_TIMER_ID_MAX
  <2>1. timerPool[id] \in Task /\ ~ (id >= TASK_TIMER_ID_MAX)
    BY <1>0, <1>2 DEF PoolKinds
  <2>2. \/ EventWakes(id, timerPool[id])
        \/ EventFails(id, timerPool[id])
        \/ EventMissesTask(id, timerPool[id])
    BY <1>2, <2>1, Zenon DEF TimerEvent, EventWakes, EventFails, EventMissesTask
  <2>3. QED
    BY <1>2, <2>1, <2>2
<1>3. CASE timerPool[id] # NULL /\ id >= TASK_TIMER_ID_MAX
  <2>1. timerPool[id] \in Callback /\ ~ (id < TASK_TIMER_ID_MAX)
    BY <1>0, <1>3 DEF PoolKinds
  <2>2. EventCalls(id, timerPool[id], rep)
    BY <1>3, <2>1, Zenon DEF TimerEvent, EventCalls
  <2>3. QED
    BY <1>3, <2>1, <2>2
<1>4. QED
  BY <1>0, <1>1, <1>2, <1>3

LEMMA TimerEventType ==
    ASSUME SysTypeOK, PoolKinds, NEW id \in TimerId, NEW rep, TimerEvent(id, rep)
    PROVE  /\ timerPool' \in [TimerId -> Task \cup Callback \cup {NULL}]
           /\ taskTimerPool' \in [Task -> TimerId \cup {NULL}]
           /\ spent' \in TimerId \cup {NULL}
           /\ subscribers' \in [Topic -> SUBSET (Task \cup Fn)]
           /\ stack' \in Seq(Actor)
           /\ tstate' \in [Task -> TaskState]
           /\ waitTopic' \in [Task -> Topic \cup {NULL}]
           /\ starting' \in [fn : Callback, rep : Repeat \cup {NULL}] \cup {NULL}
<1>1. CASE EventOfNobody(id)
  BY <1>1 DEF EventOfNobody, SysTypeOK
<1>2. ASSUME NEW t \in Task, EventWakes(id, t)
      PROVE  /\ timerPool' \in [TimerId -> Task \cup Callback \cup {NULL}]
             /\ taskTimerPool' \in [Task -> TimerId \cup {NULL}]
             /\ UNCHANGED <<spent, starting>> /\ Coresume(t)
  BY <1>2 DEF EventWakes, SysTypeOK
<1>2a. ASSUME NEW t \in Task, EventFails(id, t)
       PROVE  /\ timerPool' \in [TimerId -> Task \cup Callback \cup {NULL}]
              /\ taskTimerPool' \in [Task -> TimerId \cup {NULL}]
              /\ UNCHANGED <<spent, subscribers, stack, tstate, waitTopic>>
              /\ starting' \in [fn : Callback, rep : Repeat \cup {NULL}]
  BY <1>2a, FailsType DEF EventFails, CoresumeFails, SysTypeOK
<1>3. ASSUME NEW t \in Task, EventMissesTask(id, t)
      PROVE  /\ timerPool' \in [TimerId -> Task \cup Callback \cup {NULL}]
             /\ UNCHANGED <<taskTimerPool, spent, subscribers, stack, tstate, waitTopic,
                            starting>>
  BY <1>3 DEF EventMissesTask, SysTypeOK
<1>4. ASSUME NEW fn \in Callback, EventCalls(id, fn, rep)
      PROVE  /\ timerPool' \in [TimerId -> Task \cup Callback \cup {NULL}]
             /\ UNCHANGED <<taskTimerPool, subscribers, tstate, waitTopic, starting>>
             /\ spent' \in TimerId \cup {NULL}
             /\ stack' \in Seq(Actor)
  <2>1. stack' \in Seq(Actor)
    BY <1>4, PushStack DEF EventCalls, SysTypeOK, Actor
  <2>2. QED
    BY <1>4, <2>1 DEF EventCalls, SysTypeOK
<1>5. QED
  BY <1>1, <1>2, <1>2a, <1>3, <1>4, CoresumeType, TimerEventCases DEF SysTypeOK

LEMMA SafeRunKeepsType ==
    ASSUME SysTypeOK, PoolKinds, SubscribersFinite, SafeRun
    PROVE  SysTypeOK'
<1> USE DEF poolVars, msgVars, runVars
<1>1. CASE TakeMessage
  <2>1. Head(messageQueue) \in Topic /\ messageQueue' \in Seq(Topic)
    BY <1>1, TakesCopy
  <2>2. subscribers[Head(messageQueue)] \subseteq Task \cup Fn
    BY <2>1 DEF SysTypeOK
  <2>3. tmpt' \in Seq(Task \cup Fn)
    BY <1>1, <2>2, TakesCopy
  <2>4. QED
    BY <1>1, <2>1, <2>3, SameTypes DEF TakeMessage, SysTypeOK
<1>2. CASE CallSubscriber
  <2>1. tmpt' \in Seq(Task \cup Fn) /\ Head(tmpt) \in Task \cup Fn
    BY <1>2, TakesNext DEF CallSubscriber
  <2>2. CASE /\ Head(tmpt) \in Fn
             /\ Push(Head(tmpt))
             /\ UNCHANGED <<timerVars, poolVars, subscribers, tstate, waitTopic, starting>>
    <3>1. stack' \in Seq(Actor)
      BY <2>2, PushStack DEF SysTypeOK, Actor, Callback
    <3>2. QED
      BY <1>2, <2>1, <2>2, <3>1, SameTypes DEF CallSubscriber, SysTypeOK
  <2>3. CASE Head(tmpt) \in Task /\ CoresumeWithArguments(Head(tmpt))
    BY <1>2, <2>1, <2>3, WithArgumentsType DEF CallSubscriber, SysTypeOK
  <2>4. QED
    BY <1>2, <2>2, <2>3 DEF CallSubscriber
<1>3. CASE DispatchDone
  BY <1>3, SameTypes DEF DispatchDone, SysTypeOK
<1>4. CASE ReceiveTimer
  <2>0. PICK m \in Msg \ {DriverMsg} :
          /\ luat_msgbus_get(m)
          /\ \E t \in HandlerTimers(m) : HandlesTimer(t)
    BY <1>4 DEF ReceiveTimer, HandlesTimer
  <2>1. PICK t \in HandlerTimers(m) : HandlesTimer(t)
    BY <2>0
  <2>2. HeapTypeOK' /\ t \in Block \cup {NULL}
    BY <2>1, HandlerType, HeapTyped DEF SysTypeOK, HandlesTimer
  <2>3. bus' \in Seq(Msg) /\ Len(bus') <= BusLen
    BY <2>0, GetType DEF SysTypeOK
  <2>4. TimerTypeOK'
    BY <1>4, <2>2, <2>3 DEF ReceiveTimer, SysTypeOK, TimerTypeOK, HeapTypeOK, TableTypeOK
  <2>5. CASE t = NULL
    BY <1>4, <2>1, <2>4, <2>5 DEF ReceiveTimer, SysTypeOK, HandlesTimer
  <2>6. CASE t # NULL
    <3>1. block[t].id \in TimerId
      BY <2>2, <2>6 DEF SysTypeOK, TimerTypeOK, Timer
    <3>2. QED
      BY <1>4, <2>1, <2>4, <2>6, <3>1, TimerEventType
      DEF ReceiveTimer, SysTypeOK, HandlesTimer
  <2>7. QED
    BY <2>5, <2>6
<1>5. ASSUME NEW topic \in Topic, ReceiveDriver(topic)
      PROVE  SysTypeOK'
  <2>1. bus' \in Seq(Msg) /\ Len(bus') <= BusLen
    BY <1>5, GetType DEF ReceiveDriver, SysTypeOK
  <2>2. TimerTypeOK'
    BY <1>5, <2>1 DEF ReceiveDriver, SysTypeOK, TimerTypeOK
  <2>3. messageQueue' \in Seq(Topic)
    BY <1>5, AppendProperties DEF ReceiveDriver, SysTypeOK
  <2>4. QED
    BY <1>5, <2>2, <2>3 DEF ReceiveDriver, SysTypeOK
<1>6. QED
  BY <1>1, <1>2, <1>3, <1>4, <1>5 DEF SafeRun

LEMMA InitSysType == SysInit => SysTypeOK
<1> SUFFICES ASSUME SysInit PROVE SysTypeOK
  OBVIOUS
<1>1. TimerTypeOK
  BY InitType DEF SysInit
<1>2. /\ messageQueue \in Seq(Topic)
      /\ tmpt \in Seq(Task \cup Fn)
  BY EmptySeq DEF SysInit
<1>3. stack \in Seq(Actor)
  BY DEF SysInit, Actor
<1>4. QED
  BY <1>1, <1>2, <1>3, SysAssumption DEF SysInit, SysTypeOK, TaskState

LEMMA NextSysType ==
    SysTypeOK /\ PoolKinds /\ SubscribersFinite /\ [SysNext]_sysVars => SysTypeOK'
<1> SUFFICES ASSUME SysTypeOK, PoolKinds, SubscribersFinite, [SysNext]_sysVars
             PROVE  SysTypeOK'
  OBVIOUS
<1>1. CASE SysDriverPosts \/ SysDaemon \/ SysOrphan
  <2>1. /\ TimerTypeOK'
        /\ UNCHANGED <<poolVars, msgVars, runVars>>
        /\ calls' \in 0 .. MaxCalls
    BY <1>1, DaemonType, SysAssumption
    DEF SysDriverPosts, SysDaemon, SysOrphan, SysTypeOK
  <2>2. QED
    BY <2>1 DEF SysTypeOK, poolVars, msgVars, runVars
<1>2. CASE UNCHANGED sysVars
  BY <1>2, SameTypes DEF sysVars, SysTypeOK, poolVars, msgVars, runVars
<1>3. QED
  BY <1>1, <1>2, CallKeepsType, ProceedKeepsType, SafeRunKeepsType DEF SysNext

-----------------------------------------------------------------------------
(* The ranges of ids. *)

LEMMA InitPool == SysInit => PoolKinds
BY DEF SysInit, PoolKinds

LEMMA NextPool ==
    SysTypeOK /\ PoolKinds /\ [SysNext]_sysVars => PoolKinds'
<1> SUFFICES ASSUME SysTypeOK, PoolKinds, [SysNext]_sysVars PROVE PoolKinds'
  OBVIOUS
<1>0. UNCHANGED timerPool => PoolKinds'
  BY DEF PoolKinds
<1>1. ASSUME NEW k, timerPool' = [timerPool EXCEPT ![k] = NULL]
      PROVE  PoolKinds'
  BY <1>1 DEF PoolKinds, SysTypeOK
<1>2. ASSUME NEW t \in Task, NEW kind, NEW topic, NEW ms, Wait(t, kind, topic, ms)
      PROVE  PoolKinds'
  <2>1. NextTaskTimerId \in TimerId /\ NextTaskTimerId < TASK_TIMER_ID_MAX
    BY NextTaskIdType, SysAssumption
  <2>2. QED
    BY <1>2, <2>1 DEF Wait, PoolKinds, SysTypeOK
<1>3. ASSUME NEW fn, timerStopBy(fn)
      PROVE  PoolKinds'
  BY <1>0, <1>1, <1>3 DEF timerStopBy, DropTimer
<1>4. ASSUME NEW ms, NEW ret, TimerAdvStarted(ms, ret)
      PROVE  PoolKinds'
  <2>1. NextMsgId \in TimerId /\ ~ (NextMsgId < TASK_TIMER_ID_MAX)
    BY <1>4, NextMsgIdType, SysAssumption DEF TimerAdvStarted
  <2>2. starting.fn \in Callback
    BY <1>4 DEF TimerAdvStarted, SysTypeOK
  <2>3. QED
    BY <1>4, <2>1, <2>2 DEF TimerAdvStarted, PoolKinds, SysTypeOK
<1>5. CASE StopNextOfAll
  BY <1>0, <1>1, <1>5 DEF StopNextOfAll, DropTimer
<1>6. ASSUME NEW k, SysTimerStopId(k)
      PROVE  PoolKinds'
  BY <1>1, <1>6 DEF SysTimerStopId, DropTimer
<1>7. ASSUME NEW t, CoresumeWithArguments(t)
      PROVE  PoolKinds'
  BY <1>0, <1>1, <1>7 DEF CoresumeWithArguments, WaitEndsByMessage, poolVars
<1>7a. CASE CallSubscriber
  BY <1>0, <1>7, <1>7a DEF CallSubscriber, poolVars
<1>8. CASE ReceiveTimer
  <2>1. PICK m \in Msg \ {DriverMsg} : \E t \in HandlerTimers(m) : HandlesTimer(t)
    BY <1>8 DEF ReceiveTimer, HandlesTimer
  <2>2. PICK t \in HandlerTimers(m) : HandlesTimer(t)
    BY <2>1
  <2>3. t \in Block \cup {NULL}
    BY <2>2, HandlerType, HeapTyped DEF SysTypeOK, HandlesTimer
  <2>4. CASE t # NULL
    <3>1. block[t].id \in TimerId /\ TimerEvent(block[t].id, block[t].repeat)
      BY <2>2, <2>3, <2>4 DEF SysTypeOK, TimerTypeOK, Timer, HandlesTimer
    <3>2. UNCHANGED timerPool \/ timerPool' = [timerPool EXCEPT ![block[t].id] = NULL]
      BY <3>1, TimerEventCases
      DEF EventOfNobody, EventWakes, EventFails, EventMissesTask, EventCalls
    <3>3. QED
      BY <1>0, <1>1, <3>2
  <2>5. QED
    BY <1>0, <2>2, <2>4 DEF HandlesTimer
<1>10. CASE \E t \in Task : TaskCall(t)
  BY <1>0, <1>2, <1>10 DEF TaskCall, WaitUntilMsg, Yield, poolVars
<1>11. CASE AnyCall
  BY <1>0, <1>3, <1>6, <1>7, <1>11
  DEF AnyCall, TaskInit, SysCoresume, SysCoresumeBare, SysTimerStop, SysTimerStopAll, TimerAdvStart, Publish, Subscribe,
      Unsubscribe, TaskFails, CallbackFails, EndsLoop, poolVars
<1>12. CASE Proceed
  BY <1>0, <1>3, <1>4, <1>5, <1>12
  DEF Proceed, Return, wrapper, AssertFails, EndsLoop, poolVars
<1>13. CASE SafeRun
  BY <1>0, <1>7a, <1>8, <1>13 DEF SafeRun, TakeMessage, DispatchDone, ReceiveDriver, poolVars
<1>14. CASE SysDriverPosts \/ SysDaemon \/ SysOrphan \/ UNCHANGED sysVars
  BY <1>0, <1>14 DEF SysDriverPosts, SysDaemon, SysOrphan, sysVars, poolVars
<1>15. QED
  BY <1>10, <1>11, <1>12, <1>13, <1>14 DEF SysNext

-----------------------------------------------------------------------------
(* The stack. *)

(* The tasks on the stack are running, each once. *)
StackInv ==
    /\ \A i \in 1 .. Len(stack) : stack[i] \in Task => tstate[stack[i]] = "active"
    /\ \A i, j \in 1 .. Len(stack) : stack[i] \in Task /\ stack[i] = stack[j] => i = j

(* A subscribed task waits for just that topic. *)
SubscribersWait ==
    \A topic \in Topic : \A t \in subscribers[topic] \cap Task :
        waitTopic[t] = topic /\ tstate[t] \in {"until", "msg"}

(* dispatch has each task at most once in its copy; when the main loop calls *)
(* rtos.receive the copy is used up and nothing else runs.                   *)
CopiesOnce ==
    /\ phase = "receive" => tmpt = <<>> /\ stack = <<>>
    /\ \A i, j \in 1 .. Len(tmpt) : tmpt[i] \in Task /\ tmpt[i] = tmpt[j] => i = j

CoroutineInv ==
    /\ StackInv
    /\ SubscribersFinite
    /\ SubscribersWait
    /\ CopiesOnce

LEMMA InitCoroutines == SysInit => CoroutineInv
<1> SUFFICES ASSUME SysInit PROVE CoroutineInv
  OBVIOUS
<1>1. StackInv
  BY ActorAssumption DEF SysInit, StackInv
<1>2. SubscribersFinite /\ SubscribersWait
  BY FS_EmptySet DEF SysInit, SubscribersFinite, SubscribersWait
<1>3. CopiesOnce
  BY DEF SysInit, CopiesOnce
<1>4. QED
  BY <1>1, <1>2, <1>3 DEF CoroutineInv

(* A task that runs is subscribed to nothing. *)
LEMMA RunningTask ==
    ASSUME SysTypeOK, CoroutineInv, NEW t \in Task, tstate[t] \notin {"until", "msg"}
    PROVE  \A topic \in Topic : t \notin subscribers[topic]
BY DEF CoroutineInv, SubscribersWait

LEMMA TopRuns ==
    ASSUME SysTypeOK, CoroutineInv, stack # <<>>, Top \in Task
    PROVE  tstate[Top] = "active"
BY TopOfStack DEF SysTypeOK, CoroutineInv, StackInv, Top

(* What neither runs nor suspends a task changes nothing here. *)
LEMMA SameCoroutines ==
    ASSUME SysTypeOK, CoroutineInv, UNCHANGED <<stack, tstate, waitTopic, tmpt>>,
           \/ UNCHANGED phase
           \/ phase' = "receive" /\ tmpt = <<>> /\ stack = <<>>
           \/ phase' \in {"dispatch", "ended"},
           \/ UNCHANGED subscribers
           \/ \E topic \in Topic, fn \in Fn :
                 subscribers' \in {[subscribers EXCEPT ![topic] = @ \cup {fn}],
                                   [subscribers EXCEPT ![topic] = @ \ {fn}]}
    PROVE  CoroutineInv'
<1>1. StackInv'
  BY DEF CoroutineInv, StackInv
<1>2. SubscribersFinite'
  <2>1. \A topic \in Topic : \A x :
          /\ IsFiniteSet(subscribers[topic])
          /\ IsFiniteSet(subscribers[topic] \cup {x})
          /\ IsFiniteSet(subscribers[topic] \ {x})
    BY FS_AddElement, FS_RemoveElement DEF CoroutineInv, SubscribersFinite
  <2>2. CASE UNCHANGED subscribers
    BY <2>1, <2>2 DEF SubscribersFinite
  <2>3. ASSUME NEW topic \in Topic, NEW fn \in Fn,
               subscribers' = [subscribers EXCEPT ![topic] = @ \cup {fn}]
        PROVE  SubscribersFinite'
    BY <2>1, <2>3 DEF SubscribersFinite, SysTypeOK
  <2>4. ASSUME NEW topic \in Topic, NEW fn \in Fn,
               subscribers' = [subscribers EXCEPT ![topic] = @ \ {fn}]
        PROVE  SubscribersFinite'
    BY <2>1, <2>4 DEF SubscribersFinite, SysTypeOK
  <2>5. QED
    BY <2>2, <2>3, <2>4
<1>3. SubscribersWait'
  BY ActorAssumption DEF CoroutineInv, SubscribersWait, SysTypeOK
<1>4. CopiesOnce'
  BY DEF CoroutineInv, CopiesOnce
<1>5. QED
  BY <1>1, <1>2, <1>3, <1>4 DEF CoroutineInv

(* A push puts its actor above the others; a copy loses its first.          *)
LEMMA PushedAbove ==
    ASSUME SysTypeOK, NEW x, Push(x), NEW i \in 1 .. Len(stack')
    PROVE  \/ i \in 1 .. Len(stack) /\ stack'[i] = stack[i]
           \/ i = Len(stack) + 1 /\ stack'[i] = x
<1>1. /\ Len(stack) \in Nat
      /\ Len(stack') = Len(stack) + 1
      /\ \A k \in 1 .. Len(stack) : stack'[k] = stack[k]
      /\ stack'[Len(stack) + 1] = x
  BY PushStack, LenProperties DEF SysTypeOK
<1>2. QED
  BY <1>1

LEMMA CopyShrinks ==
    ASSUME SysTypeOK, tmpt # <<>>, tmpt' = Tail(tmpt)
    PROVE  /\ \A k \in 1 .. Len(tmpt') : k + 1 \in 1 .. Len(tmpt) /\ tmpt'[k] = tmpt[k + 1]
           /\ \A i, j \in 1 .. Len(tmpt') : i + 1 = j + 1 => i = j
<1>1. /\ Len(tmpt) \in Nat
      /\ Len(tmpt') = Len(tmpt) - 1
      /\ \A i \in 1 .. Len(tmpt') : tmpt'[i] = tmpt[i + 1]
  BY TakesNext
<1>2. QED
  BY <1>1

(* The task on top stops running: it waits, perhaps for a topic, or ends. *)
LEMMA TopYields ==
    ASSUME SysTypeOK, SysTypeOK', CoroutineInv, stack # <<>>, Pop,
           NEW t \in Task, Top = t, NEW x, tstate' = [tstate EXCEPT ![t] = x],
           \/ UNCHANGED <<waitTopic, subscribers>>
           \/ waitTopic' = [waitTopic EXCEPT ![t] = NULL] /\ UNCHANGED subscribers
           \/ \E topic \in Topic :
                 /\ x \in {"until", "msg"}
                 /\ waitTopic' = [waitTopic EXCEPT ![t] = topic]
                 /\ subscribers' = [subscribers EXCEPT ![topic] = @ \cup {t}],
           UNCHANGED <<tmpt, phase>>
    PROVE  CoroutineInv'
<1>1. \A topic \in Topic : t \notin subscribers[topic]
  BY TopRuns, RunningTask
<1>2. StackInv'
  <2>1. /\ Len(stack) \in 1 .. Len(stack)
        /\ Len(stack') = Len(stack) - 1
        /\ \A i \in 1 .. Len(stack) - 1 : stack'[i] = stack[i]
    BY TopOfStack, PopStack DEF SysTypeOK
  <2>2. \A i \in 1 .. Len(stack') : i \in 1 .. Len(stack) /\ stack'[i] = stack[i]
    BY <2>1
  <2>3. \A i \in 1 .. Len(stack') : stack[i] # t
    <3>1. \A i \in 1 .. Len(stack') : i # Len(stack)
      BY <2>1
    <3>2. QED
      BY <2>1, <2>2, <3>1 DEF CoroutineInv, StackInv, Top
  <2>4. QED
    BY <2>2, <2>3 DEF SysTypeOK, CoroutineInv, StackInv
<1>3. SubscribersFinite'
  <2>1. \A topic \in Topic :
          IsFiniteSet(subscribers[topic]) /\ IsFiniteSet(subscribers[topic] \cup {t})
    BY FS_AddElement DEF CoroutineInv, SubscribersFinite
  <2>2. QED
    BY <2>1 DEF SubscribersFinite, SysTypeOK
<1>4. SubscribersWait'
  BY <1>1 DEF CoroutineInv, SubscribersWait, SysTypeOK
<1>5. CopiesOnce'
  BY DEF CoroutineInv, CopiesOnce
<1>6. QED
  BY <1>2, <1>3, <1>4, <1>5 DEF CoroutineInv

(* A callback or the main chunk returns, or all that runs is dropped. *)
LEMMA NonTaskPops ==
    ASSUME SysTypeOK, CoroutineInv, (stack # <<>> /\ Pop) \/ stack' = <<>>,
           UNCHANGED <<tstate, waitTopic, subscribers, tmpt>>,
           UNCHANGED phase \/ phase' = "ended"
    PROVE  CoroutineInv'
<1>1. StackInv'
  <2>1. CASE stack # <<>> /\ Pop
    <3>1. /\ Len(stack) \in Nat
          /\ Len(stack') = Len(stack) - 1
          /\ \A i \in 1 .. Len(stack) - 1 : stack'[i] = stack[i]
      BY <2>1, PopStack DEF SysTypeOK
    <3>2. \A i \in 1 .. Len(stack') : i \in 1 .. Len(stack) /\ stack'[i] = stack[i]
      BY <3>1
    <3>3. QED
      BY <3>2 DEF CoroutineInv, StackInv
  <2>2. CASE stack' = <<>>
    BY <2>2 DEF StackInv
  <2>3. QED
    BY <2>1, <2>2
<1>2. QED
  BY <1>1 DEF CoroutineInv, SubscribersFinite, SubscribersWait, CopiesOnce

(* A callback is called. *)
LEMMA CallbackPushed ==
    ASSUME SysTypeOK, CoroutineInv, NEW fn \in Callback, Push(fn),
           UNCHANGED <<tstate, waitTopic, subscribers>>, phase' = "dispatch",
           UNCHANGED tmpt \/ (tmpt # <<>> /\ tmpt' = Tail(tmpt))
    PROVE  CoroutineInv'
<1>1. fn \notin Task
  BY ActorAssumption DEF Callback
<1>2. StackInv'
  <2>1. \A i \in 1 .. Len(stack') :
          stack'[i] \in Task => i \in 1 .. Len(stack) /\ stack'[i] = stack[i]
    BY <1>1, PushedAbove
  <2>2. QED
    BY <2>1 DEF CoroutineInv, StackInv
<1>3. CopiesOnce'
  BY CopyShrinks DEF CoroutineInv, CopiesOnce
<1>4. QED
  BY <1>2, <1>3 DEF CoroutineInv, SubscribersFinite, SubscribersWait

(* A suspended task is resumed, by dispatch, for its timer, or by user code. *)
LEMMA TaskResumed ==
    ASSUME SysTypeOK, CoroutineInv, NEW t \in Task, tstate[t] \in Suspended, Coresume(t),
           phase' = "dispatch" \/ (stack # <<>> /\ UNCHANGED phase),
           UNCHANGED tmpt \/ (tmpt # <<>> /\ tmpt' = Tail(tmpt))
    PROVE  CoroutineInv'
<1>1. StackInv'
  <2>1. \A i \in 1 .. Len(stack) : stack[i] # t
    BY DEF CoroutineInv, StackInv, Suspended, TimedWait
  <2>2. \A i \in 1 .. Len(stack') :
          /\ stack'[i] # t => i \in 1 .. Len(stack) /\ stack'[i] = stack[i]
          /\ stack'[i] = t => i = Len(stack) + 1
    BY <2>1, PushedAbove DEF Coresume
  <2>3. QED
    BY <2>1, <2>2 DEF Coresume, SysTypeOK, CoroutineInv, StackInv
<1>2. SubscribersFinite'
  BY FS_RemoveElement DEF CoroutineInv, SubscribersFinite, SysTypeOK, Coresume
<1>3. SubscribersWait'
  BY ActorAssumption DEF CoroutineInv, SubscribersWait, SysTypeOK, Coresume
<1>4. CopiesOnce'
  BY CopyShrinks DEF CoroutineInv, CopiesOnce
<1>5. QED
  BY <1>1, <1>2, <1>3, <1>4 DEF CoroutineInv

(* A resume with arguments, whether it succeeds or fails. *)
LEMMA ResumedWithArguments ==
    ASSUME SysTypeOK, CoroutineInv, NEW t \in Task, CoresumeWithArguments(t),
           phase' = "dispatch" \/ (stack # <<>> /\ UNCHANGED phase),
           UNCHANGED tmpt \/ (tmpt # <<>> /\ tmpt' = Tail(tmpt))
    PROVE  CoroutineInv'
<1>1. CASE EndsWait(t) \/ EndsYield(t)
  BY <1>1, TaskResumed DEF EndsWait, EndsYield, Suspended
<1>2. CASE EndsNothing(t)
  <2>1. UNCHANGED <<stack, tstate, waitTopic, subscribers>>
    BY <1>2 DEF EndsNothing, CoresumeFails
  <2>2. CopiesOnce'
    BY CopyShrinks DEF CoroutineInv, CopiesOnce
  <2>3. QED
    BY <2>1, <2>2 DEF CoroutineInv, StackInv, SubscribersFinite, SubscribersWait
<1>3. QED
  BY <1>1, <1>2, CoresumeCases

(* A new task starts inside its creator. *)
LEMMA TaskStarts ==
    ASSUME SysTypeOK, CoroutineInv, NEW t \in Task, TaskInit(t)
    PROVE  CoroutineInv'
<1>1. /\ \A topic \in Topic : t \notin subscribers[topic]
      /\ \A i \in 1 .. Len(stack) : stack[i] # t
  BY RunningTask DEF TaskInit, CoroutineInv, StackInv
<1>2. StackInv'
  <2>1. \A i \in 1 .. Len(stack') :
          /\ stack'[i] # t => i \in 1 .. Len(stack) /\ stack'[i] = stack[i]
          /\ stack'[i] = t => i = Len(stack) + 1
    <3>1. t \in Actor /\ Push(t)
      BY DEF Actor, TaskInit
    <3>2. QED
      BY <1>1, <3>1, PushedAbove
  <2>2. QED
    BY <2>1 DEF TaskInit, SysTypeOK, CoroutineInv, StackInv
<1>3. SubscribersWait'
  BY <1>1 DEF TaskInit, SysTypeOK, CoroutineInv, SubscribersWait, msgVars
<1>4. QED
  BY <1>2, <1>3 DEF TaskInit, UserCall, CoroutineInv, SubscribersFinite, CopiesOnce, msgVars

LEMMA NextCoroutines ==
    SysTypeOK /\ SysTypeOK' /\ PoolKinds /\ CoroutineInv /\ [SysNext]_sysVars => CoroutineInv'
<1> SUFFICES ASSUME SysTypeOK, SysTypeOK', PoolKinds, CoroutineInv, [SysNext]_sysVars
             PROVE  CoroutineInv'
  OBVIOUS
<1> USE DEF msgVars, runVars
<1>1. ASSUME NEW t \in Task, NEW kind \in TimedWait, NEW topic \in Topic \cup {NULL},
             NEW ms, kind = "until" \/ topic = NULL, Wait(t, kind, topic, ms)
      PROVE  CoroutineInv'
  <2>1. CASE UNCHANGED <<tstate, waitTopic, subscribers, stack>>
    BY <1>1, <2>1, SameCoroutines DEF Wait
  <2>2. CASE /\ tstate' = [tstate EXCEPT ![t] = kind]
             /\ waitTopic' = [waitTopic EXCEPT ![t] = topic]
             /\ subscribers' = IF topic = NULL THEN subscribers
                               ELSE [subscribers EXCEPT ![topic] = @ \cup {t}]
             /\ Pop
    <3>1. stack # <<>> /\ Top = t /\ UNCHANGED <<tmpt, phase>>
      BY <1>1 DEF Wait, UserCall
    <3>2. CASE topic = NULL
      BY <2>2, <3>1, <3>2, TopYields
    <3>3. CASE topic # NULL
      BY <1>1, <2>2, <3>1, <3>3, TopYields
    <3>4. QED
      BY <3>2, <3>3
  <2>3. QED
    BY <1>1, <2>1, <2>2 DEF Wait
<1>2. ASSUME NEW t \in Task, NEW topic \in Topic, WaitUntilMsg(t, topic)
      PROVE  CoroutineInv'
  BY <1>2, TopYields DEF WaitUntilMsg, UserCall
<1>2a. ASSUME NEW t \in Task, Yield(t)
       PROVE  CoroutineInv'
  BY <1>2a, TopYields DEF Yield, UserCall
<1>3. CASE \E t \in Task : TaskCall(t)
  BY <1>1, <1>2, <1>2a, <1>3 DEF TaskCall, TimedWait
<1>4. ASSUME NEW t \in Task, NEW traceBack, TaskFails(t, traceBack)
      PROVE  CoroutineInv'
  BY <1>4, TopYields DEF TaskFails, UserCall
<1>5. CASE AnyCall
  <2>1. ASSUME NEW fn \in Fn, \/ SysTimerStop(fn) \/ SysTimerStopAll(fn)
                              \/ \E rep \in Repeat : TimerAdvStart(fn, rep)
        PROVE  CoroutineInv'
    BY <2>1, SameCoroutines DEF SysTimerStop, SysTimerStopAll, TimerAdvStart
  <2>2. ASSUME NEW k, SysTimerStopId(k)
        PROVE  CoroutineInv'
    BY <2>2, SameCoroutines DEF SysTimerStopId
  <2>3. ASSUME NEW topic \in Topic, Publish(topic)
        PROVE  CoroutineInv'
    BY <2>3, SameCoroutines DEF Publish
  <2>4. ASSUME NEW topic \in Topic, NEW fn \in Fn,
               Subscribe(topic, fn) \/ Unsubscribe(topic, fn)
        PROVE  CoroutineInv'
    <3>1. subscribers' \in {[subscribers EXCEPT ![topic] = @ \cup {fn}],
                            [subscribers EXCEPT ![topic] = @ \ {fn}]}
      BY <2>4 DEF Subscribe, Unsubscribe
    <3>2. UNCHANGED <<stack, tstate, waitTopic, tmpt, phase>>
      BY <2>4 DEF Subscribe, Unsubscribe
    <3>3. QED
      BY <3>1, <3>2, SameCoroutines
  <2>5. CASE CallbackFails
    BY <2>5, NonTaskPops DEF CallbackFails, EndsLoop
  <2>6. ASSUME NEW t \in Task, SysCoresume(t) \/ SysCoresumeBare(t)
        PROVE  CoroutineInv'
    <3>1. stack # <<>> /\ UNCHANGED <<tmpt, phase>>
      BY <2>6 DEF SysCoresume, SysCoresumeBare, UserCall
    <3>2. \/ CoresumeWithArguments(t)
          \/ Coresume(t) /\ tstate[t] \in Suspended
      BY <2>6 DEF SysCoresume, SysCoresumeBare, Suspended
    <3>3. QED
      BY <3>1, <3>2, ResumedWithArguments, TaskResumed
  <2>7. QED
    BY <1>4, <1>5, <2>1, <2>2, <2>3, <2>4, <2>5, <2>6, TaskStarts DEF AnyCall
<1>6. CASE Proceed
  <2>1. CASE Return
    <3>1. CASE Top \in Task
      BY <2>1, <3>1, TopYields DEF Return
    <3>2. CASE Top \notin Task
      BY <2>1, <3>2, NonTaskPops DEF Return
    <3>3. QED
      BY <3>1, <3>2
  <2>2. ASSUME NEW ms, NEW ret, TimerAdvStarted(ms, ret)
        PROVE  CoroutineInv'
    BY <2>2, SameCoroutines DEF TimerAdvStarted
  <2>3. CASE StopNextOfAll \/ wrapper
    BY <2>3, SameCoroutines DEF StopNextOfAll, wrapper
  <2>4. CASE AssertFails
    BY <2>4, NonTaskPops DEF AssertFails, EndsLoop
  <2>5. QED
    BY <1>6, <2>1, <2>2, <2>3, <2>4 DEF Proceed
<1>7. CASE TakeMessage
  <2> DEFINE subs == subscribers[Head(messageQueue)]
  <2>1. /\ Head(messageQueue) \in Topic
        /\ tmpt' \in Seq(subs)
        /\ \A i, j \in 1 .. Len(tmpt') : tmpt'[i] = tmpt'[j] => i = j
    BY <1>7, TakesCopy DEF CoroutineInv
  <2>3. UNCHANGED <<stack, tstate, waitTopic, subscribers, phase>> /\ phase # "receive"
    BY <1>7 DEF TakeMessage, MainLoop
  <2>4. CopiesOnce'
    BY <2>1, <2>3 DEF CopiesOnce
  <2>5. QED
    BY <2>3, <2>4 DEF CoroutineInv, StackInv, SubscribersFinite, SubscribersWait
<1>8. CASE CallSubscriber
  <2>1. stack = <<>> /\ tmpt # <<>> /\ tmpt' = Tail(tmpt) /\ phase' = "dispatch"
    BY <1>8 DEF CallSubscriber, MainLoop
  <2>2. CASE Head(tmpt) \in Fn /\ Push(Head(tmpt))
             /\ UNCHANGED <<subscribers, tstate, waitTopic>>
    BY <2>1, <2>2, CallbackPushed DEF Callback
  <2>3. CASE Head(tmpt) \in Task /\ CoresumeWithArguments(Head(tmpt))
    BY <2>1, <2>3, ResumedWithArguments
  <2>4. QED
    BY <1>8, <2>2, <2>3 DEF CallSubscriber
<1>9. CASE DispatchDone
  BY <1>9, SameCoroutines DEF DispatchDone, MainLoop
<1>10. CASE ReceiveTimer
  <2>1. /\ stack = <<>> /\ tmpt = <<>> /\ phase' = "dispatch" /\ UNCHANGED tmpt
    BY <1>10 DEF ReceiveTimer, MainLoop, CoroutineInv, CopiesOnce
  <2>2. UNCHANGED <<stack, tstate, waitTopic, subscribers>> => CoroutineInv'
    BY <2>1, SameCoroutines
  <2>3. PICK m \in Msg \ {DriverMsg} : \E t \in HandlerTimers(m) : HandlesTimer(t)
    BY <1>10 DEF ReceiveTimer, HandlesTimer
  <2>4. PICK t \in HandlerTimers(m) : HandlesTimer(t)
    BY <2>3
  <2>5. t \in Block \cup {NULL}
    BY <2>4, HandlerType, HeapTyped DEF SysTypeOK, HandlesTimer
  <2>6. CASE t # NULL
    <3> DEFINE id == block[t].id
               rep == block[t].repeat
    <3>1. id \in TimerId /\ TimerEvent(id, rep)
      BY <2>4, <2>5, <2>6 DEF SysTypeOK, TimerTypeOK, Timer, HandlesTimer
    <3>2. ASSUME NEW u \in Task, EventWakes(id, u)
          PROVE  CoroutineInv'
      BY <2>1, <3>2, TaskResumed DEF EventWakes
    <3>3. ASSUME NEW fn \in Callback, EventCalls(id, fn, rep)
          PROVE  CoroutineInv'
      BY <2>1, <3>3, CallbackPushed DEF EventCalls
    <3>4. QED
      BY <2>2, <3>1, <3>2, <3>3, TimerEventCases
      DEF EventOfNobody, EventMissesTask, EventFails, CoresumeFails
  <2>7. QED
    BY <2>2, <2>4, <2>6 DEF HandlesTimer
<1>11. ASSUME NEW topic \in Topic, ReceiveDriver(topic)
       PROVE  CoroutineInv'
  BY <1>11, SameCoroutines DEF ReceiveDriver
<1>12. CASE SysDriverPosts \/ SysDaemon \/ SysOrphan \/ UNCHANGED sysVars
  BY <1>12, SameCoroutines DEF SysDriverPosts, SysDaemon, SysOrphan, sysVars
<1>13. QED
  BY <1>3, <1>5, <1>6, <1>7, <1>8, <1>9, <1>10, <1>11, <1>12 DEF SysNext, SafeRun

(* SysInv collects what holds whatever ids have been given out. *)
SysInv == SysTypeOK /\ PoolKinds /\ CoroutineInv

LEMMA InitSysInv == SysInit => SysInv
BY InitSysType, InitPool, InitCoroutines DEF SysInv

LEMMA NextSysInv == SysInv /\ [SysNext]_sysVars => SysInv'
BY NextSysType, NextPool, NextCoroutines DEF SysInv, CoroutineInv

(* Every variable keeps its type, and with it every call its arguments:      *)
(* the timer ids stay within the two ranges of sys.lua, and what dispatch    *)
(* calls is a task or a function.                                            *)
THEOREM SysTypeCorrect == SysSpec => []SysTypeOK
<1>1. SysInv => SysTypeOK
  BY DEF SysInv
<1>2. QED
  BY <1>1, InitSysInv, NextSysInv, PTL DEF SysSpec

(* What becomes of a task that dispatch has copied, step by step. *)
LEMMA CopyTaken ==
    ASSUME SysTypeOK, CoroutineInv, TakeMessage, NEW t \in Task
    PROVE  CopySuspended(t)'
<1> DEFINE subs == subscribers[Head(messageQueue)]
<1>1. Head(messageQueue) \in Topic /\ tmpt' \in Seq(subs)
  BY TakesCopy DEF CoroutineInv
<1>2. \A i \in 1 .. Len(tmpt') : tmpt'[i] \in subs
  BY <1>1, ElementOfSeq
<1>3. \A u \in subs \cap Task : tstate[u] \in Suspended
  BY <1>1 DEF CoroutineInv, SubscribersWait, Suspended, TimedWait
<1>4. UNCHANGED tstate
  BY DEF TakeMessage, runVars
<1> HIDE DEF subs
<1>5. QED
  BY <1>2, <1>3, <1>4 DEF CopySuspended

LEMMA CopyUsed ==
    ASSUME SysTypeOK, CoroutineInv, CallSubscriber, NEW t \in Task, CopySuspended(t)
    PROVE  CopySuspended(t)'
<1>1. tmpt # <<>> /\ tmpt' = Tail(tmpt)
  BY DEF CallSubscriber
<1>2. \A k \in 1 .. Len(tmpt') : k + 1 \in 1 .. Len(tmpt) /\ tmpt'[k] = tmpt[k + 1]
  BY <1>1, CopyShrinks
<1>3. CASE t # Head(tmpt)
  <2>1. tstate'[t] = tstate[t]
    BY <1>3, ActorAssumption
    DEF CallSubscriber, CoresumeWithArguments, CoresumeFails, Coresume, SysTypeOK
  <2>2. QED
    BY <1>2, <2>1 DEF CopySuspended
<1>4. CASE t = Head(tmpt)
  <2>1. Len(tmpt) \in Nat /\ Len(tmpt) # 0 /\ t = tmpt[1]
    BY <1>1, <1>4, EmptySeq DEF SysTypeOK
  <2>2. 1 \in 1 .. Len(tmpt) /\ \A k \in 1 .. Len(tmpt') : k + 1 # 1
    BY <2>1
  <2>3. \A k \in 1 .. Len(tmpt') : tmpt'[k] # t
    BY <1>2, <2>1, <2>2 DEF CoroutineInv, CopiesOnce
  <2>4. QED
    BY <2>3 DEF CopySuspended
<1>5. QED
  BY <1>3, <1>4

(* No other step touches the copy ... *)
LEMMA CopyKept ==
    ASSUME [SysNext]_sysVars, ~TakeMessage, ~CallSubscriber
    PROVE  UNCHANGED tmpt
<1> USE DEF msgVars, runVars
<1>1. CASE AnyCall \/ \E t \in Task : TaskCall(t)
  BY <1>1
  DEF AnyCall, TaskInit, SysCoresume, SysCoresumeBare, SysTimerStop, SysTimerStopAll,
      SysTimerStopId, TimerAdvStart, Publish, Subscribe, Unsubscribe, TaskFails,
      CallbackFails, EndsLoop, TaskCall, Wait, WaitUntilMsg, Yield
<1>2. CASE Proceed
  BY <1>2
  DEF Proceed, Return, TimerAdvStarted, StopNextOfAll, wrapper, AssertFails, EndsLoop
<1>3. CASE SafeRun
  BY <1>3 DEF SafeRun, DispatchDone, ReceiveTimer, ReceiveDriver
<1>4. CASE SysDriverPosts \/ SysDaemon \/ SysOrphan \/ UNCHANGED sysVars
  BY <1>4 DEF SysDriverPosts, SysDaemon, SysOrphan, sysVars
<1>5. QED
  BY <1>1, <1>2, <1>3, <1>4 DEF SysNext

(* ... or wakes a task in it, but for a resume by user code: the timers wake *)
(* tasks when the copy is used up.                                           *)
LEMMA CopyLeft ==
    ASSUME SysTypeOK, CoroutineInv, [SysNext]_sysVars, NEW t \in Task,
           ~TakeMessage, ~CallSubscriber, ~ResumedByUser(t), tmpt # <<>>,
           tstate[t] \in Suspended
    PROVE  tstate'[t] \in Suspended
<1> USE DEF msgVars, runVars
<1>1. stack # <<>> /\ Top \in Task => Top # t
  BY TopRuns DEF Suspended, TimedWait
<1>2. CASE \E u \in Task : TaskCall(u)
  BY <1>1, <1>2 DEF TaskCall, Wait, WaitUntilMsg, Yield, UserCall, SysTypeOK
<1>3. ASSUME NEW u \in Task, \/ TaskInit(u) \/ SysCoresume(u) \/ SysCoresumeBare(u)
                             \/ \E traceBack \in Traceback : TaskFails(u, traceBack)
      PROVE  tstate'[t] \in Suspended
  <2>1. CASE TaskInit(u)
    BY <2>1 DEF TaskInit, SysTypeOK, Suspended, TimedWait
  <2>2. CASE SysCoresume(u) \/ SysCoresumeBare(u)
    <3>1. u # t
      BY <2>2 DEF ResumedByUser
    <3>2. UNCHANGED tstate \/ tstate' = [tstate EXCEPT ![u] = "active"]
      BY <2>2 DEF SysCoresume, SysCoresumeBare, CoresumeWithArguments, CoresumeFails, Coresume
    <3>3. QED
      BY <3>1, <3>2 DEF SysTypeOK
  <2>3. ASSUME NEW traceBack \in Traceback, TaskFails(u, traceBack)
        PROVE  tstate'[t] \in Suspended
    BY <1>1, <2>3 DEF TaskFails, UserCall, SysTypeOK
  <2>4. QED
    BY <1>3, <2>1, <2>2, <2>3
<1>4. CASE AnyCall
  BY <1>3, <1>4
  DEF AnyCall, SysTimerStop, SysTimerStopAll, SysTimerStopId, TimerAdvStart, Publish,
      Subscribe, Unsubscribe, CallbackFails, EndsLoop
<1>5. CASE Proceed
  BY <1>1, <1>5
  DEF Proceed, Return, TimerAdvStarted, StopNextOfAll, wrapper, AssertFails, EndsLoop, SysTypeOK
<1>6. CASE SafeRun
  <2>1. ~ReceiveTimer
    BY DEF ReceiveTimer, MainLoop, CoroutineInv, CopiesOnce
  <2>2. QED
    BY <1>6, <2>1 DEF SafeRun, DispatchDone, ReceiveDriver
<1>7. CASE SysDriverPosts \/ SysDaemon \/ SysOrphan \/ UNCHANGED sysVars
  BY <1>7 DEF SysDriverPosts, SysDaemon, SysOrphan, sysVars
<1>8. QED
  BY <1>2, <1>4, <1>5, <1>6, <1>7 DEF SysNext

(* A task that dispatch has copied stays suspended until its turn comes,     *)
(* although the subscribers called before it may publish, subscribe, start   *)
(* and resume other tasks, wait and fail: only a resume of this very task by *)
(* user code makes coresume meet one that runs or is dead.                   *)
THEOREM CopiedSuspended == SysSpec => CopiedTasksSuspended
<1>1. ASSUME SysInv, [SysNext]_sysVars, NEW t \in Task,
             CopySuspended(t), ~ResumedByUser(t)
      PROVE  CopySuspended(t)'
  <2>1. CASE TakeMessage
    BY <1>1, <2>1, CopyTaken DEF SysInv
  <2>2. CASE CallSubscriber
    BY <1>1, <2>2, CopyUsed DEF SysInv
  <2>3. CASE ~TakeMessage /\ ~CallSubscriber
    <3>1. UNCHANGED tmpt
      BY <1>1, <2>3, CopyKept
    <3>2. CASE \E k \in 1 .. Len(tmpt) : tmpt[k] = t
      <4>1. tmpt # <<>> /\ tstate[t] \in Suspended
        BY <1>1, <3>2 DEF CopySuspended
      <4>2. QED
        BY <1>1, <2>3, <4>1, CopyLeft DEF SysInv, CopySuspended
    <3>3. QED
      BY <3>1, <3>2 DEF CopySuspended
  <2>4. QED
    BY <2>1, <2>2, <2>3
<1>2. SysInv /\ [SysNext]_sysVars =>
        [\A t \in Task : CopySuspended(t) /\ ~ResumedByUser(t) => CopySuspended(t)']_sysVars
  BY <1>1
<1>3. QED
  BY <1>2, InitSysInv, NextSysInv, PTL DEF SysSpec, CopiedTasksSuspended

-----------------------------------------------------------------------------
(* What the layer below does to the timers, in terms of the blocks. *)

(* A stop takes away the timer of its id, and may leave an orphan of it. *)
LEMMA StopEffect ==
    ASSUME TableInv, NEW id, l_rtos_timer_stop(id)
    PROVE  /\ TableInv'
           /\ \A b \in Block : /\ block'[b].used <=> block[b].used /\ block[b].id # id
                               /\ block'[b].used => block'[b] = block[b]
           /\ \A o \in orphans' :
                 o \in orphans \/ \E b \in Block : /\ block[b].used /\ block[b].id = id
                                                   /\ o.id = id
<1>1. CASE luat_timer_get(id) = NULL
  <2>1. UNCHANGED <<block, timers, orphans>>
    BY <1>1 DEF l_rtos_timer_stop
  <2>2. TableInv'
    BY <2>1 DEF TableInv, TableTypeOK, SlotsOwnBlocks, IdsUnique, RepeatMatchesReload
  <2>3. QED
    BY <1>1, <2>1, <2>2, GetTimer DEF TableInv
<1>2. CASE luat_timer_get(id) # NULL
  <2> DEFINE t == luat_timer_get(id)
  <2>1. t \in Block /\ block[t].used /\ block[t].id = id /\ StopAndFree(t)
    BY <1>2, GetTimer DEF l_rtos_timer_stop, TableInv
  <2> HIDE DEF t
  <2>2. TableInv'
    BY <2>1, StopKeepsTable
  <2>3. \A b \in Block : b # t => block'[b] = block[b]
    BY <2>1 DEF StopAndFree, TableInv, TableTypeOK
  <2>4. ~block'[t].used
    BY <2>1 DEF StopAndFree, TableInv, TableTypeOK
  <2>5. \A b \in Block : block[b].used /\ b # t => block[b].id # id
    BY <2>1 DEF TableInv, IdsUnique
  <2>6. \A o \in orphans' : o \in orphans \/ o.id = id
    BY <2>1 DEF StopAndFree
  <2>7. QED
    BY <2>1, <2>2, <2>3, <2>4, <2>5, <2>6
<1>3. QED
  BY <1>1, <1>2

(* A start of an id that no timer has adds a timer of that id or nothing. *)
StartedTimer(id, rep) ==
    [used |-> TRUE, id |-> id, repeat |-> rep, reload |-> rep # 0, armed |-> TRUE]

LEMMA StartEffect ==
    ASSUME TableInv, NEW id \in TimerId, NEW ms \in {0, 1}, NEW rep \in Repeat,
           NEW ret \in {0, 1}, l_rtos_timer_start(id, ms, rep, ret),
           \A b \in Block : block[b].used => block[b].id # id
    PROVE  /\ TableInv'
           /\ luat_timer_get(id) = NULL
           /\ UNCHANGED orphans
           /\ \A b \in Block :
                 /\ block[b].used => block'[b] = block[b]
                 /\ block'[b].used /\ ~block[b].used =>
                       ret = 1 /\ block'[b] = StartedTimer(id, rep)
           /\ ret = 1 => \E b \in Block : ~block[b].used /\ block'[b].used
<1>1. luat_timer_get(id) = NULL
  BY GetTimer DEF TableInv
<1>2. TableInv'
  BY <1>1, StartKeepsTable
<1>3. UNCHANGED orphans /\ block \in [Block -> Timer]
  BY DEF l_rtos_timer_start, TableInv, TableTypeOK
<1>4. CASE ret = 0 /\ UNCHANGED block
  BY <1>1, <1>2, <1>3, <1>4
<1>5. ASSUME NEW c \in FreeBlocks, ret = 1, luat_timer_start(c, id, rep)
      PROVE  /\ \A b \in Block :
                   /\ block[b].used => block'[b] = block[b]
                   /\ block'[b].used /\ ~block[b].used => block'[b] = StartedTimer(id, rep)
             /\ \E b \in Block : ~block[b].used /\ block'[b].used
  BY <1>3, <1>5 DEF luat_timer_start, FreeBlocks, StartedTimer
<1>6. ASSUME NEW c \in FreeBlocks, ret = 0, luat_timer_start_fails(c, id)
      PROVE  \A b \in Block :
                   /\ block[b].used => block'[b] = block[b]
                   /\ block'[b].used => block[b].used
  BY <1>3, <1>6 DEF luat_timer_start_fails, FreeBlocks, Timer
<1>7. \/ ret = 0 /\ UNCHANGED block
      \/ \E c \in FreeBlocks : \/ ret = 1 /\ luat_timer_start(c, id, rep)
                               \/ ret = 0 /\ luat_timer_start_fails(c, id)
  BY DEF l_rtos_timer_start
<1>8. QED
  BY <1>1, <1>2, <1>3, <1>4, <1>5, <1>6, <1>7

(* The handler frees a timer that has no repeats left, counts down another, *)
(* and leaves all but the timer it found alone.                             *)
LEMMA HandlerEffect ==
    ASSUME TableInv, NEW m, NEW t \in HandlerTimers(m), l_timer_handler(t)
    PROVE  /\ TableInv'
           /\ t \in Block \cup {NULL} /\ (t # NULL => block[t].used)
           /\ t # NULL /\ block[t].repeat = 0 => ~block'[t].used
           /\ t # NULL /\ block[t].repeat # 0 => block'[t].used /\ UNCHANGED orphans
           /\ \A b \in Block :
                 /\ b # t => block'[b] = block[b]
                 /\ block'[b].used =>
                      /\ block[b].used /\ block'[b].id = block[b].id
                      /\ block'[b].armed = block[b].armed
                      /\ block'[b].reload = block[b].reload
                      /\ block[b].repeat = 0 => block'[b].repeat = 0
           /\ \A o \in orphans' :
                 o \in orphans \/ (t # NULL /\ o.id = block[t].id /\ ~block'[t].used)
<1>1. t \in Block \cup {NULL} /\ (t # NULL => block[t].used)
  BY HandlerFindsRunning
<1>2. TableInv' /\ block \in [Block -> Timer]
  BY <1>1, HandlerKeepsTable DEF TableInv, TableTypeOK
<1>3. CASE t = NULL
  BY <1>1, <1>2, <1>3, NullAssumption DEF l_timer_handler
<1>4. CASE t # NULL /\ block[t].repeat = 0
  <2>1. StopAndFree(t)
    BY <1>2, <1>4 DEF l_timer_handler
  <2>2. ~block'[t].used /\ \A b \in Block : b # t => block'[b] = block[b]
    BY <1>1, <1>2, <1>4, <2>1 DEF StopAndFree
  <2>3. \A o \in orphans' : o \in orphans \/ o.id = block[t].id
    BY <2>1 DEF StopAndFree
  <2>4. QED
    BY <1>1, <1>2, <1>4, <2>2, <2>3
<1>5. CASE t # NULL /\ block[t].repeat # 0
  <2>1. t \in Block /\ UNCHANGED orphans
    BY <1>1, <1>5 DEF l_timer_handler
  <2>2. block' = [block EXCEPT ![t].repeat = @ - 1] \/ UNCHANGED block
    BY <1>5 DEF l_timer_handler
  <2>3. \A b \in Block :
                 /\ b # t => block'[b] = block[b]
                 /\ block'[b].used = block[b].used
                 /\ block'[b].id = block[b].id
                 /\ block'[b].armed = block[b].armed
                 /\ block'[b].reload = block[b].reload
                 /\ block[b].repeat = 0 => block'[b].repeat = 0
    BY <1>2, <1>5, <2>1, <2>2 DEF Timer
  <2>4. QED
    BY <1>1, <1>2, <1>5, <2>1, <2>3
<1>6. QED
  BY <1>3, <1>4, <1>5

(* The daemon and the drivers change no timer but for the flag armed; what   *)
(* they put on the way is the expiry of an armed timer or of an orphan.      *)
LEMMA BackgroundEffect ==
    ASSUME TableInv, TimerTypeOK,
           Daemon \/ DriverPosts \/ \E o \in orphans : OrphanExpires(o)
    PROVE  /\ TableInv'
           /\ orphans' \subseteq orphans
           /\ \A b \in Block :
                 /\ block'[b].used = block[b].used
                 /\ block'[b].id = block[b].id
                 /\ block'[b].repeat = block[b].repeat
                 /\ block'[b].reload = block[b].reload
                 /\ block'[b].armed => block[b].armed
           /\ \/ ExpiriesOnTheWay' \subseteq ExpiriesOnTheWay
              \/ \E c \in Block :
                    /\ block[c].used /\ block'[c].armed = block[c].reload
                    /\ ExpiriesOnTheWay' \subseteq ExpiriesOnTheWay \cup {block[c].id}
              \/ \E o \in orphans : ExpiriesOnTheWay' \subseteq ExpiriesOnTheWay \cup {o.id}
<1>1. TimerNext
  BY DEF TimerNext
<1>2. TableInv' /\ block \in [Block -> Timer]
  BY <1>1, NextTable DEF TableInv, TableTypeOK
<1> DEFINE onBus == {bus[k].arg1 : k \in Sent}
<1>3. ASSUME NEW id \in TimerId, LookUp(id), UNCHANGED bus
      PROVE  ExpiriesOnTheWay' \subseteq ExpiriesOnTheWay \cup {id}
  <2>1. onBus' = onBus
    BY <1>3 DEF Sent
  <2>2. luat_timer_get(id) \in Block \cup {NULL}
    BY GetTimer DEF TableInv
  <2>3. daemon' = NULL \/ daemon'.id = id
    BY <1>3, <2>2, NullAssumption DEF LookUp
  <2>4. QED
    BY <2>1, <2>3 DEF ExpiriesOnTheWay
<1>4. ASSUME NEW c \in Block, TimerExpires(c)
      PROVE  /\ orphans' = orphans
             /\ \A b \in Block :
                 /\ block'[b].used = block[b].used
                 /\ block'[b].id = block[b].id
                 /\ block'[b].repeat = block[b].repeat
                 /\ block'[b].reload = block[b].reload
                 /\ block'[b].armed => block[b].armed
             /\ block[c].used /\ block'[c].armed = block[c].reload
             /\ ExpiriesOnTheWay' \subseteq ExpiriesOnTheWay \cup {block[c].id}
  <2>1. block[c].id \in TimerId
    BY <1>2 DEF Timer
  <2>2. QED
    BY <1>2, <1>3, <1>4, <2>1 DEF TimerExpires, Timer
<1>5. ASSUME NEW o \in orphans, OrphanExpires(o)
      PROVE  /\ orphans' \subseteq orphans /\ UNCHANGED block
             /\ ExpiriesOnTheWay' \subseteq ExpiriesOnTheWay \cup {o.id}
  <2>1. o.id \in TimerId
    BY DEF TimerTypeOK, Orphan
  <2>2. QED
    BY <1>3, <1>5, <2>1 DEF OrphanExpires
<1>6. CASE CallbackPosts
  <2>1. /\ daemon # NULL /\ daemon.id \in TimerId
        /\ TimerMsg(daemon.ptr, daemon.id) \in Msg \ {DriverMsg}
        /\ TimerMsg(daemon.ptr, daemon.id).arg1 = daemon.id
    BY <1>6 DEF CallbackPosts, TimerTypeOK, Call, Msg, TimerMsg, DriverMsg
  <2>2. ExpiriesOnTheWay' \subseteq ExpiriesOnTheWay
    BY <1>6, <2>1, PutExpiries DEF CallbackPosts, ExpiriesOnTheWay
  <2>3. UNCHANGED <<block, orphans>>
    BY <1>6 DEF CallbackPosts
  <2>4. QED
    BY <1>2, <2>2, <2>3
<1>7. CASE DriverPosts
  <2>1. DriverMsg \in Msg /\ luat_msgbus_put(DriverMsg)
    BY <1>7 DEF DriverPosts, Msg
  <2>2. onBus' \in {onBus, onBus \cup (IF DriverMsg = DriverMsg THEN {} ELSE {DriverMsg.arg1})}
    BY <2>1, PutExpiries
  <2> HIDE DEF onBus
  <2>3. onBus' = onBus
    BY <2>2
  <2>4. ExpiriesOnTheWay' = ExpiriesOnTheWay
    BY <1>7, <2>3 DEF DriverPosts, ExpiriesOnTheWay, onBus
  <2>5. QED
    BY <1>2, <1>7, <2>4 DEF DriverPosts
<1> HIDE DEF onBus
<1>8. QED
  BY <1>2, <1>4, <1>5, <1>6, <1>7 DEF Daemon

-----------------------------------------------------------------------------
(* The steps of the scheduler, as its timers, sleeping tasks and stored     *)
(* arguments see them.  Each step of SysNext is one of these; the           *)
(* invariants about timer ids and arguments follow from them alone.         *)

SameSleepers == \A t \in Task : Asleep(t)' <=> Asleep(t)

argVars == <<para, spent, msgId>>

(* A call that has nothing to do with timers, but for the arguments that a   *)
(* one-shot callback leaves when it returns.                                *)
QuietStep ==
    /\ UNCHANGED <<timerVars, taskTimerId, timerPool, taskTimerPool, msgId, abandoned>>
    /\ SameSleepers
    /\ \/ UNCHANGED <<para, spent>>
       \/ spent # NULL /\ para' = [para EXCEPT ![spent] = FALSE] /\ spent' = NULL

(* A task calls sys.wait or waitUntil with a timeout: it sleeps if the timer *)
(* starts.                                                                  *)
SleepStep(t, ms, ret) ==
    /\ tstate[t] = "active"
    /\ taskTimerId' = NextTaskTimerId
    /\ taskTimerPool' = [taskTimerPool EXCEPT ![t] = NextTaskTimerId]
    /\ timerPool' = [timerPool EXCEPT ![NextTaskTimerId] = t]
    /\ l_rtos_timer_start(NextTaskTimerId, ms, 0, ret)
    /\ UNCHANGED <<daemon, bus, argVars>>
    /\ abandoned' = abandoned \ {NextTaskTimerId}
    /\ Asleep(t)' <=> ret = 1
    /\ \A u \in Task \ {t} : Asleep(u)' <=> Asleep(u)

(* A callback timer is stopped. *)
DropStep(k) ==
    /\ ~ (k < TASK_TIMER_ID_MAX)
    /\ l_rtos_timer_stop(k)
    /\ timerPool' = [timerPool EXCEPT ![k] = NULL]
    /\ para' = [para EXCEPT ![k] = FALSE]
    /\ UNCHANGED <<daemon, bus, taskTimerId, taskTimerPool, spent, msgId, abandoned>>
    /\ SameSleepers

(* It is stopped because the same callback is being started again. *)
StartsAgain(k) == starting # NULL /\ starting.fn = timerPool[k]

(* A callback timer is started, with success or not. *)
CallbackStep(fn, ms, rep, ret) ==
    /\ FreeMsgIds # {}
    /\ timerPool' = [timerPool EXCEPT ![NextMsgId] = fn]
    /\ l_rtos_timer_start(NextMsgId, ms, rep, ret)
    /\ para' = [para EXCEPT ![NextMsgId] = @ \/ (ret = 1 /\ HasArguments(fn))]
    /\ msgId' = NextMsgId
    /\ UNCHANGED <<daemon, bus, taskTimerId, taskTimerPool, spent, abandoned>>
    /\ SameSleepers

(* A message or user code resumes a task that waits for a timer ... *)
WakeStep(t) ==
    /\ phase # "receive"
    /\ Asleep(t)
    /\ WaitEndsByMessage(t)
    /\ UNCHANGED <<daemon, bus, taskTimerId, argVars, abandoned>>
    /\ \A u \in Task : Asleep(u)' <=> Asleep(u) /\ u # t

(* ... or user code resumes it without arguments, and the timer runs on. *)
LeaveStep(t) ==
    /\ phase # "receive"
    /\ Asleep(t)
    /\ abandoned' = abandoned \cup {taskTimerPool[t]}
    /\ UNCHANGED <<timerVars, taskTimerId, timerPool, taskTimerPool, argVars>>
    /\ \A u \in Task : Asleep(u)' <=> Asleep(u) /\ u # t

(* rtos.receive returns the message m of a timer, and b is what it found. *)
HandlerStep(m, b) ==
    /\ m # DriverMsg /\ luat_msgbus_get(m)
    /\ b \in HandlerTimers(m)
    /\ HandlesTimer(b)
    /\ MainLoop("receive") /\ phase' = "dispatch"
    /\ UNCHANGED <<daemon, taskTimerId, para, msgId, abandoned>>

(* rtos.receive returns a message of a driver. *)
DriverStep ==
    /\ luat_msgbus_get(DriverMsg)
    /\ UNCHANGED <<block, timers, orphans, daemon, taskTimerId, timerPool, taskTimerPool,
                   argVars, abandoned>>
    /\ SameSleepers

(* The daemon, an orphan or a driver. *)
BackgroundStep ==
    /\ Daemon \/ DriverPosts \/ \E o \in orphans : OrphanExpires(o)
    /\ UNCHANGED <<taskTimerId, timerPool, taskTimerPool, argVars, abandoned>>
    /\ SameSleepers

LEMMA TimerStopBySteps ==
    ASSUME SysInv, NEW fn \in Callback, timerStopBy(fn),
           UNCHANGED <<daemon, bus, taskTimerId, taskTimerPool, spent, msgId, abandoned>>,
           SameSleepers
    PROVE  QuietStep \/ \E k \in TimerId : DropStep(k) /\ timerPool[k] = fn
<1>1. CASE UNCHANGED <<block, timers, orphans, timerPool, para>>
  BY <1>1 DEF QuietStep, timerVars
<1>2. ASSUME NEW k \in Matching(fn), DropTimer(k)
      PROVE  k \in TimerId /\ DropStep(k) /\ timerPool[k] = fn
  <2>1. k \in TimerId /\ timerPool[k] = fn
    BY DEF Matching
  <2>2. ~ (k < TASK_TIMER_ID_MAX)
    BY <2>1, ActorAssumption DEF SysInv, PoolKinds, Callback
  <2>3. QED
    BY <1>2, <2>1, <2>2 DEF DropTimer, DropStep
<1>3. QED
  BY <1>1, <1>2 DEF timerStopBy

(* No task falls asleep or wakes when only such states are exchanged. *)
LEMMA SleepersStay ==
    ASSUME SysInv, NEW t \in Task, ~Asleep(t), NEW x, x \notin TimedWait,
           tstate' = [tstate EXCEPT ![t] = x]
    PROVE  SameSleepers
BY DEF SameSleepers, Asleep, SysInv, SysTypeOK

LEMMA SameStates == UNCHANGED tstate => SameSleepers
BY DEF SameSleepers, Asleep

LEMMA WaitSteps ==
    ASSUME SysInv, NEW t \in Task, NEW kind \in TimedWait, NEW topic, NEW ms,
           Wait(t, kind, topic, ms)
    PROVE  \E ret \in {0, 1} : SleepStep(t, ms, ret)
<1>1. /\ tstate[t] = "active" /\ tstate \in [Task -> TaskState]
      /\ taskTimerId' = NextTaskTimerId
      /\ taskTimerPool' = [taskTimerPool EXCEPT ![t] = NextTaskTimerId]
      /\ timerPool' = [timerPool EXCEPT ![NextTaskTimerId] = t]
      /\ UNCHANGED <<daemon, bus, argVars>>
      /\ abandoned' = abandoned \ {NextTaskTimerId}
  BY TopRuns DEF argVars, Wait, UserCall, SysInv, SysTypeOK
<1>2. CASE l_rtos_timer_start(NextTaskTimerId, ms, 0, 1) /\ tstate' = [tstate EXCEPT ![t] = kind]
  <2>1. Asleep(t)' /\ \A u \in Task \ {t} : Asleep(u)' <=> Asleep(u)
    BY <1>1, <1>2 DEF Asleep
  <2>2. SleepStep(t, ms, 1)
    BY <1>1, <1>2, <2>1 DEF SleepStep
  <2>3. QED
    BY <2>2
<1>3. CASE l_rtos_timer_start(NextTaskTimerId, ms, 0, 0) /\ UNCHANGED tstate
  <2>1. ~Asleep(t)' /\ \A u \in Task \ {t} : Asleep(u)' <=> Asleep(u)
    BY <1>1, <1>3 DEF Asleep, TimedWait
  <2>2. SleepStep(t, ms, 0)
    BY <1>1, <1>3, <2>1 DEF SleepStep
  <2>3. QED
    BY <2>2
<1>4. QED
  BY <1>2, <1>3 DEF Wait

StepKinds ==
    \/ QuietStep
    \/ \E t \in Task, ms \in {0, 1}, ret \in {0, 1} : SleepStep(t, ms, ret)
    \/ \E k \in TimerId : DropStep(k) /\ (timerPool[k] \in Traceback => StartsAgain(k))
    \/ \E fn \in Callback, ms \in {0, 1}, rep \in Repeat, ret \in {0, 1} :
          CallbackStep(fn, ms, rep, ret)
    \/ \E t \in Task : WakeStep(t) \/ LeaveStep(t)
    \/ \E m \in Msg : \E b \in HandlerTimers(m) : HandlerStep(m, b)
    \/ DriverStep
    \/ BackgroundStep

(* What Coresume does to the sleepers. *)
LEMMA ResumedSleepers ==
    ASSUME SysInv, NEW t \in Task, Coresume(t)
    PROVE  \A u \in Task : Asleep(u)' <=> Asleep(u) /\ u # t
BY DEF Coresume, Asleep, TimedWait, SysInv, SysTypeOK

LEMMA ResumeSteps ==
    ASSUME SysInv, NEW t \in Task, CoresumeWithArguments(t), phase # "receive",
           UNCHANGED <<spent, abandoned>>
    PROVE  StepKinds
<1> USE DEF poolVars, argVars
<1>1. CASE EndsWait(t)
  <2>1. WakeStep(t)
    BY <1>1, ResumedSleepers DEF EndsWait, WakeStep, Asleep
  <2>2. QED
    BY <2>1 DEF StepKinds
<1>2. CASE EndsYield(t)
  <2>1. SameSleepers
    BY <1>2, ResumedSleepers DEF EndsYield, SameSleepers, Asleep, TimedWait
  <2>2. QED
    BY <1>2, <2>1 DEF EndsYield, QuietStep, StepKinds
<1>3. CASE EndsNothing(t)
  BY <1>3, SameStates DEF EndsNothing, CoresumeFails, QuietStep, StepKinds
<1>4. QED
  BY <1>1, <1>2, <1>3, CoresumeCases

LEMMA CallSteps ==
    ASSUME SysInv, (\E t \in Task : TaskCall(t)) \/ AnyCall
    PROVE  StepKinds
<1> USE DEF poolVars, msgVars, runVars, argVars
<1>0. \A fn \in Fn : fn \in Callback /\ fn \notin Traceback
  BY ActorAssumption DEF Callback
<1>1. ASSUME NEW t \in Task, NEW kind \in TimedWait, NEW topic, NEW ms \in {0, 1},
             Wait(t, kind, topic, ms)
      PROVE  StepKinds
  BY <1>1, WaitSteps DEF StepKinds
<1>2. ASSUME NEW t \in Task, NEW topic, WaitUntilMsg(t, topic)
      PROVE  StepKinds
  <2>1. tstate[t] = "active" /\ tstate' = [tstate EXCEPT ![t] = "msg"]
    BY <1>2, TopRuns DEF WaitUntilMsg, UserCall, SysInv
  <2>2. SameSleepers
    BY <2>1, SleepersStay DEF Asleep, TimedWait
  <2>3. QED
    BY <1>2, <2>2 DEF WaitUntilMsg, QuietStep, StepKinds
<1>2a. ASSUME NEW t \in Task, Yield(t)
       PROVE  StepKinds
  <2>1. tstate[t] = "active" /\ tstate' = [tstate EXCEPT ![t] = "msg"]
    BY <1>2a, TopRuns DEF Yield, UserCall, SysInv
  <2>2. SameSleepers
    BY <2>1, SleepersStay DEF Asleep, TimedWait
  <2>3. QED
    BY <1>2a, <2>2 DEF Yield, QuietStep, StepKinds
<1>2b. ASSUME NEW t \in Task, SysCoresume(t) \/ SysCoresumeBare(t)
       PROVE  StepKinds
  <2>1. phase # "receive"
    BY <1>2b DEF SysCoresume, SysCoresumeBare, UserCall, SysInv, CoroutineInv, CopiesOnce
  <2>2. CASE SysCoresume(t)
    BY <2>1, <2>2, ResumeSteps DEF SysCoresume
  <2>3. CASE SysCoresumeBare(t)
    <3>1. LeaveStep(t)
      BY <2>1, <2>3, ResumedSleepers DEF SysCoresumeBare, LeaveStep, Asleep
    <3>2. QED
      BY <3>1 DEF StepKinds
  <2>4. QED
    BY <1>2b, <2>2, <2>3
<1>3. ASSUME NEW t \in Task, TaskInit(t)
      PROVE  StepKinds
  <2>1. SameSleepers
    BY <1>3, SleepersStay DEF TaskInit, Asleep, TimedWait
  <2>2. QED
    BY <1>3, <2>1 DEF TaskInit, QuietStep, StepKinds
<1>4. ASSUME NEW fn \in Fn, SysTimerStop(fn) \/ \E rep \in Repeat : TimerAdvStart(fn, rep)
      PROVE  StepKinds
  <2>1. /\ timerStopBy(fn)
        /\ UNCHANGED <<daemon, bus, taskTimerId, taskTimerPool, spent, msgId, abandoned>>
        /\ SameSleepers
    BY <1>4, SameStates DEF SysTimerStop, TimerAdvStart
  <2>2. QED
    BY <1>0, <2>1, TimerStopBySteps DEF StepKinds
<1>5. ASSUME NEW k \in TASK_TIMER_ID_MAX + 1 .. MSG_TIMER_ID_MAX, SysTimerStopId(k)
      PROVE  StepKinds
  <2>1. k \in TimerId /\ ~ (k < TASK_TIMER_ID_MAX)
    BY SysAssumption DEF SysInv, SysTypeOK
  <2>2. DropStep(k) /\ timerPool[k] \notin Traceback
    BY <1>5, <2>1, SameStates DEF SysTimerStopId, DropTimer, DropStep
  <2>3. QED
    BY <2>1, <2>2 DEF StepKinds
<1>6. ASSUME NEW t \in Task, NEW traceBack \in Traceback, TaskFails(t, traceBack)
      PROVE  StepKinds
  <2>1. tstate[t] = "active" /\ tstate' = [tstate EXCEPT ![t] = "dead"]
    BY <1>6, TopRuns DEF TaskFails, UserCall, SysInv
  <2>2. SameSleepers
    BY <2>1, SleepersStay DEF Asleep, TimedWait
  <2>3. QED
    BY <1>6, <2>2 DEF TaskFails, QuietStep, StepKinds
<1>7. ASSUME \/ \E fn \in Fn : SysTimerStopAll(fn)
             \/ \E topic \in Topic : Publish(topic)
             \/ \E topic \in Topic, fn \in Fn : Subscribe(topic, fn) \/ Unsubscribe(topic, fn)
             \/ CallbackFails
      PROVE  StepKinds
  BY <1>7, SameStates
  DEF SysTimerStopAll, Publish, Subscribe, Unsubscribe, CallbackFails, EndsLoop,
      QuietStep, StepKinds
<1>8. QED
  BY <1>1, <1>2, <1>2a, <1>2b, <1>3, <1>4, <1>5, <1>6, <1>7 DEF TaskCall, AnyCall, TimedWait

LEMMA ProceedSteps ==
    ASSUME SysInv, Proceed
    PROVE  StepKinds
<1> USE DEF poolVars, msgVars, runVars
<1>1. CASE Return
  <2>1. SameSleepers
    <3>1. CASE Top \in Task
      <4>1. tstate[Top] = "active" /\ tstate' = [tstate EXCEPT ![Top] = "dead"]
        BY <1>1, <3>1, TopRuns DEF Return, SysInv
      <4>2. QED
        BY <3>1, <4>1, SleepersStay DEF Asleep, TimedWait
    <3>2. CASE Top \notin Task
      BY <1>1, <3>2, SameStates DEF Return
    <3>3. QED
      BY <3>1, <3>2
  <2>2. QED
    BY <1>1, <2>1 DEF Return, QuietStep, StepKinds
<1>2. ASSUME NEW ms \in {0, 1}, NEW ret \in {0, 1}, TimerAdvStarted(ms, ret)
      PROVE  StepKinds
  <2>1. starting.fn \in Callback /\ starting.rep \in Repeat
    BY <1>2 DEF TimerAdvStarted, SysInv, SysTypeOK
  <2>2. CallbackStep(starting.fn, ms, starting.rep, ret)
    BY <1>2, SameStates DEF TimerAdvStarted, CallbackStep
  <2>3. QED
    BY <2>1, <2>2 DEF StepKinds
<1>3. CASE StopNextOfAll
  <2>1. CASE UNCHANGED <<block, timers, orphans, timerPool, para>>
    BY <1>3, <2>1, SameStates DEF StopNextOfAll, timerVars, QuietStep, StepKinds
  <2>2. ASSUME NEW k \in TimerId, timerPool[k] = starting.fn, DropTimer(k)
        PROVE  StepKinds
    <3>1. starting.fn \in Fn
      BY <1>3 DEF StopNextOfAll
    <3>2. starting.fn \in Callback /\ starting.fn \notin Traceback
      BY <3>1, ActorAssumption DEF Callback
    <3>3. ~ (k < TASK_TIMER_ID_MAX)
      BY <2>2, <3>2, ActorAssumption DEF SysInv, PoolKinds, Callback
    <3>4. DropStep(k)
      BY <1>3, <2>2, <3>3, SameStates DEF StopNextOfAll, DropTimer, DropStep
    <3>5. QED
      BY <2>2, <3>2, <3>4 DEF StepKinds
  <2>3. QED
    BY <1>3, <2>1, <2>2 DEF StopNextOfAll
<1>4. CASE AssertFails
  BY <1>4, SameStates DEF AssertFails, EndsLoop, QuietStep, StepKinds
<1>5. CASE wrapper
  <2>1. /\ starting.fn \in Callback /\ starting # NULL
        /\ timerStopBy(starting.fn)
        /\ UNCHANGED <<daemon, bus, taskTimerId, taskTimerPool, spent, msgId, abandoned>>
        /\ SameSleepers
    BY <1>5, SameStates DEF wrapper, Callback
  <2>2. QED
    BY <2>1, TimerStopBySteps DEF StepKinds, StartsAgain
<1>6. QED
  BY <1>1, <1>2, <1>3, <1>4, <1>5 DEF Proceed

LEMMA SafeRunSteps ==
    ASSUME SysInv, SafeRun
    PROVE  StepKinds
<1> USE DEF poolVars, msgVars, runVars, argVars
<1>1. CASE TakeMessage \/ DispatchDone
  BY <1>1, SameStates DEF TakeMessage, DispatchDone, QuietStep, StepKinds
<1>2. CASE CallSubscriber
  <2>1. CASE Head(tmpt) \in Fn /\ UNCHANGED <<timerVars, poolVars, tstate>>
    BY <1>2, <2>1, SameStates DEF CallSubscriber, QuietStep, StepKinds
  <2>2. CASE Head(tmpt) \in Task /\ CoresumeWithArguments(Head(tmpt))
    BY <1>2, <2>2, ResumeSteps DEF CallSubscriber, MainLoop
  <2>3. QED
    BY <1>2, <2>1, <2>2 DEF CallSubscriber
<1>3. CASE ReceiveTimer
  <2>1. PICK m \in Msg \ {DriverMsg} :
          /\ luat_msgbus_get(m)
          /\ \E b \in HandlerTimers(m) : HandlesTimer(b)
    BY <1>3 DEF ReceiveTimer, HandlesTimer
  <2>2. PICK b \in HandlerTimers(m) : HandlesTimer(b)
    BY <2>1
  <2>3. HandlerStep(m, b)
    BY <1>3, <2>1, <2>2 DEF ReceiveTimer, HandlerStep
  <2>4. QED
    BY <2>3 DEF StepKinds
<1>4. ASSUME NEW topic \in Topic, ReceiveDriver(topic)
      PROVE  StepKinds
  BY <1>4, SameStates DEF ReceiveDriver, DriverStep, StepKinds
<1>5. QED
  BY <1>1, <1>2, <1>3, <1>4 DEF SafeRun

LEMMA SysSteps ==
    ASSUME SysInv, [SysNext]_sysVars
    PROVE  StepKinds
<1>1. CASE SysDriverPosts \/ SysDaemon \/ SysOrphan
  BY <1>1, SameStates
  DEF SysDriverPosts, SysDaemon, SysOrphan, BackgroundStep, StepKinds, poolVars, runVars,
      argVars
<1>2. CASE UNCHANGED sysVars
  BY <1>2, SameStates DEF sysVars, poolVars, runVars, QuietStep, StepKinds
<1>3. QED
  BY <1>1, <1>2, CallSteps, ProceedSteps, SafeRunSteps DEF SysNext

-----------------------------------------------------------------------------
(* Timer ids.                                                              *)
(*                                                                         *)
(* sys.wait looks an id up in taskTimerPool, whose keys are coroutines, so *)
(* it never finds one in use: once its counter has gone round it hands out *)
(* ids that still run.  What follows therefore holds as long as the counter *)
(* has not, TaskIdsLeft; taskTimerId then tells which ids were given out.  *)

TaskIdsLeft == taskTimerId < TASK_TIMER_ID_MAX - 1

Given == (1 .. taskTimerId) \cup (TASK_TIMER_ID_MAX + 1 .. MSG_TIMER_ID_MAX)

(* Below, only ids that were given out are in use. *)
IdsGiven ==
    /\ \A b \in Block : block[b].used => block[b].id \in Given
    /\ \A o \in orphans : o.id \in Given
    /\ ExpiriesOnTheWay \subseteq Given

(* A sleeping task has an entry in both pools. *)
SleepersOwn ==
    \A t \in Task : Asleep(t) =>
        /\ taskTimerPool[t] \in 1 .. taskTimerId
        /\ timerPool[taskTimerPool[t]] = t

TaskTimer(b) == block[b].used /\ block[b].id < TASK_TIMER_ID_MAX

TaskTimersOnce == \A b \in Block : TaskTimer(b) => block[b].repeat = 0 /\ ~block[b].reload

(* Before a task's timer expires, no expiry of its id is on the way and no  *)
(* FreeRTOS timer outside the table can send one.                           *)
NothingStale ==
    \A b \in Block : TaskTimer(b) =>
        /\ \A o \in orphans : o.id # block[b].id
        /\ block[b].armed => block[b].id \notin ExpiriesOnTheWay

TimersInv ==
    /\ TableInv
    /\ IdsGiven
    /\ SleepersOwn
    /\ TaskTimersOnce
    /\ NothingStale
    /\ TimersHaveOwners

LEMMA InitTimers == SysInit => TimersInv
<1> SUFFICES ASSUME SysInit PROVE TimersInv
  OBVIOUS
<1>1. TableInv /\ \A b \in Block : ~block[b].used
  BY InitTable DEF SysInit, TimerInit
<1>2. ExpiriesOnTheWay = {} /\ orphans = {}
  BY DEF SysInit, TimerInit, ExpiriesOnTheWay, Sent
<1>3. \A t \in Task : ~Asleep(t)
  BY DEF SysInit, Asleep, TimedWait
<1>4. QED
  BY <1>1, <1>2, <1>3
  DEF TimersInv, IdsGiven, SleepersOwn, TaskTimersOnce, NothingStale, TaskTimer,
      TimersHaveOwners

(* Types of what the ids are made of. *)
LEMMA IdTypes ==
    ASSUME SysInv
    PROVE  /\ taskTimerId \in Nat /\ taskTimerId < TASK_TIMER_ID_MAX
           /\ TASK_TIMER_ID_MAX \in Nat /\ MSG_TIMER_ID_MAX \in Nat
           /\ TASK_TIMER_ID_MAX < MSG_TIMER_ID_MAX
           /\ TimerId = 0 .. MSG_TIMER_ID_MAX
           /\ block \in [Block -> Timer]
           /\ timerPool \in [TimerId -> Task \cup Callback \cup {NULL}]
           /\ taskTimerPool \in [Task -> TimerId \cup {NULL}]
           /\ \A b \in Block : block[b].id \in TimerId
           /\ Task \cap Callback = {} /\ NULL \notin Task \cup Callback
<1>1. block \in [Block -> Timer]
  BY DEF SysInv, SysTypeOK, TimerTypeOK
<1>2. Task \cap Callback = {} /\ NULL \notin Task \cup Callback
  BY ActorAssumption DEF Callback
<1>3. QED
  BY <1>1, <1>2, SysAssumption DEF SysInv, SysTypeOK, Timer

(* The next task id was never given out. *)
LEMMA TaskIdFresh ==
    ASSUME SysInv, IdsGiven, TaskIdsLeft
    PROVE  /\ NextTaskTimerId = taskTimerId + 1
           /\ NextTaskTimerId \in TimerId /\ NextTaskTimerId < TASK_TIMER_ID_MAX
           /\ NextTaskTimerId \notin Given
           /\ \A b \in Block : block[b].used => block[b].id # NextTaskTimerId
<1>1. NextTaskTimerId = taskTimerId + 1
  BY IdTypes DEF TaskIdsLeft, NextTaskTimerId
<1>2. NextTaskTimerId \in TimerId /\ NextTaskTimerId < TASK_TIMER_ID_MAX
  BY <1>1, IdTypes DEF TaskIdsLeft
<1>3. NextTaskTimerId \notin Given
  BY <1>1, IdTypes DEF TaskIdsLeft, Given
<1>4. QED
  BY <1>1, <1>2, <1>3 DEF IdsGiven

(* The next callback id has no timer. *)
LEMMA CallbackIdFree ==
    ASSUME SysInv, TimersHaveOwners, FreeMsgIds # {}
    PROVE  /\ NextMsgId \in TASK_TIMER_ID_MAX + 1 .. MSG_TIMER_ID_MAX
           /\ NextMsgId \in TimerId /\ timerPool[NextMsgId] = NULL
           /\ \A b \in Block : block[b].used => block[b].id # NextMsgId
<1>1. /\ NextMsgId \in TASK_TIMER_ID_MAX + 1 .. MSG_TIMER_ID_MAX
      /\ NextMsgId \in TimerId /\ timerPool[NextMsgId] = NULL
  BY NextMsgIdType DEF SysInv
<1>2. QED
  BY <1>1, IdTypes DEF TimersHaveOwners

(* The id a task sleeps on is a task id that nobody else sleeps on. *)
LEMMA SleepersId ==
    ASSUME SysInv, SleepersOwn, NEW t \in Task, Asleep(t)
    PROVE  /\ taskTimerPool[t] \in TimerId
           /\ taskTimerPool[t] < TASK_TIMER_ID_MAX
           /\ \A u \in Task : Asleep(u) /\ taskTimerPool[u] = taskTimerPool[t] => u = t
BY IdTypes DEF SleepersOwn

(* The message of an expiry finds the timer of its id; if that is a task's,  *)
(* it has expired and is freed.                                             *)
LEMMA HandlerFinds ==
    ASSUME SysInv, TimersInv, NEW m \in Msg, NEW b \in HandlerTimers(m), HandlerStep(m, b)
    PROVE  /\ b \in Block \cup {NULL}
           /\ b # NULL => block[b].used /\ TimerEvent(block[b].id, block[b].repeat)
           /\ b # NULL /\ block[b].id < TASK_TIMER_ID_MAX => ~block[b].armed /\ block[b].repeat = 0
<1>1. b \in Block \cup {NULL} /\ (b # NULL => block[b].used)
  BY HandlerEffect DEF HandlerStep, HandlesTimer, TimersInv
<1>2. m.arg1 \in ExpiriesOnTheWay
  BY GetExpiries DEF HandlerStep, SysInv, SysTypeOK
<1>3. m.arg1 \in Given
  BY <1>2 DEF TimersInv, IdsGiven
<1>4. m.arg1 > 0
  BY <1>3, IdTypes DEF Given
<1>5. b # NULL => block[b].id = m.arg1
  BY <1>4, GetTimer DEF HandlerTimers, TimersInv, TableInv
<1>6. QED
  BY <1>1, <1>2, <1>5 DEF TimersInv, NothingStale, TaskTimersOnce, TaskTimer, HandlerStep,
                          HandlesTimer

(* The timer of a wait that a resume without arguments has ended: the task   *)
(* may have moved on to another wait, or the timer ends a bare yield, or     *)
(* coresume fails on it.                                                    *)
EventLate(id, t) ==
    /\ timerPool[id] = t
    /\ timerPool' = [timerPool EXCEPT ![id] = NULL]
    /\ \/ taskTimerPool[t] # id /\ UNCHANGED taskTimerPool
       \/ ~Asleep(t) /\ taskTimerPool' = [taskTimerPool EXCEPT ![t] = NULL]
    /\ UNCHANGED spent
    /\ SameSleepers

LEMMA LateEvents ==
    ASSUME SysInv, NEW id, NEW t \in Task,
           \/ EventWakes(id, t) /\ ~Asleep(t)
           \/ EventFails(id, t)
           \/ EventMissesTask(id, t)
    PROVE  EventLate(id, t)
<1>1. CASE EventWakes(id, t) /\ ~Asleep(t)
  <2>1. SameSleepers
    BY <1>1, ResumedSleepers DEF EventWakes, SameSleepers
  <2>2. QED
    BY <1>1, <2>1 DEF EventWakes, EventLate
<1>2. CASE EventFails(id, t)
  BY <1>2, SameStates DEF EventFails, CoresumeFails, EventLate, Asleep, TimedWait
<1>3. CASE EventMissesTask(id, t)
  BY <1>3, SameStates DEF EventMissesTask, EventLate
<1>4. QED
  BY <1>1, <1>2, <1>3

LEMMA HandlerCases ==
    ASSUME SysInv, TimersInv, NEW m \in Msg, NEW b \in HandlerTimers(m), HandlerStep(m, b),
           b # NULL
    PROVE  LET id == block[b].id IN
           \/ /\ id < TASK_TIMER_ID_MAX
              /\ \E t \in Task : (EventWakes(id, t) /\ Asleep(t)) \/ EventLate(id, t)
           \/ /\ ~ (id < TASK_TIMER_ID_MAX)
              /\ \E fn \in Callback : EventCalls(id, fn, block[b].repeat)
<1> DEFINE id == block[b].id
           rep == block[b].repeat
<1>1. b \in Block /\ block[b].used /\ TimerEvent(id, rep)
  BY HandlerFinds
<1>2. id \in TimerId /\ PoolKinds
  BY <1>1, IdTypes DEF SysInv
<1>3. timerPool[id] \in Callback \cup Task
  BY <1>1 DEF TimersInv, TimersHaveOwners
<1>4. ~EventOfNobody(id)
  BY <1>3, IdTypes DEF EventOfNobody
<1>5. id >= TASK_TIMER_ID_MAX => ~ (id < TASK_TIMER_ID_MAX)
  BY <1>2, IdTypes
<1> HIDE DEF id, rep
<1>6. \/ /\ id < TASK_TIMER_ID_MAX
         /\ \E t \in Task : EventWakes(id, t) \/ EventFails(id, t) \/ EventMissesTask(id, t)
      \/ /\ id >= TASK_TIMER_ID_MAX
         /\ \E fn \in Callback : EventCalls(id, fn, rep)
  BY <1>1, <1>2, <1>4, TimerEventCases
<1>7. \/ /\ id < TASK_TIMER_ID_MAX
         /\ \E t \in Task : (EventWakes(id, t) /\ Asleep(t)) \/ EventLate(id, t)
      \/ /\ ~ (id < TASK_TIMER_ID_MAX)
         /\ \E fn \in Callback : EventCalls(id, fn, rep)
  BY <1>5, <1>6, LateEvents
<1>8. QED
  BY <1>7 DEF id, rep

(* An expiry that wakes a task wakes no other. *)
LEMMA EventSleepers ==
    ASSUME SysInv, NEW id, NEW t \in Task, EventWakes(id, t)
    PROVE  \A u \in Task : Asleep(u)' <=> Asleep(u) /\ u # t
BY ResumedSleepers DEF EventWakes

(* A step of each kind keeps TimersInv. *)

LEMMA QuietKeeps ==
    ASSUME SysInv, TimersInv,
           UNCHANGED <<block, timers, orphans, taskTimerId, timerPool, taskTimerPool,
                       abandoned>>,
           ExpiriesOnTheWay' = ExpiriesOnTheWay, SameSleepers
    PROVE  TimersInv'
<1>1. TableInv'
  BY DEF TimersInv, TableInv, TableTypeOK, SlotsOwnBlocks, IdsUnique, RepeatMatchesReload
<1>2. IdsGiven'
  BY DEF TimersInv, IdsGiven, Given
<1>3. SleepersOwn' /\ TimersHaveOwners'
  BY DEF TimersInv, SleepersOwn, TimersHaveOwners, SameSleepers, Asleep
<1>4. TaskTimersOnce' /\ NothingStale'
  BY DEF TimersInv, TaskTimersOnce, NothingStale, TaskTimer
<1>5. QED
  BY <1>1, <1>2, <1>3, <1>4 DEF TimersInv

LEMMA LeaveKeeps ==
    ASSUME SysInv, TimersInv, NEW t \in Task, LeaveStep(t)
    PROVE  TimersInv'
<1>1. /\ UNCHANGED <<block, timers, orphans, taskTimerId, timerPool, taskTimerPool>>
      /\ ExpiriesOnTheWay' = ExpiriesOnTheWay
      /\ abandoned' = abandoned \cup {taskTimerPool[t]}
      /\ \A u \in Task : Asleep(u)' <=> Asleep(u) /\ u # t
  BY SameExpiries DEF LeaveStep, timerVars
<1>2. TableInv'
  BY <1>1 DEF TimersInv, TableInv, TableTypeOK, SlotsOwnBlocks, IdsUnique, RepeatMatchesReload
<1>3. IdsGiven' /\ SleepersOwn'
  BY <1>1 DEF TimersInv, IdsGiven, Given, SleepersOwn
<1>4. TaskTimersOnce' /\ NothingStale'
  BY <1>1 DEF TimersInv, TaskTimersOnce, NothingStale, TaskTimer
<1>5. TimersHaveOwners'
  BY <1>1 DEF TimersInv, TimersHaveOwners, Asleep
<1>6. QED
  BY <1>2, <1>3, <1>4, <1>5 DEF TimersInv

LEMMA SleepKeeps ==
    ASSUME SysInv, TimersInv, TaskIdsLeft, NEW t \in Task, NEW ms \in {0, 1},
           NEW ret \in {0, 1}, SleepStep(t, ms, ret)
    PROVE  TimersInv'
<1> DEFINE n == NextTaskTimerId
<1>1. /\ n = taskTimerId + 1 /\ n \in TimerId /\ n < TASK_TIMER_ID_MAX /\ n \notin Given
      /\ \A b \in Block : block[b].used => block[b].id # n
  BY TaskIdFresh DEF TimersInv
<1>2. /\ taskTimerId' = n
      /\ taskTimerPool' = [taskTimerPool EXCEPT ![t] = n]
      /\ timerPool' = [timerPool EXCEPT ![n] = t]
      /\ l_rtos_timer_start(n, ms, 0, ret)
      /\ Asleep(t)' <=> ret = 1
      /\ \A u \in Task \ {t} : Asleep(u)' <=> Asleep(u)
      /\ ~Asleep(t)
      /\ abandoned' = abandoned \ {n}
  BY DEF SleepStep, Asleep, TimedWait
<1> HIDE DEF n
<1>3. /\ TableInv' /\ UNCHANGED orphans
      /\ \A b \in Block :
            /\ block[b].used => block'[b] = block[b]
            /\ block'[b].used /\ ~block[b].used => ret = 1 /\ block'[b] = StartedTimer(n, 0)
  BY <1>1, <1>2, StartEffect, SysAssumption DEF TimersInv
<1>4. ExpiriesOnTheWay' = ExpiriesOnTheWay
  BY SameExpiries DEF SleepStep
<1>5. Given \cup {n} \subseteq Given'
  BY <1>1, <1>2, IdTypes DEF Given
<1>6. IdsGiven'
  BY <1>3, <1>4, <1>5 DEF TimersInv, IdsGiven, StartedTimer
<1>7. SleepersOwn'
  <2>1. taskTimerId \in Nat
    BY IdTypes
  <2>2. n \in 1 .. taskTimerId' /\ \A k \in 1 .. taskTimerId : k # n /\ k \in 1 .. taskTimerId'
    BY <1>1, <1>2, <2>1
  <2>3. taskTimerPool'[t] = n /\ timerPool'[n] = t
    BY <1>1, <1>2, IdTypes
  <2>4. ASSUME NEW u \in Task \ {t}, Asleep(u)
        PROVE  /\ taskTimerPool'[u] \in 1 .. taskTimerId'
               /\ timerPool'[taskTimerPool'[u]] = u
    <3>1. taskTimerPool'[u] = taskTimerPool[u] /\ taskTimerPool[u] \in 1 .. taskTimerId
      BY <1>2, <2>4, IdTypes DEF TimersInv, SleepersOwn
    <3>2. timerPool[taskTimerPool[u]] = u /\ taskTimerPool[u] \in TimerId
      BY <2>4, SleepersId DEF TimersInv, SleepersOwn
    <3>3. timerPool'[taskTimerPool[u]] = u
      BY <1>2, <2>2, <3>1, <3>2, IdTypes
    <3>4. QED
      BY <2>2, <3>1, <3>3
  <2>5. QED
    BY <1>2, <2>2, <2>3, <2>4 DEF SleepersOwn
<1>8. TaskTimersOnce'
  <2>1. ASSUME NEW b \in Block, block'[b].used, ~block[b].used
        PROVE  block'[b].repeat = 0 /\ ~block'[b].reload
    <3>1. block'[b] = StartedTimer(n, 0)
      BY <1>3, <2>1
    <3>2. StartedTimer(n, 0) = [used |-> TRUE, id |-> n, repeat |-> 0, reload |-> FALSE,
                                armed |-> TRUE]
      <4>1. (0 # 0) = FALSE
        OBVIOUS
      <4>2. QED
        BY <4>1, Zenon DEF StartedTimer
    <3>3. QED
      BY <3>1, <3>2
  <2>2. QED
    BY <1>3, <2>1 DEF TimersInv, TaskTimersOnce, TaskTimer
<1>9. NothingStale'
  BY <1>1, <1>3, <1>4 DEF TimersInv, NothingStale, IdsGiven, TaskTimer, StartedTimer
<1>10. TimersHaveOwners'
  <2>1. ASSUME NEW b \in Block, block[b].used
        PROVE  /\ block'[b] = block[b] /\ block[b].id # n
               /\ timerPool'[block[b].id] = timerPool[block[b].id]
    <3>1. block'[b] = block[b] /\ block[b].id # n /\ block[b].id \in TimerId
      BY <1>1, <1>3, <2>1, IdTypes
    <3>2. QED
      BY <1>2, <3>1, IdTypes
  <2>2. ASSUME NEW u \in Task, Asleep(u)
        PROVE  tstate'[u] \in TimedWait /\ taskTimerPool'[u] = taskTimerPool[u]
    BY <1>2, <2>2, IdTypes DEF Asleep
  <2>3. ASSUME NEW b \in Block, block'[b].used, ~block[b].used
        PROVE  /\ timerPool'[block'[b].id] = t
               /\ tstate'[t] \in TimedWait /\ taskTimerPool'[t] = block'[b].id
    <3>1. ret = 1 /\ block'[b].id = n
      BY <1>3, <2>3 DEF StartedTimer
    <3>2. QED
      BY <1>1, <1>2, <3>1, IdTypes DEF Asleep
  <2>4. QED
    BY <1>2, <2>1, <2>2, <2>3 DEF TimersInv, TimersHaveOwners, Asleep
<1>11. QED
  BY <1>3, <1>6, <1>7, <1>8, <1>9, <1>10 DEF TimersInv

LEMMA DropKeeps ==
    ASSUME SysInv, TimersInv, NEW k \in TimerId, DropStep(k)
    PROVE  TimersInv'
<1>1. /\ TableInv'
      /\ \A b \in Block : /\ block'[b].used <=> block[b].used /\ block[b].id # k
                          /\ block'[b].used => block'[b] = block[b]
      /\ \A o \in orphans' :
            o \in orphans \/ \E b \in Block : block[b].used /\ block[b].id = k /\ o.id = k
  BY StopEffect DEF DropStep, TimersInv
<1>2. /\ ~ (k < TASK_TIMER_ID_MAX)
      /\ timerPool' = [timerPool EXCEPT ![k] = NULL]
      /\ UNCHANGED <<taskTimerId, taskTimerPool, abandoned>> /\ SameSleepers
      /\ ExpiriesOnTheWay' = ExpiriesOnTheWay
  BY SameExpiries DEF DropStep
<1>3. IdsGiven'
  BY <1>1, <1>2 DEF TimersInv, IdsGiven, Given
<1>4. SleepersOwn'
  <2>1. ASSUME NEW t \in Task, Asleep(t)
        PROVE  timerPool'[taskTimerPool[t]] = timerPool[taskTimerPool[t]]
    BY <1>2, <2>1, SleepersId, IdTypes DEF TimersInv
  <2>2. QED
    BY <1>2, <2>1 DEF TimersInv, SleepersOwn, SameSleepers
<1>5. TaskTimersOnce'
  BY <1>1 DEF TimersInv, TaskTimersOnce, TaskTimer
<1>6. NothingStale'
  BY <1>1, <1>2 DEF TimersInv, NothingStale, TaskTimer
<1>7. TimersHaveOwners'
  <2>1. ASSUME NEW b \in Block, block'[b].used
        PROVE  block'[b] = block[b] /\ timerPool'[block[b].id] = timerPool[block[b].id]
    BY <1>1, <1>2, <2>1, IdTypes
  <2>2. QED
    BY <1>1, <1>2, <2>1 DEF TimersInv, TimersHaveOwners, SameSleepers, Asleep
<1>8. QED
  BY <1>1, <1>3, <1>4, <1>5, <1>6, <1>7 DEF TimersInv

LEMMA CallbackKeeps ==
    ASSUME SysInv, TimersInv, NEW fn \in Callback, NEW ms \in {0, 1}, NEW rep \in Repeat,
           NEW ret \in {0, 1}, CallbackStep(fn, ms, rep, ret)
    PROVE  TimersInv'
<1> DEFINE n == NextMsgId
<1>1. /\ n \in TASK_TIMER_ID_MAX + 1 .. MSG_TIMER_ID_MAX /\ n \in TimerId
      /\ timerPool[n] = NULL
      /\ \A b \in Block : block[b].used => block[b].id # n
  BY CallbackIdFree DEF CallbackStep, TimersInv
<1>2. /\ l_rtos_timer_start(n, ms, rep, ret)
      /\ timerPool' = [timerPool EXCEPT ![n] = fn]
      /\ UNCHANGED <<taskTimerId, taskTimerPool, abandoned>> /\ SameSleepers
      /\ ExpiriesOnTheWay' = ExpiriesOnTheWay
  BY SameExpiries DEF CallbackStep
<1> HIDE DEF n
<1>3. /\ TableInv' /\ UNCHANGED orphans
      /\ \A b \in Block :
            /\ block[b].used => block'[b] = block[b]
            /\ block'[b].used /\ ~block[b].used => ret = 1 /\ block'[b] = StartedTimer(n, rep)
  BY <1>1, <1>2, StartEffect DEF TimersInv
<1>4. IdsGiven'
  BY <1>1, <1>2, <1>3 DEF TimersInv, IdsGiven, Given, StartedTimer
<1>5. ~ (n < TASK_TIMER_ID_MAX)
  BY <1>1, IdTypes
<1>6. SleepersOwn'
  <2>1. ASSUME NEW t \in Task, Asleep(t)
        PROVE  timerPool'[taskTimerPool[t]] = timerPool[taskTimerPool[t]]
    BY <1>2, <1>5, <2>1, SleepersId, IdTypes DEF TimersInv
  <2>2. QED
    BY <1>2, <2>1 DEF TimersInv, SleepersOwn, SameSleepers
<1>7. TaskTimersOnce' /\ NothingStale'
  BY <1>2, <1>3, <1>5 DEF TimersInv, TaskTimersOnce, NothingStale, TaskTimer, StartedTimer
<1>8. TimersHaveOwners'
  <2>1. ASSUME NEW b \in Block, block[b].used
        PROVE  block'[b] = block[b] /\ timerPool'[block[b].id] = timerPool[block[b].id]
    BY <1>1, <1>2, <1>3, <2>1, IdTypes
  <2>2. ASSUME NEW b \in Block, block'[b].used, ~block[b].used
        PROVE  timerPool'[block'[b].id] \in Callback
    BY <1>1, <1>2, <1>3, <2>2, IdTypes DEF StartedTimer
  <2>3. QED
    BY <1>2, <2>1, <2>2 DEF TimersInv, TimersHaveOwners, SameSleepers, Asleep
<1>9. QED
  BY <1>3, <1>4, <1>6, <1>7, <1>8 DEF TimersInv

(* The timer k of the sleeping task t is gone, t is awake, and both pools    *)
(* have lost t.                                                             *)
LEMMA AwakeKeeps ==
    ASSUME SysInv, TimersInv, NEW t \in Task, Asleep(t), NEW k, k = taskTimerPool[t],
           timerPool' = [timerPool EXCEPT ![k] = NULL],
           taskTimerPool' = [taskTimerPool EXCEPT ![t] = NULL],
           UNCHANGED <<taskTimerId, abandoned>>,
           \A u \in Task : Asleep(u)' <=> Asleep(u) /\ u # t,
           \A b \in Block : block'[b].used =>
               block[b].used /\ block'[b].id = block[b].id /\ block[b].id # k
    PROVE  SleepersOwn' /\ TimersHaveOwners'
<1>1. k \in TimerId /\ timerPool[k] = t
  BY SleepersId DEF TimersInv, SleepersOwn
<1>2. ASSUME NEW u \in Task, Asleep(u), u # t
      PROVE  /\ taskTimerPool'[u] = taskTimerPool[u]
             /\ timerPool'[taskTimerPool[u]] = timerPool[taskTimerPool[u]]
  BY <1>1, <1>2, SleepersId, IdTypes DEF TimersInv
<1>3. SleepersOwn'
  BY <1>2 DEF TimersInv, SleepersOwn
<1>4. TimersHaveOwners'
  <2>1. ASSUME NEW b \in Block, block'[b].used
        PROVE  /\ block'[b].id = block[b].id /\ block[b].used
               /\ timerPool'[block[b].id] = timerPool[block[b].id]
               /\ /\ timerPool[block[b].id] \in Task
                  /\ taskTimerPool[timerPool[block[b].id]] = block[b].id
                  => timerPool[block[b].id] # t
    BY <1>1, <2>1, IdTypes
  <2>2. QED
    BY <1>2, <2>1, IdTypes DEF TimersInv, TimersHaveOwners, Asleep
<1>5. QED
  BY <1>3, <1>4

LEMMA WakeKeeps ==
    ASSUME SysInv, TimersInv, NEW t \in Task, WakeStep(t)
    PROVE  TimersInv'
<1> DEFINE k == taskTimerPool[t]
<1>1. /\ Asleep(t) /\ l_rtos_timer_stop(k)
      /\ timerPool' = [timerPool EXCEPT ![k] = NULL]
      /\ taskTimerPool' = [taskTimerPool EXCEPT ![t] = NULL]
      /\ UNCHANGED <<taskTimerId, abandoned>>
      /\ \A u \in Task : Asleep(u)' <=> Asleep(u) /\ u # t
      /\ ExpiriesOnTheWay' = ExpiriesOnTheWay
  BY SameExpiries DEF WakeStep, WaitEndsByMessage
<1>2. /\ TableInv'
      /\ \A b \in Block : /\ block'[b].used <=> block[b].used /\ block[b].id # k
                          /\ block'[b].used => block'[b] = block[b]
      /\ \A o \in orphans' :
            o \in orphans \/ \E b \in Block : block[b].used /\ block[b].id = k /\ o.id = k
  BY <1>1, StopEffect DEF TimersInv
<1>3. SleepersOwn' /\ TimersHaveOwners'
  BY <1>1, <1>2, AwakeKeeps
<1>4. IdsGiven'
  BY <1>1, <1>2 DEF TimersInv, IdsGiven, Given
<1>5. TaskTimersOnce'
  BY <1>2 DEF TimersInv, TaskTimersOnce, TaskTimer
<1>6. NothingStale'
  BY <1>1, <1>2 DEF TimersInv, NothingStale, TaskTimer
<1>7. QED
  BY <1>2, <1>3, <1>4, <1>5, <1>6 DEF TimersInv

(* A late timer is gone, and neither pool of a sleeping task is touched.     *)
LEMMA LateKeeps ==
    ASSUME SysInv, TimersInv, NEW t \in Task, NEW id \in TimerId, EventLate(id, t),
           UNCHANGED <<taskTimerId, abandoned>>,
           \A b \in Block : block'[b].used =>
               block[b].used /\ block'[b].id = block[b].id /\ block[b].id # id
    PROVE  SleepersOwn' /\ TimersHaveOwners'
<1>1. ASSUME NEW u \in Task, Asleep(u)
      PROVE  /\ Asleep(u)'
             /\ taskTimerPool'[u] = taskTimerPool[u]
             /\ timerPool'[taskTimerPool[u]] = timerPool[taskTimerPool[u]]
  <2>1. Asleep(u)' /\ taskTimerPool[u] \in TimerId /\ timerPool[taskTimerPool[u]] = u
    BY <1>1, SleepersId DEF EventLate, SameSleepers, TimersInv, SleepersOwn
  <2>2. taskTimerPool[u] # id
    BY <1>1, <2>1 DEF EventLate
  <2>3. taskTimerPool'[u] = taskTimerPool[u]
    BY <1>1, IdTypes DEF EventLate
  <2>4. QED
    BY <2>1, <2>2, <2>3, IdTypes DEF EventLate
<1>2. SleepersOwn'
  BY <1>1 DEF TimersInv, SleepersOwn, EventLate, SameSleepers
<1>3. TimersHaveOwners'
  <2>1. ASSUME NEW b \in Block, block'[b].used
        PROVE  /\ block'[b].id = block[b].id /\ block[b].used
               /\ timerPool'[block[b].id] = timerPool[block[b].id]
    BY <2>1, IdTypes DEF EventLate
  <2>2. QED
    BY <1>1, <2>1 DEF TimersInv, TimersHaveOwners, Asleep
<1>4. QED
  BY <1>2, <1>3

LEMMA HandlerKeeps ==
    ASSUME SysInv, TimersInv, NEW m \in Msg, NEW t \in HandlerTimers(m), HandlerStep(m, t)
    PROVE  TimersInv'
<1>1. /\ TableInv'
      /\ t \in Block \cup {NULL} /\ (t # NULL => block[t].used)
      /\ t # NULL /\ block[t].repeat = 0 => ~block'[t].used
      /\ \A b \in Block :
            block'[b].used =>
                 /\ block[b].used /\ block'[b].id = block[b].id
                 /\ block'[b].armed = block[b].armed
                 /\ block'[b].reload = block[b].reload
                 /\ block[b].repeat = 0 => block'[b].repeat = 0
      /\ \A o \in orphans' :
            o \in orphans \/ (t # NULL /\ o.id = block[t].id /\ ~block'[t].used)
  BY HandlerEffect DEF HandlerStep, HandlesTimer, TimersInv
<1>2. ExpiriesOnTheWay' \subseteq ExpiriesOnTheWay
  BY GetExpiries DEF HandlerStep, SysInv, SysTypeOK
<1>3. IdsGiven'
  BY <1>1, <1>2 DEF TimersInv, IdsGiven, Given, HandlerStep
<1>4. TaskTimersOnce'
  BY <1>1 DEF TimersInv, TaskTimersOnce, TaskTimer
<1>5. NothingStale'
  <2>1. ASSUME NEW b \in Block, block'[b].used, t # NULL, ~block'[t].used
        PROVE  block[b].id # block[t].id
    BY <1>1, <2>1 DEF TimersInv, TableInv, IdsUnique
  <2>2. QED
    BY <1>1, <1>2, <2>1 DEF TimersInv, NothingStale, TaskTimer
<1>6. SleepersOwn' /\ TimersHaveOwners'
  <2>1. CASE t = NULL
    <3>1. UNCHANGED <<timerPool, taskTimerPool, tstate, taskTimerId, abandoned>>
      BY <2>1 DEF HandlerStep, HandlesTimer
    <3>2. QED
      BY <1>1, <3>1 DEF TimersInv, SleepersOwn, TimersHaveOwners, Asleep
  <2>2. CASE t # NULL
    <3> DEFINE id == block[t].id
    <3>1. t \in Block /\ block[t].used /\ id \in TimerId
      BY <1>1, <2>2, IdTypes
    <3>2. \A b \in Block : block[b].used /\ b # t => block[b].id # id
      BY <3>1 DEF TimersInv, TableInv, IdsUnique
    <3>3. CASE /\ id < TASK_TIMER_ID_MAX
               /\ \E u \in Task : EventWakes(id, u) /\ Asleep(u)
      <4>1. PICK u \in Task : EventWakes(id, u) /\ Asleep(u)
        BY <3>3
      <4>2. ~block'[t].used
        BY <1>1, <2>2, <3>3, HandlerFinds
      <4>3. \A b \in Block : block'[b].used =>
               block[b].used /\ block'[b].id = block[b].id /\ block[b].id # id
        BY <1>1, <3>2, <4>2
      <4>4. /\ id = taskTimerPool[u]
            /\ timerPool' = [timerPool EXCEPT ![id] = NULL]
            /\ taskTimerPool' = [taskTimerPool EXCEPT ![u] = NULL]
            /\ UNCHANGED <<taskTimerId, abandoned>>
        BY <4>1 DEF EventWakes, HandlerStep
      <4>5. \A v \in Task : Asleep(v)' <=> Asleep(v) /\ v # u
        BY <4>1, EventSleepers
      <4> HIDE DEF id
      <4>6. QED
        BY <4>1, <4>3, <4>4, <4>5, AwakeKeeps
    <3>3a. CASE /\ id < TASK_TIMER_ID_MAX
                /\ \E u \in Task : EventLate(id, u)
      <4>1. PICK u \in Task : EventLate(id, u)
        BY <3>3a
      <4>2. ~block'[t].used
        BY <1>1, <2>2, <3>3a, HandlerFinds
      <4>3. \A b \in Block : block'[b].used =>
               block[b].used /\ block'[b].id = block[b].id /\ block[b].id # id
        BY <1>1, <3>2, <4>2
      <4>4. UNCHANGED <<taskTimerId, abandoned>>
        BY DEF HandlerStep
      <4> HIDE DEF id
      <4>5. QED
        BY <3>1, <4>1, <4>3, <4>4, LateKeeps
    <3>4. CASE /\ ~ (id < TASK_TIMER_ID_MAX)
               /\ \E fn \in Callback : EventCalls(id, fn, block[t].repeat)
      <4>1. PICK fn \in Callback : EventCalls(id, fn, block[t].repeat)
        BY <3>4
      <4>2. UNCHANGED <<taskTimerPool, tstate, taskTimerId, abandoned>>
        BY <4>1 DEF EventCalls, HandlerStep
      <4>3. \/ UNCHANGED timerPool
            \/ ~block'[t].used /\ timerPool' = [timerPool EXCEPT ![id] = NULL]
        BY <1>1, <2>2, <4>1 DEF EventCalls
      <4>4. SleepersOwn'
        <5>1. ASSUME NEW u \in Task, Asleep(u)
              PROVE  timerPool'[taskTimerPool[u]] = timerPool[taskTimerPool[u]]
          BY <3>4, <4>3, <5>1, SleepersId, IdTypes DEF TimersInv
        <5>2. QED
          BY <4>2, <5>1 DEF TimersInv, SleepersOwn, Asleep
      <4>5. TimersHaveOwners'
        <5>1. ASSUME NEW b \in Block, block'[b].used
              PROVE  timerPool'[block[b].id] = timerPool[block[b].id]
          BY <1>1, <3>2, <4>3, <5>1, IdTypes
        <5>2. QED
          BY <1>1, <4>2, <5>1 DEF TimersInv, TimersHaveOwners
      <4>6. QED
        BY <4>4, <4>5
    <3>5. QED
      BY <2>2, <3>3, <3>3a, <3>4, HandlerCases
  <2>3. QED
    BY <2>1, <2>2
<1>7. QED
  BY <1>1, <1>3, <1>4, <1>5, <1>6 DEF TimersInv

LEMMA BackgroundKeeps ==
    ASSUME SysInv, TimersInv, BackgroundStep
    PROVE  TimersInv'
<1>1. /\ TableInv'
      /\ orphans' \subseteq orphans
      /\ \A b \in Block :
            /\ block'[b].used = block[b].used
            /\ block'[b].id = block[b].id
            /\ block'[b].repeat = block[b].repeat
            /\ block'[b].reload = block[b].reload
            /\ block'[b].armed => block[b].armed
      /\ \/ ExpiriesOnTheWay' \subseteq ExpiriesOnTheWay
         \/ \E c \in Block :
               /\ block[c].used /\ block'[c].armed = block[c].reload
               /\ ExpiriesOnTheWay' \subseteq ExpiriesOnTheWay \cup {block[c].id}
         \/ \E o \in orphans : ExpiriesOnTheWay' \subseteq ExpiriesOnTheWay \cup {o.id}
  BY BackgroundEffect DEF BackgroundStep, TimersInv, SysInv, SysTypeOK
<1>2. UNCHANGED <<taskTimerId, timerPool, taskTimerPool, abandoned>> /\ SameSleepers
  BY DEF BackgroundStep
<1>3. IdsGiven'
  BY <1>1, <1>2 DEF TimersInv, IdsGiven, Given
<1>4. SleepersOwn' /\ TimersHaveOwners'
  BY <1>1, <1>2 DEF TimersInv, SleepersOwn, TimersHaveOwners, SameSleepers, Asleep
<1>5. TaskTimersOnce'
  BY <1>1 DEF TimersInv, TaskTimersOnce, TaskTimer
<1>6. NothingStale'
  <2> SUFFICES ASSUME NEW b \in Block, TaskTimer(b)
               PROVE  /\ \A o \in orphans' : o.id # block[b].id
                      /\ block'[b].armed => block[b].id \notin ExpiriesOnTheWay'
    BY <1>1 DEF NothingStale, TaskTimer
  <2>1. /\ \A o \in orphans : o.id # block[b].id
        /\ block[b].armed => block[b].id \notin ExpiriesOnTheWay
        /\ ~block[b].reload /\ block[b].used
    BY DEF TimersInv, NothingStale, TaskTimersOnce, TaskTimer
  <2>2. ASSUME NEW c \in Block, block[c].used, c # b
        PROVE  block[c].id # block[b].id
    BY <2>1, <2>2 DEF TimersInv, TableInv, IdsUnique
  <2>3. ASSUME NEW c \in Block, block[c].used, block'[c].armed = block[c].reload,
               ExpiriesOnTheWay' \subseteq ExpiriesOnTheWay \cup {block[c].id},
               block'[b].armed
        PROVE  block[b].id \notin ExpiriesOnTheWay'
    BY <1>1, <2>1, <2>2, <2>3
  <2>4. QED
    BY <1>1, <2>1, <2>3
<1>7. QED
  BY <1>1, <1>3, <1>4, <1>5, <1>6 DEF TimersInv

LEMMA StepTimers ==
    ASSUME SysInv, TimersInv, TaskIdsLeft, StepKinds
    PROVE  TimersInv'
<1>1. CASE QuietStep
  BY <1>1, QuietKeeps, SameExpiries DEF QuietStep, timerVars
<1>2. CASE DriverStep
  <2>1. ExpiriesOnTheWay' = ExpiriesOnTheWay
    BY <1>2, GetExpiries DEF DriverStep, SysInv, SysTypeOK, Msg
  <2>2. QED
    BY <1>2, <2>1, QuietKeeps DEF DriverStep
<1>3. QED
  BY <1>1, <1>2, SleepKeeps, DropKeeps, CallbackKeeps, WakeKeeps, LeaveKeeps, HandlerKeeps,
     BackgroundKeeps DEF StepKinds

LEMMA NextTimers ==
    SysInv /\ TimersInv /\ TaskIdsLeft /\ [SysNext]_sysVars => TimersInv'
BY SysSteps, StepTimers

SchedulerInv == SysInv /\ TimersInv

LEMMA InitScheduler == SysInit => SchedulerInv
BY InitSysInv, InitTimers DEF SchedulerInv

LEMMA NextScheduler == SchedulerInv /\ TaskIdsLeft /\ [SysNext]_sysVars => SchedulerInv'
BY NextSysInv, NextTimers DEF SchedulerInv, SysInv

(* Each wait counts as a call and takes one id. *)
LEMMA WaitTakesOneId ==
    ASSUME SysTypeOK, taskTimerId <= calls, [SysNext]_sysVars
    PROVE  taskTimerId' <= calls'
<1>1. taskTimerId \in Nat /\ calls \in Nat
  BY SysAssumption DEF SysTypeOK
<1>2. UNCHANGED taskTimerId /\ calls' \in {calls, calls + 1} => taskTimerId' <= calls'
  BY <1>1
<1> USE DEF poolVars, runVars
<1>3. ASSUME NEW t \in Task, TaskCall(t)
      PROVE  taskTimerId' <= calls'
  <2>1. ASSUME NEW kind, NEW topic, NEW ms \in {0, 1}, Wait(t, kind, topic, ms)
        PROVE  taskTimerId' <= calls'
    <3>1. taskTimerId' = NextTaskTimerId /\ calls' = calls + 1
      BY <2>1 DEF Wait, UserCall
    <3>2. NextTaskTimerId \in {0, taskTimerId + 1}
      BY DEF NextTaskTimerId
    <3>3. QED
      BY <1>1, <3>1, <3>2
  <2>2. ASSUME NEW topic \in Topic, WaitUntilMsg(t, topic)
        PROVE  taskTimerId' <= calls'
    BY <1>2, <2>2 DEF WaitUntilMsg, UserCall
  <2>3. QED
    BY <1>2, <1>3, <2>1, <2>2 DEF TaskCall, Yield, UserCall
<1>4. CASE AnyCall
  BY <1>2, <1>4
  DEF AnyCall, TaskInit, SysCoresume, SysCoresumeBare, CoresumeWithArguments, SysTimerStop,
      SysTimerStopAll, SysTimerStopId, TimerAdvStart, Publish, Subscribe, Unsubscribe,
      TaskFails, CallbackFails, UserCall, EndsLoop, DropTimer
<1>5. CASE Proceed
  BY <1>2, <1>5
  DEF Proceed, Return, TimerAdvStarted, StopNextOfAll, wrapper, AssertFails, EndsLoop
<1>6. CASE SafeRun
  BY <1>2, <1>6
  DEF SafeRun, TakeMessage, CallSubscriber, CoresumeWithArguments, DispatchDone, ReceiveTimer, ReceiveDriver
<1>7. CASE SysDriverPosts \/ SysDaemon \/ SysOrphan \/ UNCHANGED sysVars
  BY <1>2, <1>7 DEF SysDriverPosts, SysDaemon, SysOrphan, sysVars
<1>8. QED
  BY <1>3, <1>4, <1>5, <1>6, <1>7 DEF SysNext

(* The ids of tasks do not go round in a behaviour with fewer calls than    *)
(* there are ids, as all behaviours of the runs are.                        *)
THEOREM FewCallsLeaveIds ==
    ASSUME MaxCalls < TASK_TIMER_ID_MAX - 1
    PROVE  SysSpec => []TaskIdsLeft
<1> DEFINE Count == SysTypeOK /\ taskTimerId <= calls
<1>1. SysInit => Count
  BY InitSysInv DEF SysInit, SysInv
<1>2. SysInv /\ Count /\ [SysNext]_sysVars => Count'
  BY NextSysInv, WaitTakesOneId DEF SysInv
<1>3. Count => TaskIdsLeft
  BY SysAssumption DEF SysTypeOK, TaskIdsLeft
<1> HIDE DEF Count
<1>4. QED
  BY <1>1, <1>2, <1>3, InitSysInv, NextSysInv, PTL DEF SysSpec

(* No timer runs that Lua has forgotten: each has an owner in timerPool, a  *)
(* callback, a task that sleeps on it, or the task that was resumed without  *)
(* arguments from that sleep, until the task ids have gone round.            *)
THEOREM OwnersKept == SysSpec /\ []TaskIdsLeft => []TimersHaveOwners
<1>1. SchedulerInv => TimersHaveOwners
  BY DEF SchedulerInv, TimersInv
<1>2. QED
  BY <1>1, InitScheduler, NextScheduler, PTL DEF SysSpec

(* The timer of a wait, unless that wait was ended by a resume without       *)
(* arguments, makes safeRun resume its task only inside that sys.wait,       *)
(* whatever the pools still say of earlier waits.                           *)
THEOREM SleepersResumed == SysSpec /\ []TaskIdsLeft => []TimersResumeSleepers
<1>1. SchedulerInv => TimersResumeSleepers
  <2> SUFFICES ASSUME SchedulerInv, NEW t \in Task, NEW k \in 0 .. TASK_TIMER_ID_MAX - 1,
                      k \notin abandoned, timerPool[k] = t, NEW b \in Block, block[b].used, block[b].id = k
               PROVE  tstate[t] \in TimedWait
    BY DEF TimersResumeSleepers
  <2>1. t \notin Callback
    BY IdTypes DEF SchedulerInv
  <2>2. QED
    BY <2>1 DEF SchedulerInv, TimersInv, TimersHaveOwners
<1>2. QED
  BY <1>1, InitScheduler, NextScheduler, PTL DEF SysSpec

(* Two sleeping tasks never share a timer id, while the counter of ids has   *)
(* not gone round.                                                          *)
THEOREM IdsDistinct == SysSpec /\ []TaskIdsLeft => []TaskTimersDistinct
<1>1. SchedulerInv => TaskTimersDistinct
  BY DEF SchedulerInv, TimersInv, SleepersOwn, Asleep, TaskTimersDistinct
<1>2. QED
  BY <1>1, InitScheduler, NextScheduler, PTL DEF SysSpec

-----------------------------------------------------------------------------
(* The scheduler uses the layer below as it should. *)

LEMMA StepUses ==
    SchedulerInv /\ TaskIdsLeft /\ [SysNext]_sysVars => [TimerNext]_timerVars
<1> SUFFICES ASSUME SchedulerInv, TaskIdsLeft, [SysNext]_sysVars
             PROVE  [TimerNext]_timerVars
  OBVIOUS
<1>0. SysInv /\ TimersInv /\ StepKinds
  BY SysSteps DEF SchedulerInv
<1>1. ASSUME NEW t \in Task, NEW ms \in {0, 1}, NEW ret \in {0, 1}, SleepStep(t, ms, ret)
      PROVE  TimerNext
  <2>1. /\ NextTaskTimerId \in TimerId
        /\ \A b \in Block : block[b].used => block[b].id # NextTaskTimerId
    BY <1>0, TaskIdFresh DEF TimersInv
  <2>2. luat_timer_get(NextTaskTimerId) = NULL
    BY <1>0, <2>1, GetTimer DEF TimersInv, TableInv
  <2>3. TimerStart(NextTaskTimerId, ms, 0)
    BY <1>1, <2>2 DEF SleepStep, TimerStart
  <2>4. QED
    BY <2>1, <2>3, SysAssumption DEF TimerNext, LuaTask
<1>2. ASSUME NEW k \in TimerId, DropStep(k)
      PROVE  TimerNext
  BY <1>2 DEF DropStep, TimerStop, TimerNext, LuaTask
<1>3. ASSUME NEW fn \in Callback, NEW ms \in {0, 1}, NEW rep \in Repeat,
             NEW ret \in {0, 1}, CallbackStep(fn, ms, rep, ret)
      PROVE  TimerNext
  <2>1. /\ NextMsgId \in TimerId
        /\ \A b \in Block : block[b].used => block[b].id # NextMsgId
    BY <1>0, <1>3, CallbackIdFree DEF TimersInv, CallbackStep
  <2>2. luat_timer_get(NextMsgId) = NULL
    BY <1>0, <2>1, GetTimer DEF TimersInv, TableInv
  <2>3. TimerStart(NextMsgId, ms, rep)
    BY <1>3, <2>2 DEF CallbackStep, TimerStart
  <2>4. QED
    BY <2>1, <2>3 DEF TimerNext, LuaTask
<1>4. ASSUME NEW t \in Task, WakeStep(t)
      PROVE  TimerNext
  <2>1. taskTimerPool[t] \in TimerId
    BY <1>0, <1>4, SleepersId DEF TimersInv, WakeStep
  <2>2. TimerStop(taskTimerPool[t])
    BY <1>4 DEF WakeStep, WaitEndsByMessage, TimerStop
  <2>3. QED
    BY <2>1, <2>2 DEF TimerNext, LuaTask
<1>5. ASSUME NEW m \in Msg, NEW b \in HandlerTimers(m), HandlerStep(m, b)
      PROVE  TimerNext
  BY <1>5 DEF HandlerStep, HandlesTimer, Receive, TimerNext, LuaTask
<1>6. CASE DriverStep
  BY <1>6 DEF DriverStep, Receive, TimerNext, LuaTask, Msg
<1>7. CASE BackgroundStep
  BY <1>7 DEF BackgroundStep, TimerNext
<1>8. ASSUME QuietStep \/ \E t \in Task : LeaveStep(t)
      PROVE  UNCHANGED timerVars
  BY <1>8 DEF QuietStep, LeaveStep
<1>9. QED
  BY <1>0, <1>1, <1>2, <1>3, <1>4, <1>5, <1>6, <1>7, <1>8 DEF StepKinds

(* Every step of the scheduler is a step of LuatTimer, or none: one call into *)
(* rtos at a time, and no start of an id whose timer still runs.  What is    *)
(* proved of TimerSpec, that it implements TimerService among it, therefore  *)
(* holds under sys.lua.                                                     *)
THEOREM UsesRightly == SysSpec /\ []TaskIdsLeft => UsesTimersRightly
<1>1. SysInit => TimerInit
  BY DEF SysInit
<1>2. QED
  BY <1>1, StepUses, InitScheduler, NextScheduler, PTL
  DEF SysSpec, UsesTimersRightly, TimerSpec

(* So under sys.lua the slot table and the heap agree, the counts end with   *)
(* the reloads, and the timers are the service that TimerService describes.  *)
THEOREM TimersServe ==
    SysSpec /\ []TaskIdsLeft
        => ImplementsService /\ []SlotsOwnBlocks /\ []RepeatMatchesReload
BY UsesRightly, Implements, TableSafe, CountsMatch DEF UsesTimersRightly

-----------------------------------------------------------------------------
(* Wake-ups. *)

LEMMA WakesOnTime ==
    ASSUME SchedulerInv, TaskIdsLeft, [SysNext]_sysVars, NEW t \in Task,
           tstate[t] \in TimedWait, tstate'[t] = "active", phase = "receive"
    PROVE  \E b \in Block : block[b].used /\ ~block[b].armed /\ block[b].id = taskTimerPool[t]
<1>0. SysInv /\ TimersInv /\ StepKinds
  BY SysSteps DEF SchedulerInv
<1>1. Asleep(t) /\ ~Asleep(t)'
  BY DEF Asleep, TimedWait
<1>2. PICK m \in Msg : \E b \in HandlerTimers(m) : HandlerStep(m, b)
  <2>1. ~SameSleepers
    BY <1>1 DEF SameSleepers
  <2>2. ASSUME NEW u \in Task, NEW ms, NEW ret, SleepStep(u, ms, ret)
        PROVE  FALSE
    BY <1>1, <2>2 DEF SleepStep, Asleep, TimedWait
  <2>3. ASSUME NEW u \in Task, WakeStep(u) \/ LeaveStep(u)
        PROVE  FALSE
    BY <2>3 DEF WakeStep, LeaveStep
  <2>4. QED
    BY <1>0, <2>1, <2>2, <2>3
    DEF StepKinds, QuietStep, DropStep, CallbackStep, DriverStep, BackgroundStep
<1>3. PICK b \in HandlerTimers(m) : HandlerStep(m, b)
  BY <1>2
<1>4. UNCHANGED tstate => FALSE
  BY <1>1 DEF Asleep
<1>5. b # NULL
  BY <1>3, <1>4 DEF HandlerStep, HandlesTimer
<1>6. b \in Block /\ block[b].used
  BY <1>0, <1>3, <1>5, HandlerFinds
<1>7. PICK u \in Task : /\ block[b].id < TASK_TIMER_ID_MAX
                        /\ EventWakes(block[b].id, u)
  <2>1. \A u : ~EventLate(block[b].id, u)
    BY <1>1 DEF EventLate, SameSleepers
  <2>2. QED
    BY <1>0, <1>3, <1>4, <1>5, <2>1, HandlerCases DEF EventCalls
<1>8. u = t
  BY <1>0, <1>1, <1>7, EventSleepers
<1>9. ~block[b].armed
  BY <1>0, <1>3, <1>5, <1>7, HandlerFinds
<1>10. QED
  BY <1>6, <1>7, <1>8, <1>9 DEF EventWakes

(* A timer wakes a task only when the timer of that very wait has expired,   *)
(* never on a message left over from an earlier wait or another timer.      *)
THEOREM WokenOnTime == SysSpec /\ []TaskIdsLeft => TimerWakesOnTime
<1>1. SchedulerInv /\ TaskIdsLeft /\ [SysNext]_sysVars
        => [\A t \in Task :
              /\ tstate[t] \in TimedWait /\ tstate'[t] = "active"
              /\ phase = "receive"
              => \E b \in Block : /\ block[b].used /\ ~block[b].armed
                                  /\ block[b].id = taskTimerPool[t]]_sysVars
  BY WakesOnTime
<1>2. QED
  BY <1>1, InitScheduler, NextScheduler, PTL DEF SysSpec, TimerWakesOnTime

-----------------------------------------------------------------------------
(* A timer that is armed, or whose message is on the way, stays so while the *)
(* bus is not full, unless it is stopped or its message arrives.            *)

Pending(b) == block[b].used /\ (block[b].armed \/ Owed(b))

LEMMA OwedStays ==
    ASSUME NEW b \in Block, Owed(b), UNCHANGED <<daemon, bus>>, block'[b].id = block[b].id
    PROVE  Owed(b)'
BY DEF Owed, TimerMsg

LEMMA PendingStays ==
    ASSUME NEW b \in Block, Pending(b), UNCHANGED <<daemon, bus>>, block'[b] = block[b]
    PROVE  Pending(b)' /\ block'[b].id = block[b].id
BY OwedStays DEF Pending

LEMMA PendingReceives ==
    ASSUME TimerTypeOK, NEW b \in Block, Pending(b), UNCHANGED daemon, block'[b] = block[b],
           NEW m, luat_msgbus_get(m), m # TimerMsg(b, block[b].id)
    PROVE  Pending(b)' /\ block'[b].id = block[b].id
<1>1. CASE block[b].armed \/ daemon = [ptr |-> b, id |-> block[b].id]
  BY <1>1 DEF Pending, Owed
<1>2. ASSUME NEW k \in 1 .. Len(bus), bus[k] = TimerMsg(b, block[b].id)
      PROVE  Pending(b)'
  <2>1. k - 1 \in 1 .. Len(bus') /\ bus'[k - 1] = bus[k]
    BY <1>2, GetKeeps
  <2>2. Owed(b)'
    BY <1>2, <2>1 DEF Owed, TimerMsg
  <2>3. QED
    BY <2>2 DEF Pending
<1>3. QED
  BY <1>1, <1>2 DEF Pending, Owed

LEMMA PendingInBackground ==
    ASSUME TableInv, TimerTypeOK, NEW b \in Block, Pending(b), Len(bus) < BusLen,
           Daemon \/ DriverPosts \/ \E o \in orphans : OrphanExpires(o)
    PROVE  Pending(b)' /\ block'[b].id = block[b].id
<1>0. block \in [Block -> Timer]
  BY DEF TimerTypeOK
<1>1. ASSUME NEW c \in Block, TimerExpires(c), c = b
      PROVE  Pending(b)' /\ block'[b].id = block[b].id
  <2>1. luat_timer_get(block[b].id) = b
    BY <1>1, GetTimerOf DEF TimerExpires
  <2>2. daemon' = [ptr |-> b, id |-> block[b].id]
    BY <1>1, <2>1, NullAssumption DEF TimerExpires, LookUp
  <2>3. block'[b].id = block[b].id /\ block'[b].used
    BY <1>0, <1>1 DEF TimerExpires, Timer
  <2>4. QED
    BY <2>2, <2>3 DEF Pending, Owed
<1>2. ASSUME \/ \E c \in Block : TimerExpires(c) /\ c # b
             \/ \E o \in orphans : OrphanExpires(o)
      PROVE  Pending(b)' /\ block'[b].id = block[b].id
  <2>1. daemon = NULL /\ UNCHANGED bus /\ block'[b] = block[b]
    BY <1>0, <1>2 DEF TimerExpires, OrphanExpires
  <2>2. QED
    BY <2>1, NullAssumption DEF Pending, Owed, TimerMsg, TimerTypeOK, Timer
<1>3. CASE CallbackPosts \/ DriverPosts
  <2>1. UNCHANGED block
    BY <1>3 DEF CallbackPosts, DriverPosts
  <2>2. Owed(b) => Owed(b)'
    <3>1. CASE CallbackPosts
      BY <2>1, <3>1, PutKeeps DEF CallbackPosts, Owed
    <3>2. CASE DriverPosts
      BY <2>1, <3>2, PutKeeps DEF DriverPosts, Owed
    <3>3. QED
      BY <1>3, <3>1, <3>2
  <2>3. QED
    BY <2>1, <2>2 DEF Pending
<1>4. QED
  BY <1>1, <1>2, <1>3 DEF Daemon

LEMMA PendingStep ==
    ASSUME SchedulerInv, TaskIdsLeft, [SysNext]_sysVars, NEW b \in Block, Pending(b),
           Len(bus) < BusLen
    PROVE  \/ /\ Pending(b)' /\ block'[b].id = block[b].id
              /\ timerPool'[block[b].id] = timerPool[block[b].id]
           \/ /\ DropStep(block[b].id)
              /\ timerPool[block[b].id] \in Traceback => StartsAgain(block[b].id)
           \/ \E t \in Task : WakeStep(t) /\ taskTimerPool[t] = block[b].id
           \/ \E m \in Msg : b \in HandlerTimers(m) /\ HandlerStep(m, b)
<1>0. SysInv /\ TimersInv /\ StepKinds /\ TableInv /\ TimerTypeOK
  BY SysSteps DEF SchedulerInv, SysInv, SysTypeOK, TimersInv
<1>1. /\ block[b].used /\ block[b].id \in TimerId
      /\ timerPool \in [TimerId -> Task \cup Callback \cup {NULL}]
  BY <1>0, IdTypes DEF Pending
<1> DEFINE id == block[b].id
           Stays == /\ Pending(b)' /\ block'[b].id = id
                    /\ timerPool'[id] = timerPool[id]
<1>2. CASE QuietStep \/ \E t \in Task : LeaveStep(t)
  BY <1>2, PendingStays DEF QuietStep, LeaveStep, timerVars
<1>3. ASSUME NEW t \in Task, NEW ms \in {0, 1}, NEW ret \in {0, 1}, SleepStep(t, ms, ret)
      PROVE  Stays
  <2>1. NextTaskTimerId \in TimerId /\ \A c \in Block : block[c].used => block[c].id # NextTaskTimerId
    BY <1>0, TaskIdFresh DEF TimersInv
  <2>2. block'[b] = block[b]
    BY <1>0, <1>1, <1>3, <2>1, StartEffect, SysAssumption DEF SleepStep
  <2>3. timerPool'[id] = timerPool[id]
    BY <1>1, <1>3, <2>1 DEF SleepStep
  <2>4. QED
    BY <1>3, <2>2, <2>3, PendingStays DEF SleepStep
<1>4. ASSUME NEW k \in TimerId, DropStep(k), k # id
      PROVE  Stays
  <2>1. block'[b] = block[b]
    BY <1>0, <1>1, <1>4, StopEffect DEF DropStep
  <2>2. QED
    BY <1>1, <1>4, <2>1, PendingStays DEF DropStep
<1>5. ASSUME NEW fn \in Callback, NEW ms \in {0, 1}, NEW rep \in Repeat,
             NEW ret \in {0, 1}, CallbackStep(fn, ms, rep, ret)
      PROVE  Stays
  <2>1. NextMsgId \in TimerId /\ \A c \in Block : block[c].used => block[c].id # NextMsgId
    BY <1>0, <1>5, CallbackIdFree DEF TimersInv, CallbackStep
  <2>2. block'[b] = block[b]
    BY <1>0, <1>1, <1>5, <2>1, StartEffect DEF CallbackStep
  <2>3. timerPool'[id] = timerPool[id]
    BY <1>1, <1>5, <2>1 DEF CallbackStep
  <2>4. QED
    BY <1>5, <2>2, <2>3, PendingStays DEF CallbackStep
<1>6. ASSUME NEW t \in Task, WakeStep(t), taskTimerPool[t] # id
      PROVE  Stays
  <2>1. block'[b] = block[b]
    BY <1>0, <1>1, <1>6, StopEffect DEF WakeStep, WaitEndsByMessage
  <2>2. timerPool'[id] = timerPool[id]
    BY <1>1, <1>6 DEF WakeStep, WaitEndsByMessage
  <2>3. QED
    BY <1>6, <2>1, <2>2, PendingStays DEF WakeStep
<1>7. ASSUME NEW m \in Msg, NEW c \in HandlerTimers(m), HandlerStep(m, c), c # b
      PROVE  Stays
  <2>1. block'[b] = block[b]
    BY <1>0, <1>7, HandlerEffect DEF HandlerStep, HandlesTimer
  <2>2. m # TimerMsg(b, id)
    BY <1>0, <1>1, <1>7, HandlerFindsOwner
  <2>3. Pending(b)' /\ block'[b].id = id
    BY <1>0, <1>7, <2>1, <2>2, PendingReceives DEF HandlerStep
  <2>4. timerPool'[id] = timerPool[id]
    <3>1. CASE c = NULL
      BY <1>7, <3>1 DEF HandlerStep, HandlesTimer
    <3>2. CASE c # NULL
      <4>1. c \in Block /\ block[c].used
        BY <1>0, <1>7, <3>2, HandlerFinds
      <4>2. block[c].id # id
        BY <1>0, <1>1, <1>7, <4>1 DEF TableInv, IdsUnique
      <4>3. UNCHANGED timerPool \/ timerPool' = [timerPool EXCEPT ![block[c].id] = NULL]
        BY <1>0, <1>7, <3>2, HandlerCases DEF EventWakes, EventLate, EventCalls
      <4>4. QED
        BY <1>1, <4>2, <4>3
    <3>3. QED
      BY <3>1, <3>2
  <2>5. QED
    BY <2>3, <2>4
<1>8. CASE DriverStep
  <2>1. DriverMsg # TimerMsg(b, id)
    BY DEF DriverMsg, TimerMsg
  <2>2. QED
    BY <1>0, <1>8, <2>1, PendingReceives DEF DriverStep
<1>9. CASE BackgroundStep
  BY <1>0, <1>9, PendingInBackground DEF BackgroundStep
<1>10. QED
  BY <1>0, <1>2, <1>3, <1>4, <1>5, <1>6, <1>7, <1>8, <1>9 DEF StepKinds

(* A task that goes on sleeping keeps its timer id; one that falls asleep   *)
(* has a timer that is armed.                                               *)
LEMMA SleepsOn ==
    ASSUME SchedulerInv, TaskIdsLeft, [SysNext]_sysVars, NEW t \in Task, Asleep(t)'
    PROVE  IF Asleep(t) THEN taskTimerPool'[t] = taskTimerPool[t] ELSE WakeupOf(t)'
<1>0. SysInv /\ TimersInv /\ StepKinds /\ TableInv /\ taskTimerPool \in [Task -> TimerId \cup {NULL}]
  BY SysSteps, IdTypes DEF SchedulerInv, TimersInv
<1>1. CASE QuietStep \/ DriverStep \/ BackgroundStep \/ (\E k : DropStep(k))
           \/ \E fn, ms, rep, ret : CallbackStep(fn, ms, rep, ret)
  BY <1>1 DEF QuietStep, DriverStep, BackgroundStep, DropStep, CallbackStep, SameSleepers
<1>2. ASSUME NEW u \in Task, WakeStep(u) \/ LeaveStep(u)
      PROVE  Asleep(t) /\ taskTimerPool'[t] = taskTimerPool[t]
  BY <1>0, <1>2 DEF WakeStep, LeaveStep, WaitEndsByMessage
<1>3. ASSUME NEW u \in Task, NEW ms \in {0, 1}, NEW ret \in {0, 1}, SleepStep(u, ms, ret)
      PROVE  IF Asleep(t) THEN taskTimerPool'[t] = taskTimerPool[t] ELSE WakeupOf(t)'
  <2>1. CASE t # u
    BY <1>0, <1>3, <2>1 DEF SleepStep
  <2>2. CASE t = u
    <3>1. ~Asleep(t) /\ ret = 1 /\ taskTimerPool'[t] = NextTaskTimerId
      BY <1>0, <1>3, <2>2 DEF SleepStep, Asleep, TimedWait
    <3>2. NextTaskTimerId \in TimerId /\ \A c \in Block : block[c].used => block[c].id # NextTaskTimerId
      BY <1>0, TaskIdFresh DEF TimersInv
    <3>3. \E b \in Block : block'[b].used /\ block'[b] = StartedTimer(NextTaskTimerId, 0)
      BY <1>0, <1>3, <3>1, <3>2, StartEffect, SysAssumption DEF SleepStep
    <3>4. QED
      BY <3>1, <3>3 DEF StartedTimer, WakeupOf
  <2>3. QED
    BY <2>1, <2>2
<1>4. ASSUME NEW m \in Msg, NEW c \in HandlerTimers(m), HandlerStep(m, c)
      PROVE  Asleep(t) /\ taskTimerPool'[t] = taskTimerPool[t]
  <2>1. CASE c = NULL
    BY <1>4, <2>1 DEF HandlerStep, HandlesTimer, Asleep
  <2>2. CASE c # NULL
    <3>1. ASSUME NEW u \in Task, EventWakes(block[c].id, u)
          PROVE  Asleep(t) /\ taskTimerPool'[t] = taskTimerPool[t]
      <4>1. Asleep(t) /\ t # u
        BY <1>0, <3>1, EventSleepers
      <4>2. QED
        BY <1>0, <3>1, <4>1 DEF EventWakes
    <3>2. ASSUME NEW fn, EventCalls(block[c].id, fn, block[c].repeat)
          PROVE  Asleep(t) /\ taskTimerPool'[t] = taskTimerPool[t]
      BY <3>2 DEF EventCalls, Asleep
    <3>3. ASSUME NEW u \in Task, EventLate(block[c].id, u)
          PROVE  Asleep(t) /\ taskTimerPool'[t] = taskTimerPool[t]
      BY <1>0, <3>3 DEF EventLate, SameSleepers
    <3>4. QED
      BY <1>0, <1>4, <2>2, <3>1, <3>2, <3>3, HandlerCases
  <2>3. QED
    BY <2>1, <2>2
<1>5. QED
  BY <1>0, <1>1, <1>2, <1>3, <1>4 DEF StepKinds

LEMMA WakeupStep ==
    ASSUME SchedulerInv, SchedulerInv', TaskIdsLeft, [SysNext]_sysVars, NEW t \in Task,
           Asleep(t) => HasWakeup(t), Len(bus) < BusLen, Asleep(t)'
    PROVE  HasWakeup(t)'
<1>0. SysInv /\ TimersInv /\ SysInv' /\ SleepersOwn'
  BY DEF SchedulerInv, TimersInv
<1>1. taskTimerPool'[t] # NULL /\ timerPool'[taskTimerPool'[t]] = t
  <2>1. taskTimerPool'[t] \in 1 .. taskTimerId' /\ timerPool'[taskTimerPool'[t]] = t
    BY <1>0 DEF SleepersOwn
  <2>2. NULL \notin 1 .. taskTimerId'
    BY NullAssumption
  <2>3. QED
    BY <2>1, <2>2
<1>2. CASE ~Asleep(t)
  BY <1>1, <1>2, SleepsOn DEF HasWakeup
<1>3. CASE Asleep(t)
  <2>1. PICK b \in Block : Pending(b) /\ block[b].id = taskTimerPool[t]
    BY <1>3 DEF HasWakeup, WakeupOf, Pending
  <2>2. taskTimerPool'[t] = taskTimerPool[t]
    BY <1>3, SleepsOn
  <2>3. block[b].id < TASK_TIMER_ID_MAX
    BY <1>0, <1>3, <2>1, SleepersId DEF TimersInv
  <2>4. ~DropStep(block[b].id)
    BY <2>3 DEF DropStep
  <2>5. ASSUME NEW u \in Task, WakeStep(u), taskTimerPool[u] = block[b].id
        PROVE  FALSE
    <3>1. u = t
      BY <1>0, <1>3, <2>1, <2>5, SleepersId DEF TimersInv, WakeStep
    <3>2. QED
      BY <2>5, <3>1 DEF WakeStep
  <2>6. ASSUME NEW m \in Msg, b \in HandlerTimers(m), HandlerStep(m, b)
        PROVE  FALSE
    <3>1. PICK u \in Task : EventWakes(block[b].id, u)
      <4>1. b # NULL
        BY NullAssumption
      <4>2. \A u \in Task : ~EventLate(block[b].id, u)
        BY <1>3, <2>1 DEF EventLate, HasWakeup
      <4>3. QED
        BY <1>0, <2>3, <2>6, <4>1, <4>2, HandlerCases
    <3>2. u = t
      BY <1>3, <2>1, <3>1 DEF EventWakes, HasWakeup
    <3>3. QED
      BY <1>0, <3>1, <3>2, EventSleepers
  <2>7. Pending(b)' /\ block'[b].id = block[b].id
    BY <2>1, <2>4, <2>5, <2>6, PendingStep
  <2>8. WakeupOf(t)'
    BY <2>1, <2>2, <2>7 DEF WakeupOf, Pending
  <2>9. QED
    BY <1>1, <2>8 DEF HasWakeup
<1>4. QED
  BY <1>2, <1>3

(* No task is left asleep without a wake-up to come: of all the steps of the *)
(* tasks, the callbacks and the daemon, only a put on a full bus takes one.  *)
THEOREM WakeupOnlyLostOnFullBus == SysSpec /\ []TaskIdsLeft => OnlyFullBusLosesWakeup
<1>1. SchedulerInv /\ SchedulerInv' /\ TaskIdsLeft /\ [SysNext]_sysVars
        => [\A t \in Task :
              /\ Asleep(t) => HasWakeup(t)
              /\ Len(bus) < BusLen
              => (Asleep(t)' => HasWakeup(t)')]_sysVars
  BY WakeupStep
<1>2. QED
  BY <1>1, InitScheduler, NextScheduler, PTL DEF SysSpec, OnlyFullBusLosesWakeup

(* A callback called from the main loop is on top of the stack. *)
LEMMA CallbackOnTop ==
    ASSUME SysInv, NEW fn, Push(fn)
    PROVE  stack' # <<>> /\ Top' = fn
<1>1. stack \in Seq(Actor)
  BY DEF SysInv, SysTypeOK
<1>2. Len(stack') = Len(stack) + 1 /\ stack'[Len(stack) + 1] = fn
  BY <1>1, PushStack
<1>3. Len(stack) \in Nat
  BY <1>1, LenProperties
<1>4. stack' # <<>>
  <2>1. Len(<<>>) = 0
    BY EmptySeq
  <2>2. QED
    BY <1>2, <1>3, <2>1
<1>5. QED
  BY <1>2, <1>4 DEF Top

(* A start of the assert timer in hand goes on, or fails, or the loop ends.  *)
LEMMA StartingStep ==
    ASSUME SchedulerInv, TaskIdsLeft, [SysNext]_sysVars, NEW traceBack \in Traceback,
           starting # NULL, starting.fn = traceBack, ~StartOfAssertFails(traceBack)
    PROVE  ErrorInHand(traceBack)' \/ phase' = "ended"
<1>0. SysInv /\ TimersInv
  BY DEF SchedulerInv
<1> USE DEF runVars
<1>1. UNCHANGED starting => ErrorInHand(traceBack)'
  BY DEF ErrorInHand
<1>2. ASSUME NEW ms \in {0, 1}, NEW ret \in {0, 1}, TimerAdvStarted(ms, ret)
      PROVE  ErrorInHand(traceBack)'
  <2>1. ret = 1
    BY <1>2 DEF StartOfAssertFails
  <2>2. /\ NextMsgId \in TimerId
        /\ \A b \in Block : block[b].used => block[b].id # NextMsgId
    BY <1>0, <1>2, CallbackIdFree DEF TimersInv, TimerAdvStarted
  <2>3. starting.rep \in Repeat
    BY <1>0, <1>2 DEF TimerAdvStarted, SysInv, SysTypeOK
  <2>4. \E b \in Block : block'[b] = StartedTimer(NextMsgId, starting.rep)
    BY <1>0, <1>2, <2>1, <2>2, <2>3, StartEffect DEF TimersInv, TimerAdvStarted
  <2>5. timerPool'[NextMsgId] = traceBack
    BY <1>0, <1>2, <2>2, IdTypes DEF TimerAdvStarted
  <2>6. QED
    BY <2>4, <2>5 DEF StartedTimer, ErrorInHand
<1>3. CASE wrapper
  <2>1. starting' = [starting EXCEPT !.rep = 0]
    BY <1>3 DEF wrapper
  <2>2. starting \in [fn : Callback, rep : Repeat \cup {NULL}]
    BY <1>0 DEF SysInv, SysTypeOK
  <2>3. /\ starting' \in [fn : Callback, rep : Repeat \cup {NULL}]
        /\ starting'.fn = traceBack
    BY <2>1, <2>2, SysAssumption
  <2>4. starting' # NULL
    BY <2>3, ActorAssumption DEF Callback
  <2>5. QED
    BY <2>3, <2>4 DEF ErrorInHand
<1>4. ~StopNextOfAll /\ ~Return /\ ~UserCall
  BY ActorAssumption DEF StopNextOfAll, Return, UserCall
<1>5. CASE AssertFails
  BY <1>5 DEF AssertFails, EndsLoop
<1>6. ~SafeRun
  BY DEF SafeRun, TakeMessage, CallSubscriber, DispatchDone, ReceiveTimer, ReceiveDriver, MainLoop
<1>7. ~AnyCall /\ ~\E t \in Task : TaskCall(t)
  BY <1>4
  DEF AnyCall, TaskInit, SysCoresume, SysCoresumeBare, SysTimerStop, SysTimerStopAll,
      SysTimerStopId, TimerAdvStart, Publish, Subscribe, Unsubscribe, TaskFails,
      CallbackFails, TaskCall, Wait, WaitUntilMsg, Yield
<1>8. CASE SysDriverPosts \/ SysDaemon \/ SysOrphan \/ UNCHANGED sysVars
  BY <1>1, <1>8 DEF SysDriverPosts, SysDaemon, SysOrphan, sysVars
<1>9. QED
  BY <1>2, <1>3, <1>4, <1>5, <1>6, <1>7, <1>8 DEF SysNext, Proceed

LEMMA ErrorStep ==
    ASSUME SchedulerInv, TaskIdsLeft, [SysNext]_sysVars, NEW traceBack \in Traceback,
           ErrorInHand(traceBack), Len(bus) < BusLen, ~StartOfAssertFails(traceBack)
    PROVE  ErrorInHand(traceBack)' \/ Reported(traceBack)'
<1>0. SysInv /\ TimersInv
  BY DEF SchedulerInv
<1>1. CASE starting # NULL /\ starting.fn = traceBack
  BY <1>1, StartingStep DEF Reported
<1>2. CASE ~ (starting # NULL /\ starting.fn = traceBack)
  <2>1. PICK b \in Block : Pending(b) /\ timerPool[block[b].id] = traceBack
    BY <1>2 DEF ErrorInHand, Pending
  <2>2. ~ (DropStep(block[b].id)
             /\ (timerPool[block[b].id] \in Traceback => StartsAgain(block[b].id)))
    BY <1>2, <2>1 DEF StartsAgain
  <2>3. ASSUME NEW t \in Task, WakeStep(t), taskTimerPool[t] = block[b].id
        PROVE  FALSE
    <3>1. timerPool[taskTimerPool[t]] = t
      BY <1>0, <2>3 DEF TimersInv, SleepersOwn, WakeStep
    <3>2. QED
      BY <2>1, <2>3, <3>1, ActorAssumption
  <2>4. ASSUME NEW m \in Msg, b \in HandlerTimers(m), HandlerStep(m, b)
        PROVE  Reported(traceBack)'
    <3>1. b # NULL
      BY NullAssumption
    <3>2. \A t \in Task : ~EventWakes(block[b].id, t) /\ ~EventLate(block[b].id, t)
      BY <2>1, ActorAssumption DEF EventWakes, EventLate
    <3>3. PICK fn \in Callback : EventCalls(block[b].id, fn, block[b].repeat)
      BY <1>0, <2>4, <3>1, <3>2, HandlerCases
    <3>4. fn = traceBack /\ Push(fn)
      BY <2>1, <3>3 DEF EventCalls
    <3>5. QED
      BY <1>0, <3>4, CallbackOnTop DEF Reported
  <2>5. ASSUME Pending(b)', block'[b].id = block[b].id,
               timerPool'[block[b].id] = timerPool[block[b].id]
        PROVE  ErrorInHand(traceBack)'
    BY <2>1, <2>5 DEF ErrorInHand, Pending
  <2>6. QED
    BY <2>1, <2>2, <2>3, <2>4, <2>5, PendingStep
<1>3. QED
  BY <1>1, <1>2

(* The error of a failed task is not lost on its way to the assert: of all   *)
(* the steps of the tasks, the callbacks and the daemon only a put on a full *)
(* bus and a start of its timer that fails lose it.                          *)
THEOREM ErrorOnlyLostOnFullBus == SysSpec /\ []TaskIdsLeft => OnlyFullBusLosesError
<1>1. SchedulerInv /\ TaskIdsLeft /\ [SysNext]_sysVars
        => [\A traceBack \in Traceback :
              /\ ErrorInHand(traceBack) /\ Len(bus) < BusLen
              /\ ~StartOfAssertFails(traceBack)
              => ErrorInHand(traceBack)' \/ Reported(traceBack)']_sysVars
  BY ErrorStep
<1>2. QED
  BY <1>1, InitScheduler, NextScheduler, PTL DEF SysSpec, OnlyFullBusLosesError

-----------------------------------------------------------------------------
(* The arguments of callbacks.  The callback of a one-shot timer may give    *)
(* its id out again while it runs, once the counter of callback ids has gone *)
(* round; the arguments stored for the new timer would be dropped when it    *)
(* returns.  This, too, is stated as long as the counter has not.            *)

CallbackIdsLeft == msgId < MSG_TIMER_ID_MAX

(* spent is set while the callback it was set for runs. *)
SpentRuns ==
    spent # NULL /\ phase # "ended" => stack # <<>> /\ stack[1] \in Callback

LEMMA SpentOnStack ==
    ASSUME SysInv, SpentRuns, spent # NULL, phase # "ended", stack # <<>>, Pop,
           Top \in Task \/ Len(stack) # 1
    PROVE  stack' # <<>> /\ stack'[1] \in Callback
<1>1. stack \in Seq(Actor)
  BY DEF SysInv, SysTypeOK
<1>2. /\ stack' \in Seq(Actor)
      /\ Len(stack') = Len(stack) - 1
      /\ Len(stack) \in Nat \ {0}
      /\ \A i \in 1 .. Len(stack) - 1 : stack'[i] = stack[i]
  BY <1>1, PopStack
<1>3. stack[1] \in Callback
  BY DEF SpentRuns
<1>4. Len(stack) # 1
  BY <1>3, ActorAssumption DEF Top, Callback
<1>5. Len(stack') # 0 /\ 1 \in 1 .. Len(stack) - 1
  BY <1>2, <1>4
<1>6. Len(<<>>) = 0
  BY EmptySeq
<1>7. QED
  BY <1>2, <1>3, <1>5, <1>6

LEMMA PushesOn ==
    ASSUME SysInv, NEW x, Push(x)
    PROVE  /\ stack' # <<>>
           /\ stack # <<>> => stack'[1] = stack[1]
           /\ stack = <<>> => stack'[1] = x
<1>1. stack \in Seq(Actor)
  BY DEF SysInv, SysTypeOK
<1>2. /\ Len(stack') = Len(stack) + 1
      /\ \A i \in 1 .. Len(stack) : stack'[i] = stack[i]
      /\ stack'[Len(stack) + 1] = x
  BY <1>1, PushStack
<1>3. Len(stack) \in Nat /\ (stack # <<>> => Len(stack) # 0) /\ Len(<<>>) = 0
  BY <1>1, EmptySeq
<1>4. stack # <<>> => 1 \in 1 .. Len(stack)
  BY <1>3
<1>5. QED
  BY <1>2, <1>3, <1>4, CallbackOnTop

LEMMA NextSpent == SysInv /\ SpentRuns /\ [SysNext]_sysVars => SpentRuns'
<1> SUFFICES ASSUME SysInv, SpentRuns, [SysNext]_sysVars PROVE SpentRuns'
  OBVIOUS
<1> USE DEF runVars
<1>1. UNCHANGED <<spent, stack, phase>> \/ spent' = NULL \/ phase' = "ended" => SpentRuns'
  BY DEF SpentRuns
<1>2. ASSUME UNCHANGED <<spent, phase>>, stack # <<>>, Pop, Top \in Task \/ Len(stack) # 1
      PROVE  SpentRuns'
  BY <1>2, SpentOnStack DEF SpentRuns
<1>3. ASSUME UNCHANGED <<spent, phase>>, stack # <<>>, NEW x, Push(x)
      PROVE  SpentRuns'
  BY <1>3, PushesOn DEF SpentRuns
<1>4. ASSUME stack = <<>>, NEW fn \in Callback, Push(fn)
      PROVE  SpentRuns'
  BY <1>4, PushesOn DEF SpentRuns
<1>5. ASSUME NEW ph, ph # "ended", MainLoop(ph)
      PROVE  spent = NULL
  BY <1>5 DEF MainLoop, SpentRuns
<1>6. CASE \E t \in Task : TaskCall(t)
  BY <1>1, <1>2, <1>6 DEF TaskCall, Wait, WaitUntilMsg, Yield, UserCall
<1>7. CASE AnyCall
  <2>1. ASSUME NEW t \in Task, TaskInit(t) \/ SysCoresume(t) \/ SysCoresumeBare(t)
        PROVE  SpentRuns'
    <3>1. stack # <<>> /\ UNCHANGED <<spent, phase>>
      BY <2>1 DEF TaskInit, SysCoresume, SysCoresumeBare, UserCall
    <3>2. UNCHANGED stack \/ Push(t)
      BY <2>1
      DEF TaskInit, SysCoresume, SysCoresumeBare, CoresumeWithArguments, CoresumeFails, Coresume
    <3>3. QED
      BY <1>1, <1>3, <3>1, <3>2
  <2>2. ASSUME NEW t \in Task, NEW traceBack, TaskFails(t, traceBack)
        PROVE  SpentRuns'
    BY <1>2, <2>2 DEF TaskFails, UserCall
  <2>3. CASE CallbackFails
    BY <1>1, <2>3 DEF CallbackFails, EndsLoop
  <2>4. ASSUME \/ \E fn \in Fn : SysTimerStop(fn) \/ SysTimerStopAll(fn)
               \/ \E k : SysTimerStopId(k)
               \/ \E fn \in Fn, rep \in Repeat : TimerAdvStart(fn, rep)
               \/ \E topic \in Topic : Publish(topic)
               \/ \E topic \in Topic, fn \in Fn : Subscribe(topic, fn) \/ Unsubscribe(topic, fn)
        PROVE  SpentRuns'
    BY <1>1, <2>4
    DEF SysTimerStop, SysTimerStopAll, SysTimerStopId, TimerAdvStart, Publish, Subscribe,
        Unsubscribe
  <2>5. QED
    BY <1>7, <2>1, <2>2, <2>3, <2>4 DEF AnyCall
<1>8. CASE Proceed
  <2>1. CASE Return
    <3>1. CASE UNCHANGED spent /\ (Len(stack) # 1 \/ Top \in Task)
      BY <1>2, <2>1, <3>1 DEF Return
    <3>2. QED
      BY <1>1, <2>1, <3>1 DEF Return
  <2>2. CASE AssertFails
    BY <1>1, <2>2 DEF AssertFails, EndsLoop
  <2>3. ASSUME StopNextOfAll \/ wrapper \/ \E ms, ret \in {0, 1} : TimerAdvStarted(ms, ret)
        PROVE  SpentRuns'
    BY <1>1, <2>3 DEF StopNextOfAll, wrapper, TimerAdvStarted
  <2>4. QED
    BY <1>8, <2>1, <2>2, <2>3 DEF Proceed
<1>9. CASE TakeMessage
  BY <1>1, <1>9 DEF TakeMessage
<1>10. CASE CallSubscriber
  BY <1>1, <1>5, <1>10 DEF CallSubscriber
<1>11. CASE DispatchDone
  BY <1>1, <1>5, <1>11 DEF DispatchDone
<1>12. CASE ReceiveTimer
  <2>1. spent = NULL /\ stack = <<>>
    BY <1>5, <1>12 DEF ReceiveTimer, MainLoop
  <2>2. PICK m \in Msg \ {DriverMsg} : \E b \in HandlerTimers(m) : HandlesTimer(b)
    BY <1>12 DEF ReceiveTimer, HandlesTimer
  <2>3. PICK b \in HandlerTimers(m) : HandlesTimer(b)
    BY <2>2
  <2>4. b \in Block \cup {NULL}
    BY <2>3, HandlerType, HeapTyped DEF SysInv, SysTypeOK, HandlesTimer
  <2>5. CASE b = NULL
    BY <1>1, <2>1, <2>3, <2>5 DEF HandlesTimer
  <2>6. CASE b # NULL
    <3>1. block[b].id \in TimerId /\ TimerEvent(block[b].id, block[b].repeat)
      BY <2>3, <2>4, <2>6 DEF SysInv, SysTypeOK, TimerTypeOK, Timer, HandlesTimer
    <3>2. ASSUME NEW fn \in Callback, EventCalls(block[b].id, fn, block[b].repeat)
          PROVE  SpentRuns'
      BY <1>4, <2>1, <3>2 DEF EventCalls
    <3>3. PoolKinds
      BY DEF SysInv
    <3>4. UNCHANGED spent => SpentRuns'
      BY <1>1, <2>1
    <3>5. QED
      BY <3>1, <3>2, <3>3, <3>4, TimerEventCases
      DEF EventOfNobody, EventWakes, EventFails, EventMissesTask
  <2>7. QED
    BY <2>4, <2>5, <2>6
<1>13. ASSUME NEW topic \in Topic, ReceiveDriver(topic)
       PROVE  SpentRuns'
  BY <1>1, <1>5, <1>13 DEF ReceiveDriver
<1>14. CASE SysDriverPosts \/ SysDaemon \/ SysOrphan \/ UNCHANGED sysVars
  BY <1>1, <1>14 DEF SysDriverPosts, SysDaemon, SysOrphan, sysVars
<1>15. QED
  BY <1>6, <1>7, <1>8, <1>9, <1>10, <1>11, <1>12, <1>13, <1>14 DEF SysNext, SafeRun

(* The timer that spent names has been given an id, and is gone. *)
SpentIds ==
    spent # NULL => /\ spent \in TimerId /\ ~ (spent < TASK_TIMER_ID_MAX) /\ spent <= msgId
                    /\ timerPool[spent] = NULL

(* Callback ids above the counter have never been used. *)
FreshIds == \A k \in TimerId : k > msgId => timerPool[k] = NULL /\ ~para[k]

ArgsInv ==
    /\ ArgumentsFollowTimers
    /\ SpentIds
    /\ FreshIds

(* Timers go, none comes. *)
UsedShrink ==
    \A b \in Block : block'[b].used => block[b].used /\ block'[b].id = block[b].id

LEMMA ArgumentKinds ==
    ASSUME SysInv, ArgsInv
    PROVE  /\ \A k \in TimerId : k < TASK_TIMER_ID_MAX => ~para[k]
           /\ ~HasArguments(NULL) /\ \A t \in Task : ~HasArguments(t)
           /\ para \in [TimerId -> BOOLEAN]
           /\ msgId \in Nat /\ TASK_TIMER_ID_MAX <= msgId /\ msgId <= MSG_TIMER_ID_MAX
<1>1. ~HasArguments(NULL) /\ \A t \in Task : ~HasArguments(t)
  BY SysAssumption, ActorAssumption DEF HasArguments
<1>2. ASSUME NEW k \in TimerId, k < TASK_TIMER_ID_MAX
      PROVE  ~para[k]
  <2>1. timerPool[k] \in Task \cup {NULL}
    BY <1>2 DEF SysInv, PoolKinds
  <2>2. ~HasArguments(timerPool[k])
    BY <1>1, <2>1
  <2>3. k # NULL
    BY NullAssumption, IdTypes
  <2>4. spent # k
    BY <1>2, <2>3 DEF ArgsInv, SpentIds
  <2>5. QED
    BY <2>2, <2>4 DEF ArgsInv, ArgumentsFollowTimers
<1>3. /\ para \in [TimerId -> BOOLEAN]
      /\ msgId \in Nat /\ TASK_TIMER_ID_MAX <= msgId /\ msgId <= MSG_TIMER_ID_MAX
  BY SysAssumption DEF SysInv, SysTypeOK
<1>4. QED
  BY <1>1, <1>2, <1>3

LEMMA ArgsSame ==
    ASSUME SysInv, ArgsInv, UsedShrink, UNCHANGED <<timerPool, argVars>>
    PROVE  ArgsInv'
<1>1. ArgumentsFollowTimers'
  BY DEF ArgsInv, ArgumentsFollowTimers, UsedShrink, argVars, HasArguments
<1>2. QED
  BY <1>1 DEF ArgsInv, SpentIds, FreshIds, argVars

(* The timer k of a callback is stopped, and its arguments with it. *)
LEMMA ArgsDropped ==
    ASSUME SysInv, ArgsInv, UsedShrink, NEW k \in TimerId,
           timerPool' = [timerPool EXCEPT ![k] = NULL],
           para' = [para EXCEPT ![k] = FALSE],
           UNCHANGED <<spent, msgId>>
    PROVE  ArgsInv'
<1>1. /\ timerPool'[k] = NULL /\ ~para'[k]
      /\ \A j \in TimerId : j # k => timerPool'[j] = timerPool[j] /\ para'[j] = para[j]
  BY IdTypes, ArgumentKinds
<1>2. ArgumentsFollowTimers'
  <2>1. ASSUME NEW b \in Block, block'[b].used, HasArguments(timerPool'[block'[b].id])
        PROVE  para'[block'[b].id]
    BY <1>1, <2>1, IdTypes, ArgumentKinds DEF UsedShrink, ArgsInv, ArgumentsFollowTimers
  <2>2. ASSUME NEW j \in TimerId, para'[j]
        PROVE  HasArguments(timerPool'[j]) \/ spent' = j
    BY <1>1, <2>2 DEF ArgsInv, ArgumentsFollowTimers
  <2>3. QED
    BY <2>1, <2>2 DEF ArgumentsFollowTimers, HasArguments
<1>3. SpentIds' /\ FreshIds'
  BY <1>1 DEF ArgsInv, SpentIds, FreshIds
<1>4. QED
  BY <1>2, <1>3 DEF ArgsInv

(* The timer k has expired or its task is awake; if arguments are stored, it *)
(* is a one-shot timer whose callback is called now.                        *)
LEMMA ArgsSpent ==
    ASSUME SysInv, ArgsInv, UsedShrink, NEW k \in TimerId,
           timerPool' = [timerPool EXCEPT ![k] = NULL],
           UNCHANGED <<para, msgId>>,
           \/ ~para[k] /\ UNCHANGED spent
           \/ spent = NULL /\ spent' = IF para[k] THEN k ELSE NULL
    PROVE  ArgsInv'
<1>1. /\ timerPool'[k] = NULL
      /\ \A j \in TimerId : j # k => timerPool'[j] = timerPool[j]
  BY IdTypes
<1>2. ArgumentsFollowTimers'
  <2>1. ASSUME NEW b \in Block, block'[b].used, HasArguments(timerPool'[block'[b].id])
        PROVE  para'[block'[b].id]
    BY <1>1, <2>1, IdTypes, ArgumentKinds DEF UsedShrink, ArgsInv, ArgumentsFollowTimers
  <2>2. ASSUME NEW j \in TimerId, para'[j]
        PROVE  HasArguments(timerPool'[j]) \/ spent' = j
    BY <1>1, <2>2, NullAssumption, IdTypes DEF ArgsInv, ArgumentsFollowTimers
  <2>3. QED
    BY <2>1, <2>2 DEF ArgumentsFollowTimers, HasArguments
<1>3. FreshIds'
  BY <1>1 DEF ArgsInv, FreshIds
<1>4. SpentIds'
  <2>1. CASE UNCHANGED spent
    BY <1>1, <2>1 DEF ArgsInv, SpentIds
  <2>2. CASE para[k] /\ spent' = k
    BY <1>1, <2>2, IdTypes, ArgumentKinds DEF ArgsInv, SpentIds, FreshIds
  <2>3. QED
    BY <2>1, <2>2
<1>5. QED
  BY <1>2, <1>3, <1>4 DEF ArgsInv

LEMMA StopShrinks ==
    ASSUME TableInv, NEW id, l_rtos_timer_stop(id)
    PROVE  UsedShrink
BY StopEffect DEF UsedShrink

LEMMA SleepArgs ==
    ASSUME SysInv, TimersInv, TaskIdsLeft, ArgsInv, NEW t \in Task, NEW ms \in {0, 1},
           NEW ret \in {0, 1}, SleepStep(t, ms, ret)
    PROVE  ArgsInv'
<1> DEFINE n == NextTaskTimerId
<1>1. /\ n \in TimerId /\ n < TASK_TIMER_ID_MAX
      /\ \A b \in Block : block[b].used => block[b].id # n
  BY TaskIdFresh DEF TimersInv
<1>2. l_rtos_timer_start(n, ms, 0, ret) /\ UNCHANGED argVars
  BY DEF SleepStep
<1>3. /\ timerPool'[n] = t
      /\ \A j \in TimerId : j # n => timerPool'[j] = timerPool[j]
  BY <1>1, IdTypes DEF SleepStep
<1> HIDE DEF n
<1>4. \A b \in Block :
         /\ block[b].used => block'[b] = block[b]
         /\ block'[b].used /\ ~block[b].used => block'[b] = StartedTimer(n, 0)
  BY <1>1, <1>2, StartEffect, SysAssumption DEF TimersInv
<1>5. ArgumentsFollowTimers'
  <2>1. ASSUME NEW b \in Block, block'[b].used, HasArguments(timerPool'[block'[b].id])
        PROVE  para'[block'[b].id]
    <3>1. CASE block[b].used
      BY <1>1, <1>2, <1>3, <1>4, <2>1, <3>1, IdTypes
      DEF ArgsInv, ArgumentsFollowTimers, argVars
    <3>2. CASE ~block[b].used
      BY <1>3, <1>4, <2>1, <3>2, ArgumentKinds DEF StartedTimer
    <3>3. QED
      BY <3>1, <3>2
  <2>2. ASSUME NEW j \in TimerId, para'[j]
        PROVE  HasArguments(timerPool'[j]) \/ spent' = j
    BY <1>1, <1>2, <1>3, <2>2, ArgumentKinds DEF ArgsInv, ArgumentsFollowTimers, argVars
  <2>3. QED
    BY <2>1, <2>2 DEF ArgumentsFollowTimers, HasArguments
<1>6. SpentIds' /\ FreshIds'
  BY <1>1, <1>2, <1>3, IdTypes, ArgumentKinds DEF ArgsInv, SpentIds, FreshIds, argVars
<1>7. QED
  BY <1>5, <1>6 DEF ArgsInv

LEMMA CallbackArgs ==
    ASSUME SysInv, TimersInv, CallbackIdsLeft, ArgsInv, NEW fn \in Callback,
           NEW ms \in {0, 1}, NEW rep \in Repeat, NEW ret \in {0, 1},
           CallbackStep(fn, ms, rep, ret)
    PROVE  ArgsInv'
<1> DEFINE n == NextMsgId
<1>1. /\ n \in TimerId /\ n > msgId /\ ~para[n] /\ timerPool[n] = NULL
      /\ \A b \in Block : block[b].used => block[b].id # n
  <2>1. msgId + 1 \in FreeMsgIds /\ msgId + 1 > msgId
    BY IdTypes, ArgumentKinds DEF CallbackIdsLeft, FreeMsgIds, ArgsInv, FreshIds
  <2>2. n > msgId
    BY <2>1, NextMsgIdType DEF SysInv
  <2>3. QED
    BY <2>2, CallbackIdFree DEF CallbackStep, TimersInv, ArgsInv, FreshIds
<1>2. /\ l_rtos_timer_start(n, ms, rep, ret)
      /\ msgId' = n /\ UNCHANGED spent
  BY DEF CallbackStep
<1>3. /\ timerPool'[n] = fn
      /\ para'[n] <=> ret = 1 /\ HasArguments(fn)
      /\ \A j \in TimerId : j # n => timerPool'[j] = timerPool[j] /\ para'[j] = para[j]
  BY <1>1, IdTypes, ArgumentKinds DEF CallbackStep
<1> HIDE DEF n
<1>4. \A b \in Block :
         /\ block[b].used => block'[b] = block[b]
         /\ block'[b].used /\ ~block[b].used => ret = 1 /\ block'[b] = StartedTimer(n, rep)
  BY <1>1, <1>2, StartEffect DEF TimersInv
<1>5. ArgumentsFollowTimers'
  <2>1. ASSUME NEW b \in Block, block'[b].used, HasArguments(timerPool'[block'[b].id])
        PROVE  para'[block'[b].id]
    <3>1. CASE block[b].used
      BY <1>1, <1>3, <1>4, <2>1, <3>1, IdTypes DEF ArgsInv, ArgumentsFollowTimers
    <3>2. CASE ~block[b].used
      BY <1>3, <1>4, <2>1, <3>2 DEF StartedTimer
    <3>3. QED
      BY <3>1, <3>2
  <2>2. ASSUME NEW j \in TimerId, para'[j]
        PROVE  HasArguments(timerPool'[j]) \/ spent' = j
    BY <1>2, <1>3, <2>2 DEF ArgsInv, ArgumentsFollowTimers
  <2>3. QED
    BY <2>1, <2>2 DEF ArgumentsFollowTimers, HasArguments
<1>6. SpentIds'
  BY <1>1, <1>2, <1>3, IdTypes, ArgumentKinds DEF ArgsInv, SpentIds
<1>7. FreshIds'
  BY <1>1, <1>2, <1>3, IdTypes, ArgumentKinds DEF ArgsInv, FreshIds
<1>8. QED
  BY <1>5, <1>6, <1>7 DEF ArgsInv

LEMMA HandlerArgs ==
    ASSUME SysInv, TimersInv, ArgsInv, SpentRuns, NEW m \in Msg, NEW c \in HandlerTimers(m),
           HandlerStep(m, c)
    PROVE  ArgsInv'
<1>1. UsedShrink
  BY HandlerEffect DEF HandlerStep, HandlesTimer, TimersInv, UsedShrink
<1>2. spent = NULL
  BY DEF HandlerStep, MainLoop, SpentRuns
<1>3. UNCHANGED <<para, msgId>>
  BY DEF HandlerStep
<1>4. UNCHANGED <<timerPool, spent>> => ArgsInv'
  BY <1>1, <1>3, ArgsSame DEF argVars
<1>5. CASE c = NULL
  BY <1>4, <1>5 DEF HandlerStep, HandlesTimer
<1>6. CASE c # NULL
  <2> DEFINE id == block[c].id
  <2>1. id \in TimerId
    BY <1>6, HandlerFinds, IdTypes
  <2>2. ASSUME NEW t \in Task, id < TASK_TIMER_ID_MAX, EventWakes(id, t) \/ EventLate(id, t)
        PROVE  ArgsInv'
    BY <1>1, <1>3, <2>1, <2>2, ArgumentKinds, ArgsSpent DEF EventWakes, EventLate
  <2>3. ASSUME NEW fn, EventCalls(id, fn, block[c].repeat), block[c].repeat = 0
        PROVE  ArgsInv'
    <3>1. /\ timerPool' = [timerPool EXCEPT ![id] = NULL]
          /\ spent' = IF para[id] THEN id ELSE NULL
      BY <2>3 DEF EventCalls
    <3> HIDE DEF id
    <3>2. QED
      BY <1>1, <1>2, <1>3, <2>1, <3>1, ArgsSpent
  <2>4. ASSUME NEW fn, EventCalls(id, fn, block[c].repeat), block[c].repeat # 0
        PROVE  ArgsInv'
    BY <1>2, <1>4, <2>4 DEF EventCalls
  <2>5. QED
    BY <1>6, <2>2, <2>3, <2>4, HandlerCases
<1>7. QED
  BY <1>5, <1>6

LEMMA StepArgs ==
    ASSUME SysInv, TimersInv, ArgsInv, SpentRuns, TaskIdsLeft, CallbackIdsLeft, StepKinds
    PROVE  ArgsInv'
<1>1. CASE QuietStep /\ UNCHANGED <<para, spent>>
  BY <1>1, ArgsSame DEF QuietStep, timerVars, UsedShrink, argVars
<1>2. CASE QuietStep /\ spent # NULL /\ para' = [para EXCEPT ![spent] = FALSE] /\ spent' = NULL
  <2>1. /\ UNCHANGED <<block, timerPool, msgId>>
        /\ spent \in TimerId /\ timerPool[spent] = NULL
    BY <1>2 DEF QuietStep, timerVars, ArgsInv, SpentIds
  <2>2. \A j \in TimerId : para'[j] <=> para[j] /\ j # spent
    BY <1>2, <2>1, ArgumentKinds
  <2>3. ArgumentsFollowTimers'
    BY <1>2, <2>1, <2>2, IdTypes, ArgumentKinds
    DEF ArgsInv, ArgumentsFollowTimers, HasArguments
  <2>4. SpentIds' /\ FreshIds'
    BY <1>2, <2>1, <2>2 DEF ArgsInv, SpentIds, FreshIds
  <2>5. QED
    BY <2>3, <2>4 DEF ArgsInv
<1>3. ASSUME NEW k \in TimerId, DropStep(k)
      PROVE  ArgsInv'
  BY <1>3, ArgsDropped, StopShrinks DEF DropStep, TimersInv
<1>4. ASSUME NEW t \in Task, WakeStep(t)
      PROVE  ArgsInv'
  <2>1. /\ taskTimerPool[t] \in TimerId /\ ~para[taskTimerPool[t]]
    BY <1>4, SleepersId, ArgumentKinds DEF WakeStep, TimersInv
  <2>2. UsedShrink
    BY <1>4, StopShrinks DEF WakeStep, WaitEndsByMessage, TimersInv
  <2>3. QED
    BY <1>4, <2>1, <2>2, ArgsSpent DEF WakeStep, WaitEndsByMessage, argVars
<1>4a. ASSUME NEW t \in Task, LeaveStep(t)
       PROVE  ArgsInv'
  BY <1>4a, ArgsSame DEF LeaveStep, timerVars, UsedShrink
<1>5. CASE DriverStep
  BY <1>5, ArgsSame DEF DriverStep, UsedShrink
<1>6. CASE BackgroundStep
  <2>1. UsedShrink
    BY <1>6, BackgroundEffect DEF BackgroundStep, UsedShrink, TimersInv, SysInv, SysTypeOK
  <2>2. QED
    BY <1>6, <2>1, ArgsSame DEF BackgroundStep
<1>7. QED
  BY <1>1, <1>2, <1>3, <1>4, <1>4a, <1>5, <1>6, SleepArgs, CallbackArgs, HandlerArgs
  DEF StepKinds, QuietStep

LEMMA InitArgs == SysInit => ArgsInv /\ SpentRuns
BY SysAssumption, ActorAssumption
DEF SysInit, TimerInit, ArgsInv, ArgumentsFollowTimers, SpentIds, FreshIds, SpentRuns

LEMMA NextArgs ==
    /\ SchedulerInv /\ ArgsInv /\ SpentRuns /\ TaskIdsLeft /\ CallbackIdsLeft
    /\ [SysNext]_sysVars
    => ArgsInv' /\ SpentRuns'
BY SysSteps, StepArgs, NextSpent DEF SchedulerInv

(* A callback is never called without its arguments, and arguments are       *)
(* stored no longer than the timer and its callback need them, until one of  *)
(* the two counters of ids has gone round.                                  *)
THEOREM ArgumentsKept ==
    SysSpec /\ []TaskIdsLeft /\ []CallbackIdsLeft => []ArgumentsFollowTimers
<1>1. ArgsInv => ArgumentsFollowTimers
  BY DEF ArgsInv
<1>2. QED
  BY <1>1, InitScheduler, NextScheduler, InitArgs, NextArgs, PTL DEF SysSpec

=============================================================================
