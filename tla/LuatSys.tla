------------------------------ MODULE LuatSys ------------------------------
(***************************************************************************)
(* The Lua scheduler of script/corelib/sys.lua on top of LuatTimer.        *)
(*                                                                         *)
(* One OS thread runs everything in Lua: the main loop sys.run, the task   *)
(* coroutines and the callback functions.  stack is what that thread is    *)
(* executing: empty in the main loop, else the main chunk, a task or a     *)
(* callback on top.  Code runs until it yields or returns; between two of  *)
(* its calls into sys, the timer daemon and the drivers may step.          *)
(*                                                                         *)
(* What user code does is not fixed: whatever is on top of the stack may   *)
(* make any call of the sys interface next, resume a task itself, yield, or *)
(* raise an error, up to MaxCalls times in all.                             *)
(***************************************************************************)
EXTENDS LuatTimer

CONSTANTS
    Task,               \* coroutines
    Fn,                 \* callback functions, each with its arguments
    ArgFn,              \* the callbacks that have arguments
    Traceback,          \* what an error in a task leaves; each is a callback,
                        \* assert(false, traceback)
    Topic,              \* message ids of publish and subscribe
    Main,               \* the main chunk, which ends in sys.run()
    TASK_TIMER_ID_MAX,
    MSG_TIMER_ID_MAX,
    MaxCalls            \* bound on the calls user code and drivers make

ASSUME SysAssumption ==
    /\ TASK_TIMER_ID_MAX \in Nat /\ MSG_TIMER_ID_MAX \in Nat
    /\ TASK_TIMER_ID_MAX > 1 /\ MSG_TIMER_ID_MAX > TASK_TIMER_ID_MAX
    /\ TimerId = 0 .. MSG_TIMER_ID_MAX
    /\ ArgFn \subseteq Fn
    /\ 0 \in Repeat
    /\ MaxCalls \in Nat

(* Coroutines, functions and the main chunk are different Lua values, and   *)
(* nil is none of them.                                                     *)
ASSUME ActorAssumption ==
    /\ Task \cap (Fn \cup Traceback) = {}
    /\ Fn \cap Traceback = {}
    /\ Main \notin Task \cup Fn \cup Traceback
    /\ NULL \notin Task \cup Fn \cup Traceback \cup Topic
    /\ NULL \notin [fn : Fn \cup Traceback, rep : Repeat \cup {NULL}]

VARIABLES
    taskTimerId,    \* the last task timer id given out
    msgId,          \* the last callback timer id given out
    timerPool,      \* who waits for a timer id: a task, a callback or nobody
    taskTimerPool,  \* the timer id a task waits for
    para,           \* are the callback's arguments stored under this id?
    subscribers,    \* topic -> tasks and callbacks
    messageQueue,   \* published topics, oldest first
    tmpt,           \* the subscribers dispatch has still to call
    phase,          \* where safeRun is, "dispatch" or "receive", or "ended"
    stack,          \* what runs now, innermost last
    tstate,         \* what a task is doing
    waitTopic,      \* the topic a task in waitUntil or waitUntilMsg waits for
    starting,       \* a timerAdvStart between its rtos calls, or NULL; with
                    \* rep = NULL a timerStopAll, or for a traceback a wrapper
                    \* about to start the timer for its assert
    spent,          \* the one-shot timer whose callback runs, or NULL
    abandoned,      \* history: ids of timers whose task was resumed without
                    \* arguments, on which sys.wait returns and stops nothing
    calls           \* calls made so far

poolVars == <<taskTimerId, msgId, timerPool, taskTimerPool, para>>
msgVars == <<subscribers, messageQueue, tmpt>>
runVars == <<phase, stack, tstate, waitTopic, starting, spent, abandoned>>
sysVars == <<timerVars, poolVars, msgVars, runVars, calls>>

(* sleep: in sys.wait; until: in sys.wait called by waitUntil; msg: in a    *)
(* bare yield, its own or that of waitUntil without a timeout and of        *)
(* waitUntilMsg.                                                            *)
TimedWait == {"sleep", "until"}
Suspended == TimedWait \cup {"msg"}
TaskState == Suspended \cup {"new", "active", "dead"}

Callback == Fn \cup Traceback
Actor == Task \cup Callback \cup {Main}

SysTypeOK ==
    /\ TimerTypeOK
    /\ taskTimerId \in 0 .. TASK_TIMER_ID_MAX - 1
    /\ msgId \in TASK_TIMER_ID_MAX .. MSG_TIMER_ID_MAX
    /\ timerPool \in [TimerId -> Task \cup Callback \cup {NULL}]
    /\ taskTimerPool \in [Task -> TimerId \cup {NULL}]
    /\ para \in [TimerId -> BOOLEAN]
    /\ subscribers \in [Topic -> SUBSET (Task \cup Fn)]
    /\ messageQueue \in Seq(Topic)
    /\ tmpt \in Seq(Task \cup Fn)
    /\ phase \in {"dispatch", "receive", "ended"}
    /\ stack \in Seq(Actor)
    /\ tstate \in [Task -> TaskState]
    /\ waitTopic \in [Task -> Topic \cup {NULL}]
    /\ starting \in [fn : Callback, rep : Repeat \cup {NULL}] \cup {NULL}
    /\ spent \in TimerId \cup {NULL}
    /\ abandoned \subseteq TimerId \cup {NULL}
    /\ calls \in 0 .. MaxCalls

Top == stack[Len(stack)]
Push(x) == stack' = Append(stack, x)
Pop == stack' = SubSeq(stack, 1, Len(stack) - 1)

(* User code may make its next call: it runs, it is not inside a call, and *)
(* the bound is not reached.                                               *)
UserCall ==
    /\ stack # <<>> /\ starting = NULL
    /\ Top \notin Traceback
    /\ calls < MaxCalls
    /\ calls' = calls + 1

-----------------------------------------------------------------------------
(* sys.wait, sys.waitUntil and sys.waitUntilMsg. *)

(* The loop that picks an id: its test for an id in use looks the id up in  *)
(* taskTimerPool, whose keys are coroutines, so it always ends at once.     *)
NextTaskTimerId ==
    IF taskTimerId >= TASK_TIMER_ID_MAX - 1 THEN 0 ELSE taskTimerId + 1

(* kind is "sleep" for sys.wait(ms), "until" for sys.waitUntil(topic, ms).  *)
(* When the timer cannot be started the call returns at once, and leaves    *)
(* its entries in the two pools.                                            *)
Wait(t, kind, topic, ms) ==
    /\ UserCall /\ Top = t
    /\ taskTimerId' = NextTaskTimerId
    /\ taskTimerPool' = [taskTimerPool EXCEPT ![t] = NextTaskTimerId]
    /\ timerPool' = [timerPool EXCEPT ![NextTaskTimerId] = t]
    /\ \/ /\ l_rtos_timer_start(NextTaskTimerId, ms, 0, 1)
          /\ tstate' = [tstate EXCEPT ![t] = kind]
          /\ waitTopic' = [waitTopic EXCEPT ![t] = topic]
          /\ subscribers' = IF topic = NULL THEN subscribers
                            ELSE [subscribers EXCEPT ![topic] = @ \cup {t}]
          /\ Pop
       \/ /\ l_rtos_timer_start(NextTaskTimerId, ms, 0, 0)
          /\ UNCHANGED <<tstate, waitTopic, subscribers, stack>>
    /\ abandoned' = abandoned \ {NextTaskTimerId}
    /\ UNCHANGED <<daemon, bus, msgId, para, messageQueue, tmpt, phase, starting, spent>>

WaitUntilMsg(t, topic) ==
    /\ UserCall /\ Top = t
    /\ tstate' = [tstate EXCEPT ![t] = "msg"]
    /\ waitTopic' = [waitTopic EXCEPT ![t] = topic]
    /\ subscribers' = [subscribers EXCEPT ![topic] = @ \cup {t}]
    /\ Pop
    /\ UNCHANGED <<timerVars, poolVars, messageQueue, tmpt, phase, starting, spent, abandoned>>

(* A task yields by itself: only a resume by other user code ends this.     *)
Yield(t) ==
    /\ UserCall /\ Top = t
    /\ tstate' = [tstate EXCEPT ![t] = "msg"]
    /\ Pop
    /\ UNCHANGED <<timerVars, poolVars, msgVars, phase, waitTopic, starting, spent, abandoned>>

(* Mutant: waitUntil does not unsubscribe. *)
CoresumeSubscribed(t) ==
    /\ tstate' = [tstate EXCEPT ![t] = "active"]
    /\ waitTopic' = [waitTopic EXCEPT ![t] = NULL]
    /\ UNCHANGED subscribers
    /\ Push(t)

(* sys.coresume of a suspended task: it runs again, and on its way out of  *)
(* waitUntil it unsubscribes.                                              *)
Coresume(t) ==
    /\ tstate' = [tstate EXCEPT ![t] = "active"]
    /\ waitTopic' = [waitTopic EXCEPT ![t] = NULL]
    /\ subscribers' = IF waitTopic[t] = NULL THEN subscribers
                      ELSE [subscribers EXCEPT ![waitTopic[t]] = @ \ {t}]
    /\ Push(t)

(* sys.taskInit: the new task runs at once, inside its creator. *)
TaskInit(t) ==
    /\ UserCall
    /\ tstate[t] = "new"
    /\ tstate' = [tstate EXCEPT ![t] = "active"]
    /\ Push(t)
    /\ UNCHANGED <<timerVars, poolVars, msgVars, phase, waitTopic, starting, spent, abandoned>>

(* A task function or a callback returns, or main.lua reaches sys.run.  The *)
(* arguments of a one-shot timer are dropped when its callback has returned. *)
Return ==
    /\ stack # <<>> /\ starting = NULL
    /\ Top \notin Traceback
    /\ tstate' = IF Top \in Task THEN [tstate EXCEPT ![Top] = "dead"] ELSE tstate
    /\ Pop
    /\ IF Len(stack) = 1 /\ spent # NULL
       THEN para' = [para EXCEPT ![spent] = FALSE] /\ spent' = NULL
       ELSE UNCHANGED <<para, spent>>
    /\ UNCHANGED <<timerVars, taskTimerId, msgId, timerPool, taskTimerPool,
                   msgVars, phase, waitTopic, starting, abandoned, calls>>

-----------------------------------------------------------------------------
(* Callback timers: sys.timerStop, sys.timerStopAll, sys.timerStart and     *)
(* sys.timerLoopStart.                                                      *)

HasArguments(fn) == fn \in ArgFn \cup Traceback

(* Mutant: the entry is not compared with the function. *)
MatchingAny(fn) == {k \in TimerId : timerPool[k] # NULL}

(* The entries timerStop(fn, args) matches; cmpTable finds no arguments     *)
(* stored under the id of a timer whose start failed.                       *)
Matching(fn) ==
    {k \in TimerId : timerPool[k] = fn /\ (HasArguments(fn) => para[k])}

(* Mutant: the arguments stay behind. *)
DropTimerOnly(k) ==
    /\ l_rtos_timer_stop(k)
    /\ timerPool' = [timerPool EXCEPT ![k] = NULL]
    /\ UNCHANGED para

DropTimer(k) ==
    /\ l_rtos_timer_stop(k)
    /\ timerPool' = [timerPool EXCEPT ![k] = NULL]
    /\ para' = [para EXCEPT ![k] = FALSE]

timerStopBy(fn) ==
    \/ \E k \in Matching(fn) : DropTimer(k)
    \/ Matching(fn) = {} /\ UNCHANGED <<block, timers, orphans, timerPool, para>>

(* timerStop by function, or by an id that timerStart returned; that of an   *)
(* assert is not returned to anybody, and no script is taken to keep an id   *)
(* until the counter has gone round and given it to an assert.               *)
SysTimerStop(fn) ==
    /\ UserCall
    /\ timerStopBy(fn)
    /\ UNCHANGED <<daemon, bus, taskTimerId, msgId, taskTimerPool, msgVars, runVars>>

SysTimerStopId(k) ==
    /\ UserCall
    /\ timerPool[k] \notin Traceback
    /\ DropTimer(k)
    /\ UNCHANGED <<daemon, bus, taskTimerId, msgId, taskTimerPool, msgVars, runVars>>

(* timerStopAll stops every timer of a callback, one after the other. *)
SysTimerStopAll(fn) ==
    /\ UserCall
    /\ starting' = [fn |-> fn, rep |-> NULL]
    /\ UNCHANGED <<timerVars, poolVars, msgVars, phase, stack, tstate, waitTopic, spent,
                   abandoned>>

StopNextOfAll ==
    /\ starting # NULL /\ starting.rep = NULL /\ starting.fn \in Fn
    /\ \/ /\ \E k \in TimerId : timerPool[k] = starting.fn /\ DropTimer(k)
          /\ UNCHANGED starting
       \/ /\ \A k \in TimerId : timerPool[k] # starting.fn
          /\ starting' = NULL
          /\ UNCHANGED <<block, timers, orphans, timerPool, para>>
    /\ UNCHANGED <<daemon, bus, taskTimerId, msgId, taskTimerPool, msgVars,
                   phase, stack, tstate, waitTopic, spent, abandoned, calls>>

(* timerAdvStart first stops the identical timer ... *)
TimerAdvStart(fn, rep) ==
    /\ UserCall
    /\ timerStopBy(fn)
    /\ starting' = [fn |-> fn, rep |-> rep]
    /\ UNCHANGED <<daemon, bus, taskTimerId, msgId, taskTimerPool, msgVars,
                   phase, stack, tstate, waitTopic, spent, abandoned>>

(* Mutant: the loop does not look whether the id is in use. *)
AnyMsgIds == TASK_TIMER_ID_MAX + 1 .. MSG_TIMER_ID_MAX

(* ... then takes the next free id and starts the timer. *)
FreeMsgIds ==
    {k \in TASK_TIMER_ID_MAX + 1 .. MSG_TIMER_ID_MAX : timerPool[k] = NULL}

(* Mutant: callback timers take their ids from the counter of the tasks. *)
NextMsgIdOfTasks == taskTimerId + 1

NextMsgId ==
    LET later == {k \in FreeMsgIds : k > msgId}
    IN  First(IF later # {} THEN later ELSE FreeMsgIds)

TimerAdvStarted(ms, ret) ==
    /\ starting # NULL /\ starting.rep # NULL /\ FreeMsgIds # {}
    /\ msgId' = NextMsgId
    /\ timerPool' = [timerPool EXCEPT ![NextMsgId] = starting.fn]
    /\ l_rtos_timer_start(NextMsgId, ms, starting.rep, ret)
    /\ para' = [para EXCEPT ![NextMsgId] = @ \/ (ret = 1 /\ HasArguments(starting.fn))]
    /\ starting' = NULL
    /\ UNCHANGED <<daemon, bus, taskTimerId, taskTimerPool, msgVars,
                   phase, stack, tstate, waitTopic, spent, abandoned, calls>>

-----------------------------------------------------------------------------
(* Errors in user code, unsubscribe of a topic that nobody subscribes to    *)
(* among them.                                                              *)

(* coresume gives a failure to wrapper, which starts a timer for assert. *)
Fails(traceBack) == starting' = [fn |-> traceBack, rep |-> NULL]

wrapper ==
    /\ starting # NULL /\ starting.rep = NULL /\ starting.fn \in Traceback
    /\ timerStopBy(starting.fn)
    /\ starting' = [starting EXCEPT !.rep = 0]
    /\ UNCHANGED <<daemon, bus, taskTimerId, msgId, taskTimerPool, msgVars,
                   phase, stack, tstate, waitTopic, spent, abandoned, calls>>

(* One in a task ends its coroutine. *)
TaskFails(t, traceBack) ==
    /\ UserCall /\ Top = t
    /\ tstate' = [tstate EXCEPT ![t] = "dead"]
    /\ Pop
    /\ Fails(traceBack)
    /\ UNCHANGED <<timerVars, poolVars, msgVars, phase, waitTopic, spent, abandoned>>

EndsLoop ==
    /\ phase' = "ended"
    /\ stack' = <<>>
    /\ UNCHANGED <<timerVars, poolVars, msgVars, tstate, waitTopic, starting, spent, abandoned>>

(* One in a callback or in the main chunk ends the main loop at once. *)
CallbackFails == UserCall /\ Top \notin Task /\ EndsLoop

AssertFails ==
    /\ stack # <<>> /\ Top \in Traceback
    /\ EndsLoop
    /\ UNCHANGED calls

-----------------------------------------------------------------------------
(* coresume by dispatch and by user code, which may resume any task. *)

(* Mutants: the end of sys.wait does not stop the timer, or does nothing. *)
WaitEndsTimerRuns(t) ==
    /\ timerPool' = [timerPool EXCEPT ![taskTimerPool[t]] = NULL]
    /\ taskTimerPool' = [taskTimerPool EXCEPT ![t] = NULL]
    /\ UNCHANGED <<block, timers, orphans>>
WaitEndsAllStays(t) ==
    UNCHANGED <<block, timers, orphans, timerPool, taskTimerPool>>

(* The end of sys.wait when the task is resumed by a message. *)
WaitEndsByMessage(t) ==
    /\ l_rtos_timer_stop(taskTimerPool[t])
    /\ timerPool' = [timerPool EXCEPT ![taskTimerPool[t]] = NULL]
    /\ taskTimerPool' = [taskTimerPool EXCEPT ![t] = NULL]

(* coroutine.resume fails if the task runs or is dead. *)
CoresumeFails(t) ==
    /\ tstate[t] \in {"active", "dead"}
    /\ \E traceBack \in Traceback : Fails(traceBack)
    /\ UNCHANGED <<subscribers, stack, tstate, waitTopic>>

CoresumeWithArguments(t) ==
    \/ /\ tstate[t] \in TimedWait
       /\ WaitEndsByMessage(t)
       /\ Coresume(t)
       /\ UNCHANGED <<daemon, bus, taskTimerId, msgId, para, starting>>
    \/ /\ tstate[t] = "msg"
       /\ Coresume(t)
       /\ UNCHANGED <<timerVars, poolVars, starting>>
    \/ /\ CoresumeFails(t)
       /\ UNCHANGED <<timerVars, poolVars>>

SysCoresume(t) ==
    /\ UserCall
    /\ CoresumeWithArguments(t)
    /\ UNCHANGED <<messageQueue, tmpt, phase, spent, abandoned>>

(* Without arguments: sys.wait takes this for the end of its time, and the  *)
(* timer and the entries in the pools stay.                                 *)
SysCoresumeBare(t) ==
    /\ UserCall
    /\ tstate[t] \in TimedWait
    /\ Coresume(t)
    /\ abandoned' = abandoned \cup {taskTimerPool[t]}
    /\ UNCHANGED <<timerVars, poolVars, messageQueue, tmpt, phase, starting, spent>>

-----------------------------------------------------------------------------
(* publish, subscribe and unsubscribe. *)

Publish(topic) ==
    /\ UserCall
    /\ messageQueue' = Append(messageQueue, topic)
    /\ UNCHANGED <<timerVars, poolVars, subscribers, tmpt, runVars>>

Subscribe(topic, fn) ==
    /\ UserCall
    /\ subscribers' = [subscribers EXCEPT ![topic] = @ \cup {fn}]
    /\ UNCHANGED <<timerVars, poolVars, messageQueue, tmpt, runVars>>

Unsubscribe(topic, fn) ==
    /\ UserCall
    /\ fn \in subscribers[topic]
    /\ subscribers' = [subscribers EXCEPT ![topic] = @ \ {fn}]
    /\ UNCHANGED <<timerVars, poolVars, messageQueue, tmpt, runVars>>

-----------------------------------------------------------------------------
(* The main loop: dispatch, then rtos.receive. *)

MainLoop(ph) == stack = <<>> /\ starting = NULL /\ phase = ph

(* dispatch takes the oldest message and copies its subscribers. *)
TakeMessage ==
    /\ MainLoop("dispatch") /\ tmpt = <<>> /\ messageQueue # <<>>
    /\ messageQueue' = Tail(messageQueue)
    /\ LET subs == subscribers[Head(messageQueue)]
       IN  \E f \in [1 .. Cardinality(subs) -> subs] :
              /\ \A x \in subs : \E k \in DOMAIN f : f[k] = x
              /\ tmpt' = f
    /\ UNCHANGED <<timerVars, poolVars, subscribers, runVars, calls>>

(* ... and calls them one by one.                                           *)
CallSubscriber ==
    /\ MainLoop("dispatch") /\ tmpt # <<>>
    /\ tmpt' = Tail(tmpt)
    /\ \/ /\ Head(tmpt) \in Fn
          /\ Push(Head(tmpt))
          /\ UNCHANGED <<timerVars, poolVars, subscribers, tstate, waitTopic, starting>>
       \/ Head(tmpt) \in Task /\ CoresumeWithArguments(Head(tmpt))
    /\ UNCHANGED <<messageQueue, phase, spent, abandoned, calls>>

(* Mutant: safeRun goes on to rtos.receive after one message. *)
DispatchDoneEarly ==
    /\ MainLoop("dispatch") /\ tmpt = <<>>
    /\ phase' = "receive"
    /\ UNCHANGED <<timerVars, poolVars, msgVars, stack, tstate, waitTopic,
                   starting, spent, abandoned, calls>>

DispatchDone ==
    /\ MainLoop("dispatch") /\ tmpt = <<>> /\ messageQueue = <<>>
    /\ phase' = "receive"
    /\ UNCHANGED <<timerVars, poolVars, msgVars, stack, tstate, waitTopic,
                   starting, spent, abandoned, calls>>

(* safeRun on the timer message (id, rep) that rtos.receive returned. *)
TimerEvent(id, rep) ==
    \/ /\ timerPool[id] = NULL
       /\ UNCHANGED <<timerPool, taskTimerPool, spent, subscribers, stack,
                      tstate, waitTopic, starting>>
    \/ /\ timerPool[id] # NULL /\ id < TASK_TIMER_ID_MAX
       /\ timerPool' = [timerPool EXCEPT ![id] = NULL]
       /\ LET t == timerPool[id] IN
          \/ /\ taskTimerPool[t] = id
             /\ taskTimerPool' = [taskTimerPool EXCEPT ![t] = NULL]
             /\ \/ tstate[t] \in Suspended /\ Coresume(t) /\ UNCHANGED starting
                \/ CoresumeFails(t)
          \/ /\ taskTimerPool[t] # id
             /\ UNCHANGED <<taskTimerPool, subscribers, stack, tstate, waitTopic, starting>>
       /\ UNCHANGED spent
    \/ /\ timerPool[id] # NULL /\ id >= TASK_TIMER_ID_MAX
       /\ timerPool' = IF rep = 0 THEN [timerPool EXCEPT ![id] = NULL] ELSE timerPool
       /\ spent' = IF rep = 0 /\ para[id] THEN id ELSE NULL
       /\ Push(timerPool[id])
       /\ UNCHANGED <<taskTimerPool, subscribers, tstate, waitTopic, starting>>

ReceiveTimer ==
    /\ MainLoop("receive")
    /\ \E m \in Msg \ {DriverMsg} :
          /\ luat_msgbus_get(m)
          /\ \E t \in HandlerTimers(m) :
                /\ l_timer_handler(t)
                /\ IF t = NULL
                   THEN UNCHANGED <<timerPool, taskTimerPool, spent, subscribers,
                                    stack, tstate, waitTopic, starting>>
                   ELSE TimerEvent(block[t].id, block[t].repeat)
    /\ phase' = "dispatch"
    /\ UNCHANGED <<daemon, taskTimerId, msgId, para, messageQueue, tmpt,
                   abandoned, calls>>

(* A driver's handler publishes a message from inside rtos.receive. *)
ReceiveDriver(topic) ==
    /\ MainLoop("receive")
    /\ luat_msgbus_get(DriverMsg)
    /\ messageQueue' = Append(messageQueue, topic)
    /\ phase' = "dispatch"
    /\ UNCHANGED <<block, timers, orphans, daemon, poolVars, subscribers, tmpt,
                   stack, tstate, waitTopic, starting, spent, abandoned, calls>>

(* A driver interrupt; drivers share the bound on calls. *)
SysDriverPosts ==
    /\ calls < MaxCalls
    /\ calls' = calls + 1
    /\ DriverPosts
    /\ UNCHANGED <<poolVars, msgVars, runVars>>

SysDaemon == Daemon /\ UNCHANGED <<poolVars, msgVars, runVars, calls>>
SysOrphan ==
    /\ \E o \in orphans : OrphanExpires(o)
    /\ UNCHANGED <<poolVars, msgVars, runVars, calls>>

-----------------------------------------------------------------------------
TaskCall(t) ==
    \/ \E ms \in {0, 1} : Wait(t, "sleep", NULL, ms)
    \/ \E topic \in Topic, ms \in {0, 1} : Wait(t, "until", topic, ms)
    \/ \E topic \in Topic : WaitUntilMsg(t, topic)
    \/ Yield(t)

AnyCall ==
    \/ \E t \in Task : TaskInit(t) \/ SysCoresume(t) \/ SysCoresumeBare(t)
    \/ \E fn \in Fn : SysTimerStop(fn) \/ SysTimerStopAll(fn)
    \/ \E k \in TASK_TIMER_ID_MAX + 1 .. MSG_TIMER_ID_MAX : SysTimerStopId(k)
    \/ \E fn \in Fn, rep \in Repeat : TimerAdvStart(fn, rep)
    \/ \E topic \in Topic : Publish(topic)
    \/ \E topic \in Topic, fn \in Fn : Subscribe(topic, fn)
    \/ \E topic \in Topic, fn \in Fn : Unsubscribe(topic, fn)
    \/ \E t \in Task, traceBack \in Traceback : TaskFails(t, traceBack)
    \/ CallbackFails

SafeRun ==
    \/ TakeMessage
    \/ CallSubscriber
    \/ DispatchDone
    \/ ReceiveTimer
    \/ \E topic \in Topic : ReceiveDriver(topic)

(* Code on the stack that is inside a call, or makes no further one. *)
Proceed ==
    \/ Return
    \/ \E ms \in {0, 1}, ret \in {0, 1} : TimerAdvStarted(ms, ret)
    \/ StopNextOfAll
    \/ wrapper
    \/ AssertFails

SysInit ==
    /\ TimerInit
    /\ taskTimerId = 0
    /\ msgId = TASK_TIMER_ID_MAX
    /\ timerPool = [k \in TimerId |-> NULL]
    /\ taskTimerPool = [t \in Task |-> NULL]
    /\ para = [k \in TimerId |-> FALSE]
    /\ subscribers = [topic \in Topic |-> {}]
    /\ messageQueue = <<>>
    /\ tmpt = <<>>
    /\ phase = "dispatch"
    /\ stack = <<Main>>
    /\ tstate = [t \in Task |-> "new"]
    /\ waitTopic = [t \in Task |-> NULL]
    /\ starting = NULL
    /\ spent = NULL
    /\ abandoned = {}
    /\ calls = 0

SysNext ==
    \/ \E t \in Task : TaskCall(t)
    \/ AnyCall
    \/ Proceed
    \/ SafeRun
    \/ SysDriverPosts
    \/ SysDaemon
    \/ SysOrphan

SysSpec == SysInit /\ [][SysNext]_sysVars

(* The Lua task and the timer daemon are threads that run whenever they    *)
(* can, and a FreeRTOS timer that is armed expires.  User code is assumed  *)
(* to return or yield in the end.                                          *)
FairSysSpec ==
    /\ SysSpec
    /\ WF_sysVars(SafeRun)
    /\ WF_sysVars(Proceed)
    /\ WF_sysVars(SysDaemon)

-----------------------------------------------------------------------------
(* Properties. *)

(* The timer a task sleeps on is running, or expired with its message on    *)
(* the way.                                                                 *)
WakeupOf(t) ==
    \E b \in Block :
        /\ block[b].used /\ block[b].id = taskTimerPool[t]
        /\ block[b].armed \/ Owed(b)

HasWakeup(t) ==
    /\ taskTimerPool[t] # NULL
    /\ timerPool[taskTimerPool[t]] = t
    /\ WakeupOf(t)
Asleep(t) == tstate[t] \in TimedWait

(* No task is left asleep without a wake-up to come, whatever mix of         *)
(* timeouts, messages, stops, restarts and failed starts there was: only an  *)
(* expiry that meets a full bus can take it away.                            *)
OnlyFullBusLosesWakeup ==
    [][\A t \in Task :
         /\ Asleep(t) => HasWakeup(t)
         /\ Len(bus) < BusLen
         => (Asleep(t)' => HasWakeup(t)')]_sysVars

(* Two sleeping tasks never share a timer id. *)
TaskTimersDistinct ==
    \A t, u \in Task :
        /\ tstate[t] \in TimedWait /\ tstate[u] \in TimedWait
        /\ taskTimerPool[t] = taskTimerPool[u]
        => t = u

(* The pools make safeRun resume a task only where it sleeps on that timer,  *)
(* not in a later waitUntilMsg and not when it is dead, unless the wait was  *)
(* ended by a resume without arguments.                                      *)
TimersResumeSleepers ==
    \A t \in Task : \A k \in (0 .. TASK_TIMER_ID_MAX - 1) \ abandoned :
        /\ timerPool[k] = t /\ taskTimerPool[t] = k
        /\ \E b \in Block : block[b].used /\ block[b].id = k
        => tstate[t] \in TimedWait

(* A timer wakes a task only after the timer of that very wait expired, not *)
(* on a message left over from an earlier wait or another timer.            *)
TimerWakesOnTime ==
    [][\A t \in Task :
         /\ tstate[t] \in TimedWait /\ tstate'[t] = "active"
         /\ phase = "receive"
         => \E b \in Block : /\ block[b].used /\ ~block[b].armed
                             /\ block[b].id = taskTimerPool[t]]_sysVars

(* Every task that dispatch has copied is still suspended when its turn     *)
(* comes, although the subscribers before it ran arbitrary code, unless that *)
(* code resumed this very task; otherwise coresume fails, and wrapper starts *)
(* the timer that ends the main loop.                                        *)
CopySuspended(t) ==
    (\E k \in 1 .. Len(tmpt) : tmpt[k] = t) => tstate[t] \in Suspended

ResumedByUser(t) == SysCoresume(t) \/ SysCoresumeBare(t)

CopiedTasksSuspended ==
    [][\A t \in Task :
         CopySuspended(t) /\ ~ResumedByUser(t) => CopySuspended(t)']_sysVars

(* No timer runs below that Lua has forgotten: each has an owner in          *)
(* timerPool, a callback or a task that sleeps on it, unless that task's     *)
(* wait was ended by a resume without arguments.                             *)
TimersHaveOwners ==
    \A b \in Block : block[b].used =>
        LET owner == timerPool[block[b].id] IN
        \/ owner \in Callback
        \/ owner \in Task
             /\ \/ block[b].id \in abandoned
                \/ tstate[owner] \in TimedWait /\ taskTimerPool[owner] = block[b].id

(* The arguments of a callback are stored as long as its timer can fire, or *)
(* the callback would be called without them, and no longer.                *)
ArgumentsFollowTimers ==
    /\ \A b \in Block : block[b].used /\ HasArguments(timerPool[block[b].id]) =>
          para[block[b].id]
    /\ \A k \in TimerId : para[k] => HasArguments(timerPool[k]) \/ spent = k

(* A failed coroutine is not forgotten: its wrapper is about to start the    *)
(* timer for assert, or that timer runs or has expired, whatever else is     *)
(* started, stopped, reused and fails meanwhile; only a full bus, or a start *)
(* of this timer that fails, the first or a later one, loses the error.      *)
ErrorInHand(traceBack) ==
    \/ starting # NULL /\ starting.fn = traceBack
    \/ \E b \in Block :
          /\ block[b].used /\ timerPool[block[b].id] = traceBack
          /\ block[b].armed \/ Owed(b)

Reported(traceBack) == phase = "ended" \/ (stack # <<>> /\ Top = traceBack)

StartOfAssertFails(traceBack) ==
    /\ starting # NULL /\ starting.fn = traceBack
    /\ \E ms \in {0, 1} : TimerAdvStarted(ms, 0)

OnlyFullBusLosesError ==
    [][\A traceBack \in Traceback :
         /\ ErrorInHand(traceBack) /\ Len(bus) < BusLen
         /\ ~StartOfAssertFails(traceBack)
         => ErrorInHand(traceBack)' \/ Reported(traceBack)']_sysVars

(* The scheduler uses the layer below as LuatTimer assumes: one call into   *)
(* rtos at a time, and never a start of an id whose timer still runs, which  *)
(* luat_timer_get would confuse with the new one.  For callbacks that is the *)
(* doing of the search for a free id, once its counter has gone round; for   *)
(* tasks it holds only until theirs has.                                     *)
UsesTimersRightly == TimerSpec

(* A task in sys.wait or a timed waitUntil is eventually resumed, unless the *)
(* main loop ends.                                                          *)
SleepersWake ==
    \A t \in Task :
        tstate[t] \in TimedWait ~> tstate[t] \notin TimedWait \/ phase = "ended"

(* A published message is eventually dispatched. *)
MessagesDispatched ==
    messageQueue # <<>> ~> messageQueue = <<>> \/ phase = "ended"

(* A failed coroutine ends the main loop, from the moment that it fails on,   *)
(* unless the timer for its assert does not start, whether this is the first  *)
(* start or a later one, for which the timer that ran was stopped.            *)
AssertNotStarted(traceBack) ==
    \E k \in TimerId : timerPool[k] = traceBack /\ ~para[k]

ErrorsEndLoop ==
    \A traceBack \in Traceback :
        ErrorInHand(traceBack) ~> phase = "ended" \/ AssertNotStarted(traceBack)
=============================================================================
