------------------------------ MODULE SysPlus ------------------------------
(***************************************************************************)
(* The mailbox of one task of script/corelib/sysplus.lua: waitMsg, sendMsg, *)
(* cleanMsg, taskDel and taskInitEx, and the timeout callback waitTo.      *)
(*                                                                         *)
(* waitMsg keeps two things that must agree: the mailbox msgQueue, and the *)
(* wake-ups, which are publications of the task's name in the message      *)
(* queue of sys.lua.  Only their number matters here (wakeups).  A         *)
(* publication dispatched while the task is not subscribed is lost, and    *)
(* its message then lies in the mailbox with no wake-up of its own.        *)
(*                                                                         *)
(* sys.lua runs one coroutine or callback at a time, so an action is what  *)
(* the code does from one resume to the next yield.                        *)
(***************************************************************************)
EXTENDS Integers, Sequences

CONSTANTS
    Param,         \* first parameters of messages
    Targets,       \* the targets waitMsg is called with; NoTarget accepts all
    NoTarget,
    Timeouts,      \* is waitMsg called with a timeout?
    TimerMayFail,  \* may sys.timerStart fail in waitMsg?
    MayDelete,     \* may others call taskDel while the task lives?
    MaxSends       \* bound on the messages sent

ASSUME MailAssumption ==
    /\ NoTarget \notin Param /\ Targets \subseteq Param \cup {NoTarget}
    /\ Timeouts \subseteq BOOLEAN
    /\ TimerMayFail \in BOOLEAN /\ MayDelete \in BOOLEAN
    /\ MaxSends \in Nat

VARIABLES
    listed,    \* taskList[taskName] exists
    msgQueue,  \* taskList[taskName].msgQueue
    To,        \* taskList[taskName].To
    wakeups,   \* publications of the name that dispatch has not taken yet
    timer,     \* the timer of waitTo: "off", "on", or "expired" and not yet run
    state,     \* the task: "outside" or "waits" in waitMsg, or "fails" on an error
    target,    \* the arguments of the waitMsg it is in
    timed,
    result,    \* what the last waitMsg to end returned
    vmFails,   \* an error in a callback has ended the main loop
    sends      \* messages sent so far

vars == <<listed, msgQueue, To, wakeups, timer, state, target, timed,
          result, vmFails, sends>>

Message == [param : Param, serial : 1 .. MaxSends]
(* What waitMsg returns: a message, nil after a timeout, false when it is    *)
(* refused; None while there is no answer yet.                               *)
Nil == [ret |-> "nil"]
False == [ret |-> "false"]
None == [ret |-> "none"]
Result == Message \cup {Nil, False, None}

TypeOK ==
    /\ listed \in BOOLEAN
    /\ msgQueue \in Seq(Message)
    /\ To \in BOOLEAN
    /\ wakeups \in Nat
    /\ timer \in {"off", "on", "expired"}
    /\ state \in {"outside", "waits", "fails"}
    /\ target \in Param \cup {NoTarget}
    /\ timed \in BOOLEAN
    /\ result \in Result
    /\ vmFails \in BOOLEAN
    /\ sends \in 0 .. MaxSends

Accepts(tgt, m) == tgt = NoTarget \/ m.param = tgt

(* Mutant: the timer is not stopped. *)
LeaveWaitTo == UNCHANGED timer

(* sys.timerStop(waitTo, taskName): also an expiry not yet run is dropped, *)
(* because sys.lua then finds no callback for it.                          *)
StopWaitTo == timer' = "off"

-----------------------------------------------------------------------------
(* Other tasks, callbacks and the main loop. *)

(* Mutant: only a message to an empty mailbox publishes. *)
sendMsgPublishesOnce(p) ==
    /\ ~vmFails /\ listed /\ sends < MaxSends
    /\ msgQueue' = Append(msgQueue, [param |-> p, serial |-> sends + 1])
    /\ wakeups' = IF msgQueue = <<>> THEN wakeups + 1 ELSE wakeups
    /\ sends' = sends + 1
    /\ UNCHANGED <<listed, To, timer, state, target, timed, result, vmFails>>

sendMsg(p) ==
    /\ ~vmFails /\ listed /\ sends < MaxSends
    /\ msgQueue' = Append(msgQueue, [param |-> p, serial |-> sends + 1])
    /\ wakeups' = wakeups + 1
    /\ sends' = sends + 1
    /\ UNCHANGED <<listed, To, timer, state, target, timed, result, vmFails>>

cleanMsg ==
    /\ ~vmFails /\ listed
    /\ msgQueue' = <<>>
    /\ UNCHANGED <<listed, To, wakeups, timer, state, target, timed, result,
                   vmFails, sends>>

(* taskDel removes the list entry and nothing else. *)
taskDel ==
    /\ MayDelete /\ ~vmFails
    /\ listed' = FALSE
    /\ msgQueue' = <<>>
    /\ To' = FALSE
    /\ UNCHANGED <<wakeups, timer, state, target, timed, result, vmFails, sends>>

(* The name is used again for a new task when the old one has ended. *)
taskInitEx ==
    /\ ~vmFails /\ ~listed /\ state = "outside"
    /\ listed' = TRUE
    /\ msgQueue' = <<>>
    /\ To' = FALSE
    /\ UNCHANGED <<wakeups, timer, state, target, timed, result, vmFails, sends>>

TimerExpires ==
    /\ timer = "on"
    /\ timer' = "expired"
    /\ UNCHANGED <<listed, msgQueue, To, wakeups, state, target, timed, result,
                   vmFails, sends>>

(* Mutant: the callback sets To and does not publish. *)
waitToSilent ==
    /\ ~vmFails /\ timer = "expired" /\ listed
    /\ timer' = "off"
    /\ To' = TRUE
    /\ UNCHANGED <<listed, msgQueue, wakeups, state, target, timed, result,
                   vmFails, sends>>

(* The main loop runs the callback of the timer; an error there ends it. *)
waitTo ==
    /\ ~vmFails /\ timer = "expired"
    /\ timer' = "off"
    /\ \/ /\ listed
          /\ To' = TRUE
          /\ wakeups' = wakeups + 1
          /\ UNCHANGED vmFails
       \/ /\ ~listed
          /\ vmFails' = TRUE
          /\ UNCHANGED <<To, wakeups>>
    /\ UNCHANGED <<listed, msgQueue, state, target, timed, result, sends>>

-----------------------------------------------------------------------------
(* waitMsg, from the call to its return or its yield. *)

WaitRefused(tgt, ms) ==
    /\ ~vmFails /\ state = "outside" /\ ~listed
    /\ result' = False
    /\ UNCHANGED <<listed, msgQueue, To, wakeups, timer, state, target, timed,
                   vmFails, sends>>

(* The first message in the mailbox is the one waited for. *)
WaitTakesFirst(tgt, ms) ==
    /\ ~vmFails /\ state = "outside" /\ listed
    /\ msgQueue # <<>> /\ Accepts(tgt, Head(msgQueue))
    /\ result' = Head(msgQueue)
    /\ msgQueue' = Tail(msgQueue)
    /\ UNCHANGED <<listed, To, wakeups, timer, state, target, timed, vmFails, sends>>

(* Otherwise that one message, if any, goes to the task's callback, the    *)
(* task subscribes, starts its timer and yields.                           *)
WaitYields(tgt, ms) ==
    /\ ~vmFails /\ state = "outside" /\ listed
    /\ msgQueue # <<>> => ~Accepts(tgt, Head(msgQueue))
    /\ msgQueue' = IF msgQueue = <<>> THEN <<>> ELSE Tail(msgQueue)
    /\ timer' \in (IF ms THEN {"on"} ELSE {"off"})
                    \cup (IF TimerMayFail THEN {"off"} ELSE {})
    /\ To' = FALSE
    /\ state' = "waits"
    /\ target' = tgt
    /\ timed' = ms
    /\ result' = None
    /\ UNCHANGED <<listed, wakeups, vmFails, sends>>

(* The end of waitMsg, with the message msg or FALSE in its local variable. *)
Finish(msg) ==
    /\ result' = IF To THEN Nil ELSE msg
    /\ To' = FALSE
    /\ StopWaitTo
    /\ state' = "outside"

(* Mutant: the queue is not tested for being empty. *)
WakeupFromNothing ==
    /\ ~vmFails /\ state # "waits"
    /\ wakeups' = wakeups - 1
    /\ UNCHANGED <<listed, msgQueue, To, timer, state, target, timed, result,
                   vmFails, sends>>

(* dispatch takes a publication of the task's name.  The task is subscribed *)
(* while it waits, and is resumed; while it is busy or in another kind of   *)
(* wait it is not, and the wake-up is lost.                                 *)
WakeupLost ==
    /\ ~vmFails /\ state # "waits" /\ wakeups > 0
    /\ wakeups' = wakeups - 1
    /\ UNCHANGED <<listed, msgQueue, To, timer, state, target, timed, result,
                   vmFails, sends>>

Wakes ==
    /\ ~vmFails /\ state = "waits" /\ wakeups > 0
    /\ wakeups' = wakeups - 1
    /\ UNCHANGED <<listed, target, timed, vmFails, sends>>

WakesToMessage ==
    /\ Wakes /\ listed /\ msgQueue # <<>>
    /\ msgQueue' = Tail(msgQueue)
    /\ \/ Accepts(target, Head(msgQueue)) /\ Finish(Head(msgQueue))
       \/ /\ ~Accepts(target, Head(msgQueue))
          /\ UNCHANGED <<To, timer, state, result>>

WakesToTimeout ==
    /\ Wakes /\ listed /\ msgQueue = <<>>
    /\ \/ To /\ Finish(False)
       \/ ~To /\ UNCHANGED <<To, timer, state, result>>
    /\ UNCHANGED msgQueue

(* The entry is gone: indexing it raises an error in the coroutine.  Its     *)
(* wrapper in sys.lua logs it and starts a timer for assert, ...             *)
WakesToError ==
    /\ Wakes /\ ~listed
    /\ state' = "fails"
    /\ UNCHANGED <<msgQueue, To, timer, result>>

(* ... whose callback ends the main loop (COROUTINE_ERROR_ROLL_BACK). *)
AssertFails ==
    /\ ~vmFails /\ state = "fails"
    /\ vmFails' = TRUE
    /\ UNCHANGED <<listed, msgQueue, To, wakeups, timer, state, target, timed,
                   result, sends>>

-----------------------------------------------------------------------------
Init ==
    /\ listed = TRUE  \* taskInitEx
    /\ msgQueue = <<>>
    /\ To = FALSE
    /\ wakeups = 0
    /\ timer = "off"
    /\ state = "outside"
    /\ target = NoTarget
    /\ timed = FALSE
    /\ result = None
    /\ vmFails = FALSE
    /\ sends = 0

waitMsg == \E tgt \in Targets, ms \in Timeouts :
    WaitRefused(tgt, ms) \/ WaitTakesFirst(tgt, ms) \/ WaitYields(tgt, ms)

Dispatch == WakeupLost \/ WakesToMessage \/ WakesToTimeout \/ WakesToError

Next ==
    \/ \E p \in Param : sendMsg(p)
    \/ cleanMsg
    \/ taskDel
    \/ taskInitEx
    \/ TimerExpires
    \/ waitTo
    \/ waitMsg
    \/ Dispatch
    \/ AssertFails

Spec == Init /\ [][Next]_vars

(* The main loop keeps dispatching, an armed timer expires and its callback *)
(* runs.  Nobody has to send, and the task need not call waitMsg again.     *)
FairSpec == Spec /\ WF_vars(Dispatch) /\ WF_vars(TimerExpires) /\ WF_vars(waitTo)

-----------------------------------------------------------------------------
(* Properties. *)

(* A timeout belongs to the waitMsg that asked for it: the flag To and the *)
(* timer are never left over for a later wait, which would then report a   *)
(* timeout at once and throw its message away.                             *)
TimeoutIsOwn ==
    To \/ timer # "off" => state # "outside" /\ timed

(* A wait without a timeout never reports one. *)
UntimedNeverTimesOut ==
    [][~timed /\ state = "waits" /\ state' = "outside" => result' # Nil]_vars

(* While the task waits for any message, no message is in the mailbox       *)
(* without a wake-up for it: one publication per message is enough.         *)
AnyMessageHasWakeup ==
    state = "waits" /\ listed /\ target = NoTarget => Len(msgQueue) <= wakeups

(* A waitMsg with a timeout ends. *)
TimedWaitEnds == (state = "waits" /\ timed) ~> state # "waits"

(* As long as the main loop lives, a waitMsg for any message ends when its   *)
(* timer was started, and when a message is in the mailbox, unless that is   *)
(* cleaned away.                                                            *)
AnyWaitEnds ==
    /\ (state = "waits" /\ timer # "off" /\ target = NoTarget)
          ~> (state # "waits" \/ vmFails)
    /\ (state = "waits" /\ target = NoTarget /\ msgQueue # <<>>)
          ~> (state # "waits" \/ msgQueue = <<>> \/ vmFails)

(* taskDel kills the main loop only while the task is in waitMsg, and then   *)
(* through its timer or the coroutine; a name that is deleted between two    *)
(* waits leaves nothing behind that indexes its entry.                       *)
LoopDiesWithWaiter == vmFails => state # "outside" /\ ~listed
=============================================================================
