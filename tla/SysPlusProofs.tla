--------------------------- MODULE SysPlusProofs ---------------------------
(***************************************************************************)
(* Theorems about SysPlus, for any messages, targets and bound on sends.   *)
(* They hold while nobody deletes the task and also when somebody does.    *)
(***************************************************************************)
EXTENDS SysPlus, TLAPS, SequenceTheorems

Inv == TypeOK /\ TimeoutIsOwn /\ AnyMessageHasWakeup

-----------------------------------------------------------------------------
LEMMA InitInv == Init => Inv
<1> SUFFICES ASSUME Init PROVE Inv
  OBVIOUS
<1>1. msgQueue \in Seq(Message) /\ Len(msgQueue) = 0
  BY EmptySeq DEF Init
<1>2. TypeOK
  <2>1. result \in Result
    BY DEF Init, Result
  <2>2. sends \in 0 .. MaxSends
    BY MailAssumption DEF Init
  <2>3. QED
    BY <1>1, <2>1, <2>2 DEF Init, TypeOK
<1>3. TimeoutIsOwn /\ AnyMessageHasWakeup
  BY DEF Init, TimeoutIsOwn, AnyMessageHasWakeup
<1>4. QED
  BY <1>2, <1>3 DEF Inv

(* Taking the first message leaves a mailbox shorter by one. *)
LEMMA TakeFirst ==
    ASSUME TypeOK, msgQueue # <<>>
    PROVE  /\ Head(msgQueue) \in Message
           /\ Tail(msgQueue) \in Seq(Message)
           /\ Len(Tail(msgQueue)) = Len(msgQueue) - 1
           /\ Len(msgQueue) \in Nat
BY HeadTailProperties, LenProperties DEF TypeOK

(* Of the mailbox the parts of the invariant need its type and its length. *)
LEMMA SendInv == ASSUME Inv, NEW p \in Param, sendMsg(p) PROVE Inv'
<1> DEFINE m == [param |-> p, serial |-> sends + 1]
<1>1. m \in Message
  BY MailAssumption DEF Inv, TypeOK, sendMsg, Message
<1>2. msgQueue' \in Seq(Message) /\ Len(msgQueue') = Len(msgQueue) + 1
  BY <1>1 DEF Inv, TypeOK, sendMsg
<1>3. TypeOK'
  BY <1>2, MailAssumption DEF Inv, TypeOK, sendMsg
<1>4. Len(msgQueue) \in Nat
  BY LenProperties DEF Inv, TypeOK
<1>5. TimeoutIsOwn' /\ AnyMessageHasWakeup'
  BY <1>2, <1>4 DEF Inv, TypeOK, TimeoutIsOwn, AnyMessageHasWakeup, sendMsg
<1>6. QED
  BY <1>3, <1>5 DEF Inv

LEMMA OthersInv ==
    ASSUME Inv, cleanMsg \/ taskDel \/ taskInitEx \/ TimerExpires \/ waitTo
                  \/ WakeupLost \/ AssertFails \/ UNCHANGED vars
    PROVE  Inv'
<1>1. CASE cleanMsg
  BY <1>1, EmptySeq
  DEF Inv, TypeOK, TimeoutIsOwn, AnyMessageHasWakeup, cleanMsg
<1>2. CASE taskDel
  BY <1>2, EmptySeq
  DEF Inv, TypeOK, TimeoutIsOwn, AnyMessageHasWakeup, taskDel
<1>3. CASE TimerExpires
  BY <1>3 DEF Inv, TypeOK, TimeoutIsOwn, AnyMessageHasWakeup, TimerExpires
<1>4. CASE waitTo
  <2>1. Len(msgQueue) \in Nat
    BY LenProperties DEF Inv, TypeOK
  <2>2. QED
    <3>1. CASE listed
      <4>1. TypeOK'
        BY <1>4, <3>1 DEF Inv, TypeOK, waitTo
      <4>2. TimeoutIsOwn'
        BY <1>4, <3>1 DEF Inv, TimeoutIsOwn, waitTo
      <4>3. AnyMessageHasWakeup'
        BY <1>4, <2>1, <3>1 DEF Inv, TypeOK, AnyMessageHasWakeup, waitTo
      <4>4. QED
        BY <4>1, <4>2, <4>3 DEF Inv
    <3>2. CASE ~listed
      BY <1>4, <3>2 DEF Inv, TypeOK, TimeoutIsOwn, AnyMessageHasWakeup, waitTo
    <3>3. QED
      BY <3>1, <3>2
<1>5. CASE WakeupLost
  BY <1>5 DEF Inv, TypeOK, TimeoutIsOwn, AnyMessageHasWakeup, WakeupLost
<1>6. CASE AssertFails
  BY <1>6 DEF Inv, TypeOK, TimeoutIsOwn, AnyMessageHasWakeup, AssertFails
<1>7. CASE UNCHANGED vars
  BY <1>7 DEF Inv, TypeOK, TimeoutIsOwn, AnyMessageHasWakeup, vars
<1>8. CASE taskInitEx
  BY <1>8, EmptySeq
  DEF Inv, TypeOK, TimeoutIsOwn, AnyMessageHasWakeup, taskInitEx
<1>9. QED
  BY <1>1, <1>2, <1>3, <1>4, <1>5, <1>6, <1>7, <1>8

(* A wait that yields found the mailbox empty if it waits for any message. *)
LEMMA WaitInv ==
    ASSUME Inv, NEW tgt \in Targets, NEW ms \in Timeouts,
           WaitRefused(tgt, ms) \/ WaitTakesFirst(tgt, ms) \/ WaitYields(tgt, ms)
    PROVE  Inv'
<1>0. tgt \in Param \cup {NoTarget} /\ ms \in BOOLEAN
  BY MailAssumption
<1>1. CASE WaitRefused(tgt, ms)
  BY <1>1 DEF Inv, TypeOK, TimeoutIsOwn, AnyMessageHasWakeup, WaitRefused, Result
<1>2. CASE WaitTakesFirst(tgt, ms)
  BY <1>2, TakeFirst
  DEF Inv, TypeOK, TimeoutIsOwn, AnyMessageHasWakeup, WaitTakesFirst, Result
<1>3. CASE WaitYields(tgt, ms)
  <2>1. msgQueue' \in Seq(Message)
    BY <1>3, TakeFirst, EmptySeq DEF Inv, WaitYields
  <2>2. TypeOK'
    BY <1>0, <1>3, <2>1 DEF Inv, TypeOK, WaitYields, Result
  <2>3. TimeoutIsOwn'
    BY <1>0, <1>3 DEF WaitYields, TimeoutIsOwn
  <2>4. target' = NoTarget => Len(msgQueue') = 0
    BY <1>3, EmptySeq DEF WaitYields, Accepts
  <2>5. AnyMessageHasWakeup'
    BY <2>2, <2>4 DEF AnyMessageHasWakeup, TypeOK
  <2>6. QED
    BY <2>2, <2>3, <2>5 DEF Inv
<1>4. QED
  BY <1>1, <1>2, <1>3

LEMMA WakesInv ==
    ASSUME Inv, WakesToMessage \/ WakesToTimeout \/ WakesToError
    PROVE  Inv'
<1>1. CASE WakesToMessage
  <2>1. TypeOK'
    <3>1. msgQueue' \in Seq(Message) /\ Head(msgQueue) \in Message
      BY <1>1, TakeFirst DEF Inv, WakesToMessage
    <3>2. result' \in Result
      BY <1>1, <3>1 DEF Inv, TypeOK, WakesToMessage, Finish, Result
    <3>3. wakeups' \in Nat
      BY <1>1 DEF Inv, TypeOK, WakesToMessage, Wakes
    <3>4. To' \in BOOLEAN /\ timer' \in {"off", "on", "expired"}
            /\ state' \in {"outside", "waits", "fails"}
      BY <1>1 DEF Inv, TypeOK, WakesToMessage, Wakes, Finish, StopWaitTo
    <3>5. QED
      BY <1>1, <3>1, <3>2, <3>3, <3>4 DEF Inv, TypeOK, WakesToMessage, Wakes
  <2>2. TimeoutIsOwn'
    BY <1>1 DEF Inv, TimeoutIsOwn, WakesToMessage, Wakes, Finish, StopWaitTo
  <2>3. AnyMessageHasWakeup'
    BY <1>1 DEF AnyMessageHasWakeup, WakesToMessage, Wakes, Finish, Accepts
  <2>4. QED
    BY <2>1, <2>2, <2>3 DEF Inv
<1>2. CASE WakesToTimeout
  <2>1. result' \in Result
    BY <1>2 DEF Inv, TypeOK, WakesToTimeout, Finish, Result
  <2>2. wakeups' \in Nat
    BY <1>2 DEF Inv, TypeOK, WakesToTimeout, Wakes
  <2>3. To' \in BOOLEAN /\ timer' \in {"off", "on", "expired"}
          /\ state' \in {"outside", "waits", "fails"}
    BY <1>2 DEF Inv, TypeOK, WakesToTimeout, Wakes, Finish, StopWaitTo
  <2>4. TypeOK'
    BY <1>2, <2>1, <2>2, <2>3 DEF Inv, TypeOK, WakesToTimeout, Wakes
  <2>5. TimeoutIsOwn'
    BY <1>2 DEF Inv, TimeoutIsOwn, WakesToTimeout, Wakes, Finish, StopWaitTo
  <2>6. Len(msgQueue') = 0
    BY <1>2, EmptySeq DEF WakesToTimeout
  <2>7. AnyMessageHasWakeup'
    BY <2>2, <2>6 DEF AnyMessageHasWakeup
  <2>8. QED
    BY <2>4, <2>5, <2>7 DEF Inv
<1>3. CASE WakesToError
  <2>1. TypeOK' /\ AnyMessageHasWakeup'
    BY <1>3 DEF Inv, TypeOK, AnyMessageHasWakeup, WakesToError, Wakes
  <2>2. TimeoutIsOwn'
    BY <1>3 DEF Inv, TimeoutIsOwn, WakesToError, Wakes
  <2>3. QED
    BY <2>1, <2>2 DEF Inv
<1>4. QED
  BY <1>1, <1>2, <1>3

LEMMA NextInv == Inv /\ [Next]_vars => Inv'
BY SendInv, OthersInv, WaitInv, WakesInv DEF Next, waitMsg, Dispatch

(* Every variable of the mailbox keeps its type. *)
THEOREM TypeCorrect == Spec => []TypeOK
<1>1. Inv => TypeOK
  BY DEF Inv
<1>2. QED
  BY <1>1, InitInv, NextInv, PTL DEF Spec

(* A timeout never outlives the waitMsg that asked for it. *)
THEOREM TimeoutsAreOwn == Spec => []TimeoutIsOwn
<1>1. Inv => TimeoutIsOwn
  BY DEF Inv
<1>2. QED
  BY <1>1, InitInv, NextInv, PTL DEF Spec

(* A task that waits for any message has a wake-up for each one it holds. *)
THEOREM AnyMessageWakes == Spec => []AnyMessageHasWakeup
<1>1. Inv => AnyMessageHasWakeup
  BY DEF Inv
<1>2. QED
  BY <1>1, InitInv, NextInv, PTL DEF Spec

(* A waitMsg called without a timeout never reports one. *)
THEOREM UntimedWaits == Spec => UntimedNeverTimesOut
<1>1. Inv /\ [Next]_vars
        => [~timed /\ state = "waits" /\ state' = "outside" => result' # Nil]_vars
  <2> SUFFICES ASSUME Inv, Next, ~timed, state = "waits", state' = "outside"
               PROVE  result' # Nil
    OBVIOUS
  <2>1. CASE WakesToMessage
    <3>1. ~To
      BY DEF Inv, TimeoutIsOwn
    <3>2. Head(msgQueue) \in Message
      BY <2>1, TakeFirst DEF WakesToMessage, Inv
    <3>3. result' = Head(msgQueue)
      BY <2>1, <3>1 DEF WakesToMessage, Finish
    <3>4. QED
      BY <3>2, <3>3 DEF Message, Nil
  <2>2. CASE WakesToTimeout
    BY <2>2 DEF Inv, TimeoutIsOwn, WakesToTimeout, Finish, Wakes
  <2>3. QED
    BY <2>1, <2>2 DEF Next, sendMsg, cleanMsg, taskDel, taskInitEx, TimerExpires,
       waitTo, waitMsg, WaitRefused, WaitTakesFirst, WaitYields, Dispatch, WakeupLost,
       WakesToError, AssertFails
<1>2. QED
  BY <1>1, InitInv, NextInv, PTL DEF Spec, UntimedNeverTimesOut

(* The main loop dies of a deleted mailbox only with its task in waitMsg:   *)
(* outside of it the timer is off, so no callback indexes the entry.        *)
THEOREM LoopDies == Spec => []LoopDiesWithWaiter
<1> DEFINE Dead == (state = "fails" => ~listed) /\ LoopDiesWithWaiter
<1>1. Init => Dead
  BY DEF Init, LoopDiesWithWaiter
<1>2. Inv /\ Dead /\ [Next]_vars => Dead'
  <2> SUFFICES ASSUME Inv, Dead, [Next]_vars PROVE Dead'
    OBVIOUS
  <2>1. CASE waitTo
    <3>1. state # "outside"
      BY <2>1 DEF waitTo, Inv, TimeoutIsOwn
    <3>2. QED
      BY <2>1, <3>1 DEF waitTo, LoopDiesWithWaiter
  <2>2. CASE Dispatch
    <3>1. ~vmFails /\ vmFails' = vmFails
      BY <2>2 DEF Dispatch, WakeupLost, WakesToMessage, WakesToTimeout,
         WakesToError, Wakes
    <3>2. state' = "fails" => ~listed /\ listed' = listed
      BY <2>2 DEF Dispatch, WakeupLost, WakesToMessage, WakesToTimeout,
         WakesToError, Wakes, Finish
    <3>3. QED
      BY <3>1, <3>2 DEF LoopDiesWithWaiter
  <2>3. CASE waitMsg
    BY <2>3 DEF waitMsg, WaitRefused, WaitTakesFirst, WaitYields, LoopDiesWithWaiter
  <2>4. CASE AssertFails
    BY <2>4 DEF AssertFails, LoopDiesWithWaiter
  <2>5. CASE taskDel \/ taskInitEx
    BY <2>5 DEF taskDel, taskInitEx, LoopDiesWithWaiter
  <2>6. ASSUME UNCHANGED <<listed, state, vmFails>> PROVE Dead'
    BY <2>6 DEF LoopDiesWithWaiter
  <2>7. CASE cleanMsg \/ TimerExpires \/ UNCHANGED vars
    BY <2>6, <2>7 DEF cleanMsg, TimerExpires, vars
  <2>8. ASSUME NEW p \in Param, sendMsg(p) PROVE Dead'
    BY <2>6, <2>8 DEF sendMsg
  <2>9. QED
    BY <2>1, <2>2, <2>3, <2>4, <2>5, <2>7, <2>8 DEF Next
<1>3. Dead => LoopDiesWithWaiter
  OBVIOUS
<1> HIDE DEF Dead
<1>4. QED
  BY <1>1, <1>2, <1>3, InitInv, NextInv, PTL DEF Spec
=============================================================================
