---------------------------- MODULE TimerService ----------------------------
(***************************************************************************)
(* What rtos.timer_start, rtos.timer_stop and the timer messages promise   *)
(* the Lua task, with nothing of how they do it: no slots, no heap blocks, *)
(* no pointers, no FreeRTOS timers and no queue.  LuatTimer implements     *)
(* this specification.                                                     *)
(*                                                                         *)
(* Each id has at most one running timer.  A timer that runs may expire at *)
(* any time; an expiry is on its way until it is delivered or lost.        *)
(* Several expiries of one id on their way are not told apart.             *)
(***************************************************************************)
EXTENDS Integers

CONSTANTS
    TimerId,  \* ids given to rtos.timer_start
    Repeat,   \* repeat counts given to rtos.timer_start: -1 is forever
    NULL

VARIABLES
    running,  \* the repeats each id's timer has left, or NULL if none runs
    pending   \* the ids with an expiry on its way

serviceVars == <<running, pending>>

ServiceInit ==
    /\ running = [id \in TimerId |-> NULL]
    /\ pending = {}

Start(id, rep) ==
    /\ running[id] = NULL
    /\ running' = [running EXCEPT ![id] = rep]
    /\ UNCHANGED pending

Stop(id) ==
    /\ running[id] # NULL
    /\ running' = [running EXCEPT ![id] = NULL]
    /\ UNCHANGED pending

Expire(id) ==
    /\ running[id] # NULL
    /\ pending' = pending \cup {id}
    /\ UNCHANGED running

(* One expiry of id arrives or is lost; others of the same id may follow. *)
Take(id) ==
    /\ id \in pending
    /\ pending' \in {pending, pending \ {id}}

AfterExpiry(rep) ==
    IF rep = 0 THEN NULL ELSE IF rep > 0 THEN rep - 1 ELSE rep

(* An expiry of id counts down, or ends, the running timer of that id and  *)
(* of no other.  The exception is id 0, whose timer is found through the   *)
(* address in the message: once that timer is stopped, any may have it.    *)
Deliver(id, of) ==
    /\ of = id \/ id = 0
    /\ Take(id)
    /\ running[of] # NULL
    /\ running' = [running EXCEPT ![of] = AfterExpiry(@)]

(* No timer of that id runs any more, or the bus is full. *)
Lose(id) ==
    /\ Take(id)
    /\ UNCHANGED running

ServiceNext ==
    \/ \E id \in TimerId, rep \in Repeat : Start(id, rep)
    \/ \E id \in TimerId : Stop(id) \/ Expire(id) \/ Lose(id)
    \/ \E id, of \in TimerId : Deliver(id, of)

ServiceSpec == ServiceInit /\ [][ServiceNext]_serviceVars
=============================================================================
