----------------------------- MODULE UartProofs -----------------------------
(***************************************************************************)
(* Theorems about Uart, for any ports but 0, any sizes and any bus: the     *)
(* type invariant, and that a script with a callback is told of every byte. *)
(***************************************************************************)
EXTENDS Uart, TLAPS

(* The case of the right tasks: port 0 is not in use. *)
NoPortZero == 0 \notin Port

(* A task about to drop events has posted its message, unless the bus was   *)
(* full: the Lua task has not run since.                                    *)
ResetsAfterPost ==
    \A p \in Port : xHandle[p] = "resets" =>
        \/ ~recv[p]
        \/ Len(bus) = BusLen
        \/ \E k \in 1 .. Len(bus) : bus[k] = p

(* The events in a queue that nobody will announce stand for bytes that are *)
(* still in the buffer, so the queue has room for one more.                 *)
QuietEventsHaveBytes ==
    \A p \in Port :
        \/ xHandle[p] = "resets"
        \/ \E k \in 1 .. Len(xQueue[p]) : Announces(xQueue[p][k])
        \/ FullChunk * Len(xQueue[p]) <= data[p] + stash[p]

UartInv == UartTypeOK /\ ResetsAfterPost /\ QuietEventsHaveBytes

-----------------------------------------------------------------------------
(* A queue is left with all but its first element. *)
LEMMA TailFacts ==
    ASSUME NEW S, NEW s \in Seq(S), s # <<>>
    PROVE  /\ Tail(s) \in Seq(S)
           /\ Len(Tail(s)) = Len(s) - 1
           /\ Len(s) > 0
           /\ Head(s) \in S /\ Head(s) = s[1]
           /\ \A k \in 1 .. Len(s) - 1 : Tail(s)[k] = s[k + 1]
  BY SMT

(* An element is added at the end. *)
LEMMA AppendFacts ==
    ASSUME NEW S, NEW s \in Seq(S), NEW e \in S
    PROVE  /\ Append(s, e) \in Seq(S)
           /\ Len(Append(s, e)) = Len(s) + 1
           /\ Append(s, e)[Len(s) + 1] = e
           /\ \A k \in 1 .. Len(s) : Append(s, e)[k] = s[k]
  BY SMT

(* Posting keeps the messages that are there. *)
LEMMA PutKeeps ==
    ASSUME bus \in Seq(Port \cup {None}), Len(bus) <= BusLen,
           NEW m \in Port \cup {None}, luat_msgbus_put(m)
    PROVE  /\ bus' \in Seq(Port \cup {None}) /\ Len(bus') <= BusLen
           /\ Len(bus') >= Len(bus)
           /\ \A p : (\E k \in 1 .. Len(bus) : bus[k] = p) =>
                        \E k \in 1 .. Len(bus') : bus'[k] = p
           /\ Len(bus) < BusLen => \E k \in 1 .. Len(bus') : bus'[k] = m
  BY SizeAssumption, AppendFacts, SMT DEF luat_msgbus_put

(* A chunk that no one would announce is a full one. *)
LEMMA QuietEvents ==
    ASSUME NEW e \in Event, e.timeout_flag \/ e.size = FullChunk, ~Announces(e)
    PROVE  e.size = FullChunk /\ ~e.timeout_flag
  BY DEF Announces

-----------------------------------------------------------------------------
(* UartTypeOK, step by step. *)

LEMMA TypeInit == UartInit => UartTypeOK
  BY SizeAssumption DEF UartInit, UartTypeOK

LEMMA TypeInterrupt ==
    ASSUME UartTypeOK, NEW p \in Port, NEW e \in Event, Interrupt(p, e)
    PROVE  UartTypeOK'
<1> USE SizeAssumption
<1>0. e.size \in 1 .. FullChunk /\ e.timeout_flag \in BOOLEAN
  BY DEF Event
<1>1. /\ data \in [Port -> 0 .. BufLen] /\ stash \in [Port -> 0 .. FullChunk]
      /\ \A q \in Port : stash[q] > 0 => data[q] + stash[q] > BufLen
  BY DEF UartTypeOK
<1>2. data' \in [Port -> 0 .. BufLen] /\ stash' \in [Port -> 0 .. FullChunk]
  <2>1. CASE data[p] + e.size <= BufLen
    <3>1. data[p] + e.size \in 0 .. BufLen
      BY <1>1, <1>0, <2>1
    <3>2. data' = [data EXCEPT ![p] = data[p] + e.size] /\ stash' = stash
      BY <2>1 DEF Interrupt
    <3> QED
      BY <1>1, <3>1, <3>2
  <2>2. CASE ~(data[p] + e.size <= BufLen)
    <3>1. stash' = [stash EXCEPT ![p] = e.size] /\ data' = data
      BY <2>2 DEF Interrupt
    <3>2. e.size \in 0 .. FullChunk
      BY <1>0
    <3> QED
      BY <1>1, <3>1, <3>2
  <2> QED
    BY <2>1, <2>2
<1>3. streaming' \in [Port -> BOOLEAN]
  BY <1>0 DEF Interrupt, UartTypeOK
<1>4. xQueue' \in [Port -> Seq(Event)]
  BY AppendFacts DEF Interrupt, QueueEvent, UartTypeOK
<1>5. \A q \in Port : Len(xQueue'[q]) <= QueueLen
  <2> TAKE q \in Port
  <2>1. CASE q = p /\ Len(xQueue[p]) < QueueLen
    <3>1. xQueue'[p] = Append(xQueue[p], e)
      BY <2>1 DEF Interrupt, QueueEvent, UartTypeOK
    <3>2. Len(xQueue'[p]) = Len(xQueue[p]) + 1
      BY <3>1, AppendFacts DEF UartTypeOK
    <3> QED
      BY <2>1, <3>2 DEF UartTypeOK
  <2>2. CASE ~(q = p /\ Len(xQueue[p]) < QueueLen)
    BY <2>2 DEF Interrupt, QueueEvent, UartTypeOK
  <2> QED
    BY <2>1, <2>2
<1>6. \A q \in Port : ~installed'[q] =>
          data'[q] = 0 /\ stash'[q] = 0 /\ ~streaming'[q] /\ xQueue'[q] = <<>>
  BY DEF Interrupt, QueueEvent, UartTypeOK
<1>7. \A q \in Port : stash'[q] > 0 => data'[q] + stash'[q] > BufLen
  <2> TAKE q \in Port
  <2>1. CASE data[p] + e.size <= BufLen
    <3>1. data' = [data EXCEPT ![p] = data[p] + e.size] /\ stash' = stash /\ stash[p] = 0
      BY <2>1 DEF Interrupt
    <3> QED
      BY <1>1, <3>1
  <2>2. CASE ~(data[p] + e.size <= BufLen)
    <3>1. stash' = [stash EXCEPT ![p] = e.size] /\ data' = data
      BY <2>2 DEF Interrupt
    <3> QED
      BY <1>1, <1>0, <2>2, <3>1
  <2> QED
    BY <2>1, <2>2
<1> QED
  BY <1>2, <1>3, <1>4, <1>5, <1>6, <1>7 DEF Interrupt, UartTypeOK

LEMMA TypeIrqTask ==
    ASSUME UartTypeOK, NEW p \in Port, IrqTask(p)
    PROVE  UartTypeOK'
<1> USE SizeAssumption
<1> DEFINE q == QueueOf(p)
<1>1. q \in Port /\ installed[q] /\ xQueue[q] # <<>>
  BY DEF IrqTask, TaskHasEvent
<1>2. xQueue' = [xQueue EXCEPT ![q] = Tail(@)]
  BY DEF IrqTask
<1>3. Tail(xQueue[q]) \in Seq(Event) /\ Len(Tail(xQueue[q])) = Len(xQueue[q]) - 1
  BY <1>1, TailFacts DEF UartTypeOK
<1> HIDE DEF q
<1>4. xQueue' \in [Port -> Seq(Event)]
  BY <1>1, <1>2, <1>3 DEF UartTypeOK
<1>5. \A r \in Port : Len(xQueue'[r]) <= QueueLen
  BY <1>1, <1>2, <1>3 DEF UartTypeOK
<1>6. \A r \in Port : ~installed[r] => xQueue'[r] = <<>>
  BY <1>1, <1>2 DEF UartTypeOK
<1>7. bus' \in Seq(Port \cup {None}) /\ Len(bus') <= BusLen
  BY PutKeeps DEF IrqTask, UartTypeOK
<1>8. xHandle' \in [Port -> {"none", "waits", "resets"}]
      /\ \A r \in Port : xHandle'[r] = "none" => xHandle[r] = "none"
  BY DEF IrqTask, TaskHasEvent, UartTypeOK
<1> QED
  BY <1>4, <1>5, <1>6, <1>7, <1>8 DEF IrqTask, UartTypeOK

LEMMA TypeRead ==
    ASSUME UartTypeOK, l_uart_read
    PROVE  UartTypeOK'
<1> USE SizeAssumption
<1>1. CASE UNCHANGED <<data, stash>> /\ reading' = None
  BY <1>1 DEF l_uart_read, UartTypeOK
<1>2. CASE ReadBytes(reading) /\ UNCHANGED reading
  <2>1. reading \in Port
    BY DEF l_uart_read, UartTypeOK
  <2>2. PICK n \in 1 .. data[reading] :
          IF data[reading] - n + stash[reading] <= BufLen
          THEN /\ data' = [data EXCEPT ![reading] = @ - n + stash[reading]]
               /\ stash' = [stash EXCEPT ![reading] = 0]
          ELSE data' = [data EXCEPT ![reading] = @ - n] /\ UNCHANGED stash
    BY <1>2 DEF ReadBytes
  <2>3. data[reading] \in 0 .. BufLen /\ stash[reading] \in 0 .. FullChunk
    BY <2>1 DEF UartTypeOK
  <2>4. data \in [Port -> 0 .. BufLen] /\ stash \in [Port -> 0 .. FullChunk]
    BY DEF UartTypeOK
  <2>5. data' \in [Port -> 0 .. BufLen] /\ stash' \in [Port -> 0 .. FullChunk]
    <3>1. data[reading] - n \in 0 .. BufLen
      BY <2>2, <2>3
    <3>2. CASE data[reading] - n + stash[reading] <= BufLen
      <4>1. data[reading] - n + stash[reading] \in 0 .. BufLen
        BY <2>3, <3>1, <3>2
      <4>2. /\ data' = [data EXCEPT ![reading] = data[reading] - n + stash[reading]]
            /\ stash' = [stash EXCEPT ![reading] = 0]
        BY <2>2, <3>2
      <4> QED
        BY <2>1, <2>4, <4>1, <4>2
    <3>3. CASE ~(data[reading] - n + stash[reading] <= BufLen)
      BY <2>1, <2>2, <2>4, <3>1, <3>3
    <3> QED
      BY <3>2, <3>3
  <2>6. \A p \in Port : /\ ~installed[p] => data'[p] = 0 /\ stash'[p] = 0
                        /\ stash'[p] > 0 => data'[p] + stash'[p] > BufLen
    BY <2>1, <2>2, <2>3 DEF UartTypeOK
  <2> QED
    BY <1>2, <2>5, <2>6 DEF l_uart_read, UartTypeOK
<1> QED
  BY <1>1, <1>2 DEF l_uart_read

LEMMA TypeStep == UartTypeOK /\ [UartNext]_uartVars => UartTypeOK'
<1> SUFFICES ASSUME UartTypeOK, [UartNext]_uartVars
             PROVE  UartTypeOK'
  OBVIOUS
<1> USE SizeAssumption
<1>1. ASSUME NEW p \in Port, IrqTaskResets(p)
      PROVE  UartTypeOK'
  BY <1>1 DEF IrqTaskResets, UartTypeOK
<1>2. ASSUME NEW p \in Port, IrqTaskAborts(p)
      PROVE  UartTypeOK'
  BY <1>2 DEF IrqTaskAborts, driverVars, UartTypeOK
<1>3. ASSUME NEW p \in Port, luat_uart_setup(p)
      PROVE  UartTypeOK'
  BY <1>3 DEF luat_uart_setup, UartTypeOK
<1>4. ASSUME NEW p \in Port, luat_uart_close(p)
      PROVE  UartTypeOK'
  BY <1>4 DEF luat_uart_close, UartTypeOK
<1>5. ASSUME NEW p \in Port, NEW callback \in BOOLEAN, l_uart_on(p, callback)
      PROVE  UartTypeOK'
  BY <1>5 DEF l_uart_on, driverVars, UartTypeOK
<1>6. CASE l_uart_handler
  <2>1. bus' \in Seq(Port \cup {None}) /\ Len(bus') = Len(bus) - 1
        /\ Head(bus) \in Port \cup {None}
    BY <1>6, TailFacts DEF l_uart_handler, UartTypeOK
  <2> QED
    BY <1>6, <2>1 DEF l_uart_handler, driverVars, UartTypeOK
<1>7. CASE OtherPosts
  BY <1>7, PutKeeps DEF OtherPosts, driverVars, UartTypeOK
<1>8. CASE UNCHANGED uartVars
  BY <1>8 DEF uartVars, driverVars, UartTypeOK
<1> QED
  BY <1>1, <1>2, <1>3, <1>4, <1>5, <1>6, <1>7, <1>8,
     TypeInterrupt, TypeIrqTask, TypeRead DEF UartNext

(* Counts, queues and handles have their types, the queues and the bus keep *)
(* their bounds, and a chunk is kept only while the buffer is too full.      *)
THEOREM TypeCorrect == UartSpec => []UartTypeOK
  BY TypeInit, TypeStep, PTL DEF UartSpec

-----------------------------------------------------------------------------
(* The inductive invariant. *)

LEMMA QueueOfSelf == ASSUME NoPortZero, NEW p \in Port PROVE QueueOf(p) = p
  BY PortAssumption DEF NoPortZero, QueueOf

(* While the Lua task runs no event waits and no task is about to reset. *)
LEMMA LuaRunsAlone ==
    ASSUME NoPortZero, UartTypeOK, LuaRuns, NEW p \in Port
    PROVE  xHandle[p] # "resets" /\ xQueue[p] = <<>>
<1>1. xHandle[p] \in {"none", "waits", "resets"}
  BY DEF UartTypeOK
<1>2. xHandle[p] # "resets" /\ ~TaskHasEvent(p)
  BY DEF LuaRuns
<1>3. CASE installed[p]
  <2>1. xHandle[p] # "none"
    BY <1>3 DEF UartTypeOK
  <2> QED
    BY <1>1, <1>2, <1>3, <2>1, QueueOfSelf DEF TaskHasEvent
<1>4. CASE ~installed[p]
  BY <1>2, <1>4 DEF UartTypeOK
<1> QED
  BY <1>3, <1>4

LEMMA ResetsStep ==
    ASSUME NoPortZero, UartTypeOK, ResetsAfterPost, [UartNext]_uartVars
    PROVE  ResetsAfterPost'
<1> SUFFICES ASSUME NEW r \in Port, xHandle'[r] = "resets", recv'[r]
             PROVE  Len(bus') = BusLen \/ \E k \in 1 .. Len(bus') : bus'[k] = r
  BY DEF ResetsAfterPost
<1> DEFINE Kept == xHandle[r] = "resets" /\ recv[r]
<1> USE SizeAssumption
<1>1. bus \in Seq(Port \cup {None}) /\ Len(bus) <= BusLen /\ xHandle \in [Port -> {"none", "waits", "resets"}]
  BY DEF UartTypeOK
<1>2. ASSUME Kept, bus' = bus
      PROVE  Len(bus') = BusLen \/ \E k \in 1 .. Len(bus') : bus'[k] = r
  BY <1>2 DEF ResetsAfterPost
<1>3. ASSUME Kept, NEW m \in Port \cup {None}, luat_msgbus_put(m)
      PROVE  Len(bus') = BusLen \/ \E k \in 1 .. Len(bus') : bus'[k] = r
  <2>1. /\ Len(bus') <= BusLen /\ Len(bus') >= Len(bus) /\ bus' \in Seq(Port \cup {None})
        /\ (\E k \in 1 .. Len(bus) : bus[k] = r) => \E k \in 1 .. Len(bus') : bus'[k] = r
    BY <1>1, <1>3, PutKeeps
  <2>2. Len(bus) = BusLen \/ \E k \in 1 .. Len(bus) : bus[k] = r
    BY <1>3 DEF ResetsAfterPost
  <2> QED
    BY <1>1, <2>1, <2>2
<1>4. LuaRuns => ~(xHandle[r] = "resets")
  BY DEF LuaRuns
<1>5. ASSUME NEW p \in Port, NEW e \in Event, Interrupt(p, e)
      PROVE  Kept /\ bus' = bus
  BY <1>5 DEF Interrupt
<1>6. ASSUME NEW p \in Port, IrqTask(p)
      PROVE  Len(bus') = BusLen \/ \E k \in 1 .. Len(bus') : bus'[k] = r
  <2>1. CASE p # r
    <3>1. Kept
      BY <1>1, <1>6, <2>1 DEF IrqTask
    <3>2. bus' = bus \/ luat_msgbus_put(p)
      BY <1>6 DEF IrqTask
    <3> QED
      BY <1>2, <1>3, <3>1, <3>2
  <2>2. CASE p = r
    <3>1. xHandle[r] # "resets"
      BY <1>6, <2>2 DEF IrqTask, TaskHasEvent
    <3>2. luat_msgbus_put(r)
      BY <1>6, <2>2, <3>1 DEF IrqTask
    <3>3. CASE Len(bus) < BusLen
      BY <1>1, <3>2, <3>3, PutKeeps
    <3>4. CASE ~(Len(bus) < BusLen)
      BY <1>1, <3>2, <3>4 DEF luat_msgbus_put
    <3> QED
      BY <3>3, <3>4
  <2> QED
    BY <2>1, <2>2
<1>7. ASSUME NEW p \in Port, IrqTaskResets(p)
      PROVE  Kept /\ bus' = bus
  BY <1>1, <1>7 DEF IrqTaskResets
<1>8. ASSUME NEW p \in Port, IrqTaskAborts(p)
      PROVE  Kept /\ bus' = bus
  BY <1>8 DEF IrqTaskAborts
<1>9. ASSUME NEW p \in Port, luat_uart_setup(p) \/ luat_uart_close(p)
      PROVE  FALSE
  BY <1>1, <1>4, <1>9 DEF luat_uart_setup, luat_uart_close
<1>10. ASSUME NEW p \in Port, NEW callback \in BOOLEAN, l_uart_on(p, callback)
       PROVE  FALSE
  BY <1>4, <1>10 DEF l_uart_on
<1>11. CASE l_uart_handler \/ l_uart_read
  BY <1>4, <1>11 DEF l_uart_handler, l_uart_read
<1>12. CASE OtherPosts
  BY <1>3, <1>12 DEF OtherPosts
<1>13. CASE UNCHANGED uartVars
  BY <1>2, <1>13 DEF uartVars
<1> HIDE DEF Kept
<1> QED
  BY <1>2, <1>5, <1>6, <1>7, <1>8, <1>9, <1>10, <1>11, <1>12, <1>13 DEF UartNext

LEMMA InterruptQuiet ==
    ASSUME UartTypeOK, QuietEventsHaveBytes, NEW p \in Port, NEW e \in Event,
           Interrupt(p, e), xHandle[p] # "resets",
           ~\E k \in 1 .. Len(xQueue'[p]) : Announces(xQueue'[p][k])
    PROVE  FullChunk * Len(xQueue'[p]) <= data'[p] + stash'[p]
<1> USE SizeAssumption
<1>1. /\ e.size \in 1 .. FullChunk
      /\ data[p] \in 0 .. BufLen /\ stash[p] = 0
      /\ xQueue[p] \in Seq(Event) /\ Len(xQueue[p]) \in Nat
  <2>1. e.size \in 1 .. FullChunk
    BY DEF Event
  <2>2. xQueue[p] \in Seq(Event)
    BY DEF UartTypeOK
  <2>3. data[p] \in 0 .. BufLen /\ stash[p] = 0
    BY DEF UartTypeOK, Interrupt
  <2> QED
    BY <2>1, <2>2, <2>3
<1>2. data'[p] + stash'[p] = data[p] + e.size
  BY <1>1 DEF Interrupt, UartTypeOK
<1>3. CASE Len(xQueue[p]) < QueueLen
  <2>1. xQueue'[p] = Append(xQueue[p], e)
    BY <1>3 DEF Interrupt, QueueEvent, UartTypeOK
  <2>2. Len(xQueue'[p]) = Len(xQueue[p]) + 1
    BY <1>1, <2>1, AppendFacts
  <2>3. ~Announces(e)
    BY <1>1, <2>1, <2>2, AppendFacts
  <2>4. e.size = FullChunk
    BY <2>3, QuietEvents DEF Interrupt
  <2>5. ~\E k \in 1 .. Len(xQueue[p]) : Announces(xQueue[p][k])
    BY <1>1, <2>1, <2>2, AppendFacts
  <2>6. FullChunk * Len(xQueue[p]) <= data[p]
    BY <1>1, <2>5 DEF QuietEventsHaveBytes
  <2>7. FullChunk * (Len(xQueue[p]) + 1) = FullChunk * Len(xQueue[p]) + FullChunk
    BY <1>1
  <2>8. FullChunk * Len(xQueue[p]) \in Int
    BY <1>1
  <2> QED
    BY <1>1, <1>2, <2>2, <2>4, <2>6, <2>7, <2>8
<1>4. CASE ~(Len(xQueue[p]) < QueueLen)
  <2>1. xQueue'[p] = xQueue[p]
    BY <1>4 DEF Interrupt, QueueEvent
  <2>2. FullChunk * Len(xQueue[p]) <= data[p]
    BY <1>1, <2>1 DEF QuietEventsHaveBytes
  <2>3. FullChunk * Len(xQueue[p]) \in Int
    BY <1>1
  <2> QED
    BY <1>1, <1>2, <2>1, <2>2, <2>3
<1> QED
  BY <1>3, <1>4

LEMMA IrqTaskQuiet ==
    ASSUME NoPortZero, UartTypeOK, QuietEventsHaveBytes, NEW p \in Port, IrqTask(p),
           xHandle'[p] # "resets",
           ~\E k \in 1 .. Len(xQueue'[p]) : Announces(xQueue'[p][k])
    PROVE  FullChunk * Len(xQueue'[p]) <= data'[p] + stash'[p]
<1> USE SizeAssumption
<1>1. /\ xQueue[p] \in Seq(Event) /\ xQueue[p] # <<>>
      /\ xHandle[p] = "waits"
      /\ data[p] \in 0 .. BufLen /\ stash[p] \in 0 .. FullChunk
  BY QueueOfSelf DEF IrqTask, TaskHasEvent, UartTypeOK
<1>2. xQueue'[p] = Tail(xQueue[p])
  BY QueueOfSelf DEF IrqTask, UartTypeOK
<1>3. ~Announces(xQueue[p][1])
  BY <1>1, QueueOfSelf, TailFacts DEF IrqTask, UartTypeOK
<1>4. /\ Len(xQueue[p]) \in Nat /\ Len(xQueue'[p]) = Len(xQueue[p]) - 1
      /\ \A k \in 1 .. Len(xQueue[p]) - 1 : xQueue'[p][k] = xQueue[p][k + 1]
  BY <1>1, <1>2, TailFacts
<1>5. ~\E k \in 1 .. Len(xQueue[p]) : Announces(xQueue[p][k])
  <2> SUFFICES ASSUME NEW k \in 1 .. Len(xQueue[p]), Announces(xQueue[p][k])
               PROVE  FALSE
    OBVIOUS
  <2>1. k - 1 \in 1 .. Len(xQueue'[p]) /\ k - 1 \in 1 .. Len(xQueue[p]) - 1 /\ (k - 1) + 1 = k
    BY <1>3, <1>4
  <2>2. xQueue'[p][k - 1] = xQueue[p][k]
    BY <1>4, <2>1
  <2> QED
    BY <2>1, <2>2
<1>6. FullChunk * Len(xQueue[p]) <= data[p] + stash[p]
  BY <1>1, <1>5 DEF QuietEventsHaveBytes
<1>7. FullChunk * (Len(xQueue[p]) - 1) = FullChunk * Len(xQueue[p]) - FullChunk
      /\ FullChunk * Len(xQueue[p]) \in Int
  BY <1>4
<1>8. data' = data /\ stash' = stash
  BY DEF IrqTask
<1> QED
  BY <1>1, <1>4, <1>6, <1>7, <1>8

LEMMA QuietStep ==
    ASSUME NoPortZero, UartTypeOK, QuietEventsHaveBytes, [UartNext]_uartVars
    PROVE  QuietEventsHaveBytes'
<1> SUFFICES ASSUME NEW r \in Port, xHandle'[r] # "resets",
                    ~\E k \in 1 .. Len(xQueue'[r]) : Announces(xQueue'[r][k])
             PROVE  FullChunk * Len(xQueue'[r]) <= data'[r] + stash'[r]
  BY DEF QuietEventsHaveBytes
<1> USE SizeAssumption
<1>1. data'[r] \in 0 .. BufLen /\ stash'[r] \in 0 .. FullChunk
  BY TypeStep DEF UartTypeOK
<1>2. ASSUME xQueue'[r] = <<>>
      PROVE  FullChunk * Len(xQueue'[r]) <= data'[r] + stash'[r]
  <2>1. FullChunk * 0 = 0 /\ Len(xQueue'[r]) = 0
    BY <1>2
  <2> QED
    BY <1>1, <2>1
<1>3. ASSUME xHandle[r] # "resets", xQueue'[r] = xQueue[r],
             data'[r] = data[r], stash'[r] = stash[r]
      PROVE  FullChunk * Len(xQueue'[r]) <= data'[r] + stash'[r]
  BY <1>3 DEF QuietEventsHaveBytes
<1>4. ASSUME LuaRuns, xQueue' = xQueue
      PROVE  FullChunk * Len(xQueue'[r]) <= data'[r] + stash'[r]
  BY <1>2, <1>4, LuaRunsAlone
<1>5. ASSUME NEW p \in Port, NEW e \in Event, Interrupt(p, e)
      PROVE  FullChunk * Len(xQueue'[r]) <= data'[r] + stash'[r]
  <2>1. CASE p = r
    <3>1. xHandle[r] # "resets"
      BY <1>5 DEF Interrupt
    <3> QED
      BY <1>5, <2>1, <3>1, InterruptQuiet
  <2>2. CASE p # r
    BY <1>3, <1>5, <2>2 DEF Interrupt, QueueEvent, UartTypeOK
  <2> QED
    BY <2>1, <2>2
<1>6. ASSUME NEW p \in Port, IrqTask(p)
      PROVE  FullChunk * Len(xQueue'[r]) <= data'[r] + stash'[r]
  <2>1. CASE p = r
    BY <1>6, <2>1, IrqTaskQuiet
  <2>2. CASE p # r
    BY <1>3, <1>6, <2>2, QueueOfSelf DEF IrqTask, UartTypeOK
  <2> QED
    BY <2>1, <2>2
<1>7. ASSUME NEW p \in Port, IrqTaskResets(p)
      PROVE  FullChunk * Len(xQueue'[r]) <= data'[r] + stash'[r]
  <2>1. CASE p = r
    BY <1>2, <1>7, <2>1 DEF IrqTaskResets, UartTypeOK
  <2>2. CASE p # r
    BY <1>3, <1>7, <2>2 DEF IrqTaskResets, UartTypeOK
  <2> QED
    BY <2>1, <2>2
<1>8. ASSUME NEW p \in Port, IrqTaskAborts(p)
      PROVE  FullChunk * Len(xQueue'[r]) <= data'[r] + stash'[r]
  BY <1>3, <1>8 DEF IrqTaskAborts, driverVars
<1>9. ASSUME NEW p \in Port, luat_uart_setup(p)
      PROVE  FullChunk * Len(xQueue'[r]) <= data'[r] + stash'[r]
  BY <1>4, <1>9 DEF luat_uart_setup
<1>10. ASSUME NEW p \in Port, luat_uart_close(p)
       PROVE  FullChunk * Len(xQueue'[r]) <= data'[r] + stash'[r]
  <2>1. xQueue[r] = <<>> /\ xQueue' = [xQueue EXCEPT ![p] = <<>>]
    BY <1>10, LuaRunsAlone DEF luat_uart_close
  <2> QED
    BY <1>2, <2>1 DEF UartTypeOK
<1>11. ASSUME NEW p \in Port, NEW callback \in BOOLEAN, l_uart_on(p, callback)
       PROVE  FullChunk * Len(xQueue'[r]) <= data'[r] + stash'[r]
  BY <1>4, <1>11 DEF l_uart_on, driverVars
<1>12. CASE l_uart_handler \/ l_uart_read
  BY <1>4, <1>12 DEF l_uart_handler, l_uart_read, driverVars
<1>13. CASE OtherPosts
  BY <1>3, <1>13 DEF OtherPosts, driverVars
<1>14. CASE UNCHANGED uartVars
  BY <1>3, <1>14 DEF uartVars, driverVars
<1> QED
  BY <1>5, <1>6, <1>7, <1>8, <1>9, <1>10, <1>11, <1>12, <1>13, <1>14 DEF UartNext

LEMMA InvStep ==
    NoPortZero /\ UartInv /\ [UartNext]_uartVars => UartInv'
  BY TypeStep, ResetsStep, QuietStep DEF UartInv

LEMMA InvInit == UartInit => UartInv
<1> SUFFICES ASSUME UartInit PROVE UartInv
  OBVIOUS
<1>1. UartTypeOK
  BY TypeInit
<1>2. ResetsAfterPost
  BY DEF UartInit, ResetsAfterPost
<1>3. QuietEventsHaveBytes
  <2> SUFFICES ASSUME NEW p \in Port
               PROVE  FullChunk * Len(xQueue[p]) <= data[p] + stash[p]
    BY DEF QuietEventsHaveBytes
  <2>1. xQueue[p] = <<>> /\ data[p] = 0 /\ stash[p] = 0
    BY DEF UartInit
  <2>2. Len(xQueue[p]) = 0 /\ FullChunk * 0 = 0
    BY <2>1, SizeAssumption
  <2> QED
    BY <2>1, <2>2
<1> QED
  BY <1>1, <1>2, <1>3 DEF UartInv

-----------------------------------------------------------------------------
(* Every byte is announced. *)

(* What Announced says of a port does not change with the rest. *)
LEMMA SamePort ==
    ASSUME NEW p \in Port, Announced(p),
           data'[p] = data[p], stash'[p] = stash[p], streaming'[p] = streaming[p],
           xQueue'[p] = xQueue[p], reading' = reading,
           (\E k \in 1 .. Len(bus) : bus[k] = p) => \E k \in 1 .. Len(bus') : bus'[k] = p
    PROVE  Announced(p)'
  BY DEF Announced, Announces

LEMMA InterruptAnnounces ==
    ASSUME UartTypeOK, ResetsAfterPost, QuietEventsHaveBytes, UartTypeOK',
           NEW p \in Port, NEW e \in Event, Interrupt(p, e),
           recv[p], Len(bus) < BusLen, ~(streaming'[p] /\ stash'[p] > 0)
    PROVE  Announced(p)'
<1> USE SizeAssumption
<1>1. streaming'[p] = ~e.timeout_flag /\ stash'[p] \in 0 .. FullChunk
      /\ e.timeout_flag \in BOOLEAN
  BY DEF Interrupt, UartTypeOK, Event
<1>2. CASE ~e.timeout_flag
  <2>1. streaming'[p]
    BY <1>1, <1>2, Zenon
  <2>2. stash'[p] = 0
    BY <1>1, <2>1
  <2> QED
    BY <2>1, <2>2 DEF Announced
<1>3. CASE e.timeout_flag /\ Len(xQueue[p]) < QueueLen
  <2>1. xQueue'[p] = Append(xQueue[p], e) /\ xQueue[p] \in Seq(Event)
    BY <1>3 DEF Interrupt, QueueEvent, UartTypeOK
  <2>2. /\ Len(xQueue'[p]) = Len(xQueue[p]) + 1 /\ Len(xQueue[p]) \in Nat
        /\ xQueue'[p][Len(xQueue[p]) + 1] = e
    BY <2>1, AppendFacts
  <2>3. Announces(e)
    BY <1>3 DEF Announces
  <2>4. \E k \in 1 .. Len(xQueue'[p]) : Announces(xQueue'[p][k])
    BY <2>2, <2>3
  <2> QED
    BY <2>4 DEF Announced, Announces
<1>4. CASE ~(Len(xQueue[p]) < QueueLen)
  <2>1. xQueue' = xQueue /\ bus' = bus
    BY <1>4 DEF Interrupt, QueueEvent
  <2>2. Len(xQueue[p]) = QueueLen /\ data[p] \in 0 .. BufLen
    BY <1>4 DEF UartTypeOK
  <2>3. CASE xHandle[p] = "resets"
    <3>1. \E k \in 1 .. Len(bus) : bus[k] = p
      BY <2>3 DEF ResetsAfterPost
    <3> QED
      BY <2>1, <3>1 DEF Announced
  <2>4. CASE \E k \in 1 .. Len(xQueue[p]) : Announces(xQueue[p][k])
    BY <2>1, <2>4 DEF Announced, Announces
  <2>5. CASE FullChunk * Len(xQueue[p]) <= data[p] + stash[p]
    <3>1. stash[p] = 0
      BY DEF Interrupt
    <3>2. FullChunk * QueueLen <= data[p] /\ FullChunk * QueueLen \in Int
      BY <2>2, <2>5, <3>1
    <3> QED
      BY <2>2, <3>2, QueueAssumption
  <2> QED
    BY <2>3, <2>4, <2>5 DEF QuietEventsHaveBytes
<1> QED
  BY <1>1, <1>2, <1>3, <1>4

LEMMA IrqTaskAnnounces ==
    ASSUME NoPortZero, UartTypeOK, NEW p \in Port, IrqTask(p),
           Announced(p), recv[p], Len(bus) < BusLen
    PROVE  Announced(p)'
<1>1. xQueue[p] \in Seq(Event) /\ xQueue[p] # <<>>
  BY QueueOfSelf DEF IrqTask, TaskHasEvent, UartTypeOK
<1>2. xQueue'[p] = Tail(xQueue[p])
  BY QueueOfSelf DEF IrqTask, UartTypeOK
<1>3. /\ Len(xQueue[p]) \in Nat /\ Len(xQueue'[p]) = Len(xQueue[p]) - 1
      /\ \A k \in 1 .. Len(xQueue[p]) - 1 : xQueue'[p][k] = xQueue[p][k + 1]
      /\ Head(xQueue[p]) = xQueue[p][1]
  BY <1>1, <1>2, TailFacts
<1>4. CASE Announces(xQueue[p][1])
  <2>1. luat_msgbus_put(p)
    BY <1>3, <1>4, QueueOfSelf DEF IrqTask
  <2>2. \E k \in 1 .. Len(bus') : bus'[k] = p
    <3>1. bus \in Seq(Port \cup {None}) /\ Len(bus) <= BusLen
      BY DEF UartTypeOK
    <3> QED
      BY <2>1, <3>1, PutKeeps
  <2> QED
    BY <2>2 DEF Announced
<1>5. CASE ~Announces(xQueue[p][1])
  <2>1. bus' = bus /\ data' = data /\ stash' = stash /\ streaming' = streaming
        /\ reading' = reading
    BY <1>3, <1>5, QueueOfSelf DEF IrqTask
  <2>2. CASE \E k \in 1 .. Len(xQueue[p]) : Announces(xQueue[p][k])
    <3>1. PICK k \in 1 .. Len(xQueue[p]) : Announces(xQueue[p][k])
      BY <2>2
    <3>2. k - 1 \in 1 .. Len(xQueue'[p]) /\ k - 1 \in 1 .. Len(xQueue[p]) - 1
          /\ (k - 1) + 1 = k
      BY <1>3, <1>5, <3>1
    <3>3. xQueue'[p][k - 1] = xQueue[p][k]
      BY <1>3, <3>2
    <3>4. \E i \in 1 .. Len(xQueue'[p]) : Announces(xQueue'[p][i])
      BY <3>1, <3>2, <3>3
    <3> QED
      BY <3>4 DEF Announced, Announces
  <2>3. CASE ~\E k \in 1 .. Len(xQueue[p]) : Announces(xQueue[p][k])
    BY <2>1, <2>3 DEF Announced
  <2> QED
    BY <2>2, <2>3
<1> QED
  BY <1>4, <1>5

(* The message becomes the callback that reads. *)
LEMMA HandlerAnnounces ==
    ASSUME NoPortZero, UartTypeOK, NEW p \in Port, l_uart_handler,
           Announced(p), received'[p]
    PROVE  Announced(p)'
<1>1. bus \in Seq(Port \cup {None}) /\ bus # <<>> /\ bus' = Tail(bus)
  BY DEF l_uart_handler, UartTypeOK
<1>2. /\ Len(bus) \in Nat /\ Len(bus') = Len(bus) - 1 /\ Head(bus) = bus[1]
      /\ \A k \in 1 .. Len(bus) - 1 : bus'[k] = bus[k + 1]
  BY <1>1, TailFacts
<1>3. xQueue[p] = <<>> /\ reading = None /\ p # None
  BY LuaRunsAlone, PortAssumption DEF l_uart_handler
<1>4. data' = data /\ stash' = stash /\ streaming' = streaming /\ received' = received
  BY DEF l_uart_handler, driverVars
<1>5. CASE \E k \in 1 .. Len(bus) : bus[k] = p
  <2>1. PICK k \in 1 .. Len(bus) : bus[k] = p
    BY <1>5
  <2>2. CASE k = 1
    <3>1. reading' = p
      BY <1>2, <1>3, <1>4, <2>1, <2>2 DEF l_uart_handler
    <3> QED
      BY <3>1 DEF Announced
  <2>3. CASE k # 1
    <3>1. k - 1 \in 1 .. Len(bus') /\ k - 1 \in 1 .. Len(bus) - 1 /\ (k - 1) + 1 = k
      BY <1>2, <2>1, <2>3
    <3>2. bus'[k - 1] = p
      BY <1>2, <2>1, <3>1
    <3>3. \E i \in 1 .. Len(bus') : bus'[i] = p
      BY <3>1, <3>2
    <3> QED
      BY <3>3 DEF Announced
  <2> QED
    BY <2>2, <2>3
<1>6. CASE ~\E k \in 1 .. Len(bus) : bus[k] = p
  <2>1. data[p] + stash[p] = 0 \/ (streaming[p] /\ stash[p] = 0)
    <3>1. ~\E k \in 1 .. Len(xQueue[p]) : Announces(xQueue[p][k])
      BY <1>3
    <3> QED
      BY <1>3, <1>6, <3>1 DEF Announced
  <2> QED
    BY <1>4, <2>1 DEF Announced
<1> QED
  BY <1>5, <1>6

(* The callback returns when the ring buffer is empty; then nothing is kept. *)
LEMMA ReadAnnounces ==
    ASSUME UartTypeOK, NEW p \in Port, l_uart_read, Announced(p)
    PROVE  Announced(p)'
<1> USE SizeAssumption
<1>1. /\ streaming' = streaming /\ xQueue' = xQueue /\ bus' = bus
      /\ reading \in Port
  BY DEF l_uart_read, UartTypeOK
<1>2. CASE reading' = reading /\ reading = p
  BY <1>2 DEF Announced
<1>3. CASE reading # p
  <2>1. data'[p] = data[p] /\ stash'[p] = stash[p]
    BY <1>1, <1>3 DEF l_uart_read, ReadBytes, UartTypeOK
  <2> QED
    BY <1>1, <1>3, <2>1 DEF Announced, Announces
<1>4. CASE reading = p /\ data[p] = 0 /\ data' = data /\ stash' = stash
  <2>1. stash[p] \in 0 .. FullChunk /\ (stash[p] > 0 => data[p] + stash[p] > BufLen)
    BY DEF UartTypeOK
  <2>2. data'[p] + stash'[p] = 0
    BY <1>4, <2>1
  <2> QED
    BY <2>2 DEF Announced
<1> QED
  BY <1>1, <1>2, <1>3, <1>4 DEF l_uart_read

LEMMA AnnounceStep ==
    ASSUME NoPortZero, UartInv, UartTypeOK', [UartNext]_uartVars,
           NEW p \in Port, Announced(p), up', recv[p], received'[p],
           Len(bus) < BusLen, ~(streaming'[p] /\ stash'[p] > 0)
    PROVE  Announced(p)'
<1> USE SizeAssumption DEF UartInv
<1>1. ASSUME NEW q \in Port, NEW e \in Event, Interrupt(q, e)
      PROVE  Announced(p)'
  <2>1. CASE q = p
    BY <1>1, <2>1, InterruptAnnounces
  <2>2. CASE q # p
    BY <1>1, <2>2, SamePort DEF Interrupt, QueueEvent, UartTypeOK
  <2> QED
    BY <2>1, <2>2
<1>2. ASSUME NEW q \in Port, IrqTask(q)
      PROVE  Announced(p)'
  <2>1. CASE q = p
    BY <1>2, <2>1, IrqTaskAnnounces
  <2>2. CASE q # p
    <3>1. xQueue'[p] = xQueue[p]
      BY <1>2, <2>2, QueueOfSelf DEF IrqTask, UartTypeOK
    <3>2. (\E k \in 1 .. Len(bus) : bus[k] = p) => \E k \in 1 .. Len(bus') : bus'[k] = p
      BY <1>2, PutKeeps DEF IrqTask, UartTypeOK
    <3>3. data' = data /\ stash' = stash /\ streaming' = streaming /\ reading' = reading
      BY <1>2 DEF IrqTask
    <3> QED
      BY <3>1, <3>2, <3>3, SamePort
  <2> QED
    BY <2>1, <2>2
<1>3. ASSUME NEW q \in Port, IrqTaskResets(q)
      PROVE  Announced(p)'
  <2>1. CASE q = p
    <3>1. \E k \in 1 .. Len(bus) : bus[k] = p
      BY <1>3, <2>1 DEF IrqTaskResets, ResetsAfterPost
    <3>2. bus' = bus
      BY <1>3 DEF IrqTaskResets
    <3> QED
      BY <3>1, <3>2 DEF Announced
  <2>2. CASE q # p
    BY <1>3, <2>2, SamePort DEF IrqTaskResets, UartTypeOK
  <2> QED
    BY <2>1, <2>2
<1>4. ASSUME NEW q \in Port, IrqTaskAborts(q)
      PROVE  FALSE
  BY <1>4 DEF IrqTaskAborts
<1>5. ASSUME NEW q \in Port, luat_uart_setup(q)
      PROVE  Announced(p)'
  BY <1>5, SamePort DEF luat_uart_setup
<1>6. ASSUME NEW q \in Port, luat_uart_close(q)
      PROVE  Announced(p)'
  <2>1. CASE q = p
    <3>1. data'[p] = 0 /\ stash'[p] = 0
      BY <1>6, <2>1 DEF luat_uart_close, UartTypeOK
    <3> QED
      BY <3>1 DEF Announced
  <2>2. CASE q # p
    BY <1>6, <2>2, SamePort DEF luat_uart_close, UartTypeOK
  <2> QED
    BY <2>1, <2>2
<1>7. ASSUME NEW q \in Port, NEW callback \in BOOLEAN, l_uart_on(q, callback)
      PROVE  Announced(p)'
  BY <1>7, SamePort DEF l_uart_on, driverVars
<1>8. CASE l_uart_handler
  BY <1>8, HandlerAnnounces
<1>9. CASE l_uart_read
  BY <1>9, ReadAnnounces
<1>10. CASE OtherPosts
  <2>1. (\E k \in 1 .. Len(bus) : bus[k] = p) => \E k \in 1 .. Len(bus') : bus'[k] = p
    BY <1>10, PutKeeps DEF OtherPosts, UartTypeOK
  <2> QED
    BY <1>10, <2>1, SamePort DEF OtherPosts, driverVars
<1>11. CASE UNCHANGED uartVars
  BY <1>11, SamePort DEF uartVars, driverVars
<1> QED
  BY <1>1, <1>2, <1>3, <1>4, <1>5, <1>6, <1>7, <1>8, <1>9, <1>10, <1>11 DEF UartNext

(* With the tasks waiting for their own queues, a script with a callback is *)
(* told of every byte, though each task drops the events that come in       *)
(* between its post and its reset: the Lua task reads only after the reset. *)
THEOREM Told == ASSUME NoPortZero PROVE UartSpec => BytesAnnounced
<1>1. UartInit => UartInv
  BY InvInit
<1>2. UartInv /\ [UartNext]_uartVars => UartInv'
  BY NoPortZero, InvStep
<1>3. UartInv /\ UartInv' /\ [UartNext]_uartVars =>
        [\A p \in Port :
           /\ Announced(p) /\ up'
           /\ recv[p] /\ received'[p]
           /\ Len(bus) < BusLen
           /\ ~(streaming'[p] /\ stash'[p] > 0)
           => Announced(p)']_uartVars
  <2> SUFFICES ASSUME UartInv, UartInv', [UartNext]_uartVars,
                      NEW p \in Port, Announced(p), up', recv[p], received'[p],
                      Len(bus) < BusLen, ~(streaming'[p] /\ stash'[p] > 0)
               PROVE  Announced(p)'
    OBVIOUS
  <2> QED
    BY NoPortZero, AnnounceStep DEF UartInv
<1> QED
  BY <1>1, <1>2, <1>3, PTL DEF UartSpec, BytesAnnounced
=============================================================================
