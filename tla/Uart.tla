-------------------------------- MODULE Uart --------------------------------
(***************************************************************************)
(* Receiving on the serial ports: luat_uart_idf5.c and l_uart_handler of    *)
(* luat_lib_uart.c, between the ESP-IDF driver and a script.                *)
(*                                                                          *)
(* The driver's interrupt moves bytes from the hardware to a ring buffer    *)
(* and queues an event for each chunk.  A task per port, uart<n>_irq_task,   *)
(* turns events into messages of the bus.  The Lua task gets the messages   *)
(* and calls the script's callback, which reads until the port has no more, *)
(* as demo/uart/main.lua does.                                              *)
(*                                                                          *)
(* There is one core and the tasks of the ports have a higher priority than *)
(* the Lua task, which runs only while all of them wait; the interrupt may  *)
(* come at any time.  Sending, and the shell, which app_main does not       *)
(* start, are left out.                                                     *)
(***************************************************************************)
EXTENDS Integers, Sequences

CONSTANTS
    Port,       \* the ports in use
    None,
    FullChunk,  \* bytes the hardware holds when it interrupts without a pause
    Announce,   \* events of more bytes are announced without a pause too
    BufLen,     \* bytes in the ring buffer
    QueueLen,   \* events in the queue of a driver
    BusLen

ASSUME PortAssumption == Port \subseteq Nat /\ None \notin Port
(* A chunk has at most the 128 bytes of the hardware, Announce is 1848, the  *)
(* ring buffer takes more than one chunk and the queue more than the buffer. *)
ASSUME SizeAssumption ==
    /\ FullChunk \in Nat \ {0, 1} /\ Announce \in Nat /\ FullChunk < Announce
    /\ BufLen \in Nat /\ FullChunk < BufLen
    /\ QueueLen \in Nat
    /\ BusLen \in Nat \ {0}
ASSUME QueueAssumption == FullChunk * QueueLen > BufLen

VARIABLES
    xHandle,    \* the task of a port: "none", "waits" or, after its post, "resets"
    installed,  \* is the driver of the port installed, and its queue valid?
    xQueue,     \* the driver's events, oldest first
    data,       \* bytes in the ring buffer
    stash,      \* bytes that found it full, with which the interrupts are off
    streaming,  \* has the line not paused since the last chunk?
    recv,       \* uart_port[].recv
    received,   \* does the script have a callback?
    bus,        \* the message bus: ports, and None for other messages
    reading,    \* the port whose callback runs, or None
    up          \* FALSE when FreeRTOS has stopped at a queue that is not there

driverVars == <<installed, xQueue, data, stash, streaming>>
uartVars == <<xHandle, driverVars, recv, received, bus, reading, up>>

(* A chunk ends with a pause (timeout_flag), or is FullChunk long. *)
Event == [size : 1 .. FullChunk, timeout_flag : BOOLEAN]

UartTypeOK ==
    /\ xHandle \in [Port -> {"none", "waits", "resets"}]
    /\ installed \in [Port -> BOOLEAN]
    /\ xQueue \in [Port -> Seq(Event)]
    /\ data \in [Port -> 0 .. BufLen]
    /\ stash \in [Port -> 0 .. FullChunk]
    /\ streaming \in [Port -> BOOLEAN]
    /\ recv \in [Port -> BOOLEAN] /\ received \in [Port -> BOOLEAN]
    /\ bus \in Seq(Port \cup {None})
    /\ reading \in Port \cup {None}
    /\ up \in BOOLEAN
    /\ Len(bus) <= BusLen
    /\ \A p \in Port :
          /\ Len(xQueue[p]) <= QueueLen
          /\ xHandle[p] = "none" => ~installed[p]
          /\ ~installed[p] => data[p] = 0 /\ stash[p] = 0 /\ ~streaming[p] /\ xQueue[p] = <<>>
          /\ stash[p] > 0 => data[p] + stash[p] > BufLen

(* Mutant: the bus has no end. *)
PutAlways(m) == bus' = Append(bus, m)

luat_msgbus_put(m) == bus' = IF Len(bus) < BusLen THEN Append(bus, m) ELSE bus

-----------------------------------------------------------------------------
(* The driver. *)

QueueEvent(p, e) ==
    xQueue' = IF Len(xQueue[p]) < QueueLen
              THEN [xQueue EXCEPT ![p] = Append(@, e)] ELSE xQueue

(* A chunk comes in.  One that finds the ring buffer full is kept, and the  *)
(* interrupts are off until a read has made room for it.                    *)
Interrupt(p, e) ==
    /\ up /\ installed[p] /\ stash[p] = 0
    /\ e.timeout_flag \/ e.size = FullChunk
    /\ IF data[p] + e.size <= BufLen
       THEN data' = [data EXCEPT ![p] = @ + e.size] /\ UNCHANGED stash
       ELSE stash' = [stash EXCEPT ![p] = e.size] /\ UNCHANGED data
    /\ streaming' = [streaming EXCEPT ![p] = ~e.timeout_flag]
    /\ QueueEvent(p, e)
    /\ UNCHANGED <<xHandle, installed, recv, received, bus, reading, up>>

(* uart_read_bytes: up to as many bytes as asked for, then what was kept. *)
ReadBytes(p) ==
    \E n \in 1 .. data[p] :
        IF data[p] - n + stash[p] <= BufLen
        THEN /\ data' = [data EXCEPT ![p] = @ - n + stash[p]]
             /\ stash' = [stash EXCEPT ![p] = 0]
        ELSE data' = [data EXCEPT ![p] = @ - n] /\ UNCHANGED stash

-----------------------------------------------------------------------------
(* uart0_irq_task, uart1_irq_task, uart2_irq_task. *)

(* The queue a task waits for: that of port 0 waits for the queue of port 1. *)
QueueOf(p) == IF p = 0 THEN 1 ELSE p

(* Mutant: only large events are announced. *)
AnnouncesLarge(e) == e.size > Announce

Announces(e) == e.timeout_flag \/ e.size > Announce

TaskHasEvent(p) ==
    /\ xHandle[p] = "waits"
    /\ QueueOf(p) \in Port /\ installed[QueueOf(p)]
    /\ xQueue[QueueOf(p)] # <<>>

(* The task takes an event and, if it is one to announce, posts a message. *)
IrqTask(p) ==
    /\ up /\ TaskHasEvent(p)
    /\ xQueue' = [xQueue EXCEPT ![QueueOf(p)] = Tail(@)]
    /\ IF Announces(Head(xQueue[QueueOf(p)]))
       THEN /\ xHandle' = [xHandle EXCEPT ![p] = "resets"]
            /\ IF recv[p] THEN luat_msgbus_put(p) ELSE UNCHANGED bus
       ELSE UNCHANGED <<xHandle, bus>>
    /\ UNCHANGED <<installed, data, stash, streaming, recv, received, reading, up>>

(* Then it drops the events that came in meanwhile. *)
IrqTaskResets(p) ==
    /\ up /\ xHandle[p] = "resets"
    /\ xHandle' = [xHandle EXCEPT ![p] = "waits"]
    /\ xQueue' = [xQueue EXCEPT ![p] = <<>>]
    /\ up' = installed[p]
    /\ UNCHANGED <<installed, data, stash, streaming, recv, received, bus, reading>>

(* xQueueReceive of a queue that was never made asserts; one that was        *)
(* deleted is freed memory, and the task may also never wake.                *)
IrqTaskAborts(p) ==
    /\ up /\ xHandle[p] # "none"
    /\ QueueOf(p) \in Port => ~installed[QueueOf(p)]
    /\ up' = FALSE
    /\ UNCHANGED <<xHandle, driverVars, recv, received, bus, reading>>

-----------------------------------------------------------------------------
(* The Lua task. *)

(* Mutant: it runs on another core. *)
LuaRunsBeside == up

LuaRuns == up /\ \A p \in Port : xHandle[p] # "resets" /\ ~TaskHasEvent(p)

(* uart.setup.  A port that is set up only changes its parameters.  The     *)
(* result of uart_driver_install is ignored: it makes no queue when the     *)
(* buffer is not larger than the hardware's.                                *)
luat_uart_setup(p) ==
    /\ LuaRuns
    /\ xHandle[p] = "none"
    /\ installed' \in {installed, [installed EXCEPT ![p] = TRUE]}
    /\ xHandle' = [xHandle EXCEPT ![p] = "waits"]
    /\ UNCHANGED <<xQueue, data, stash, streaming, recv, received, bus, reading, up>>

(* uart.close deletes the task and the driver, and leaves recv and the      *)
(* callback.                                                                *)
luat_uart_close(p) ==
    /\ LuaRuns
    /\ xHandle[p] # "none"
    /\ xHandle' = [xHandle EXCEPT ![p] = "none"]
    /\ installed' = [installed EXCEPT ![p] = FALSE]
    /\ xQueue' = [xQueue EXCEPT ![p] = <<>>]
    /\ data' = [data EXCEPT ![p] = 0]
    /\ stash' = [stash EXCEPT ![p] = 0]
    /\ streaming' = [streaming EXCEPT ![p] = FALSE]
    /\ UNCHANGED <<recv, received, bus, reading, up>>

(* uart.on(p, "receive", callback), or without a callback, which leaves recv. *)
l_uart_on(p, callback) ==
    /\ LuaRuns
    /\ received' = [received EXCEPT ![p] = callback]
    /\ recv' = [recv EXCEPT ![p] = @ \/ callback]
    /\ UNCHANGED <<xHandle, driverVars, bus, reading, up>>

(* The handler of the next message. *)
l_uart_handler ==
    /\ LuaRuns /\ reading = None
    /\ bus # <<>>
    /\ bus' = Tail(bus)
    /\ reading' = IF Head(bus) # None /\ received[Head(bus)] THEN Head(bus) ELSE None
    /\ UNCHANGED <<xHandle, driverVars, recv, received, up>>

(* The callback reads, and returns when there is nothing left. *)
l_uart_read ==
    /\ LuaRuns /\ reading # None
    /\ \/ /\ ReadBytes(reading)
          /\ UNCHANGED reading
       \/ /\ data[reading] = 0
          /\ reading' = None
          /\ UNCHANGED <<data, stash>>
    /\ UNCHANGED <<xHandle, installed, xQueue, streaming, recv, received, bus, up>>

(* The other users of the bus. *)
OtherPosts ==
    /\ up
    /\ luat_msgbus_put(None)
    /\ UNCHANGED <<xHandle, driverVars, recv, received, reading, up>>

-----------------------------------------------------------------------------
UartInit ==
    /\ xHandle = [p \in Port |-> "none"]
    /\ installed = [p \in Port |-> FALSE]
    /\ xQueue = [p \in Port |-> <<>>]
    /\ data = [p \in Port |-> 0]
    /\ stash = [p \in Port |-> 0]
    /\ streaming = [p \in Port |-> FALSE]
    /\ recv = [p \in Port |-> FALSE]
    /\ received = [p \in Port |-> FALSE]
    /\ bus = <<>>
    /\ reading = None
    /\ up = TRUE

UartNext ==
    \/ \E p \in Port :
          \/ \E e \in Event : Interrupt(p, e)
          \/ IrqTask(p)
          \/ IrqTaskResets(p)
          \/ IrqTaskAborts(p)
          \/ luat_uart_setup(p)
          \/ luat_uart_close(p)
          \/ \E callback \in BOOLEAN : l_uart_on(p, callback)
    \/ l_uart_handler
    \/ l_uart_read
    \/ OtherPosts

UartSpec == UartInit /\ [][UartNext]_uartVars

-----------------------------------------------------------------------------
(* Properties. *)

(* Bytes of the port wait for nothing: there are none, or the pause that    *)
(* ends them is to come, or its event, or the message, or the callback is   *)
(* reading.                                                                 *)
Announced(p) ==
    \/ data[p] + stash[p] = 0
    \/ streaming[p] /\ stash[p] = 0
    \/ \E k \in 1 .. Len(xQueue[p]) : Announces(xQueue[p][k])
    \/ \E k \in 1 .. Len(bus) : bus[k] = p
    \/ reading = p

(* A script that has its callback set is told of all that comes in, though  *)
(* the task drops events and messages carry no count: only a full bus, or a *)
(* line that fills the ring buffer without a pause, can take that away.     *)
BytesAnnounced ==
    [][\A p \in Port :
         /\ Announced(p) /\ up'
         /\ recv[p] /\ received'[p]
         /\ Len(bus) < BusLen
         /\ ~(streaming'[p] /\ stash'[p] > 0)
         => Announced(p)']_uartVars
=============================================================================
