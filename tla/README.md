# HyperLab LuatOS: a TLA+ model

LuatOS runs Lua scripts on a microcontroller; this repository is its port to the
ESP32-C3 (`luatos-soc-idf5/`) with a Bluetooth console added for HyperLab.
Almost all of its 9604 files are vendored libraries, generated bindings and board
support. The logic of its own that is hard to get right, and that these modules
describe, is

* how a timer that expires in one thread wakes a Lua coroutine in another
  (`TimerService`, `LuatTimer`, `LuatSys`),
* the mailboxes that Lua tasks use on top of it (`SysPlus`),
* the interrupts of pins and serial ports on their way to a script (`Gpio`, `Uart`),
* the key-value store, which a loss of power may interrupt anywhere (`KeyValue`, `Fskv`),
* the Bluetooth console and file transfer, where the thread of the Bluetooth host
  and `ble_task` share unlocked variables (`BleConsole`, `BleFile`).

Paths below are relative to the repository. `$L` stands for `src/LuatOS` and `$H`
for `src/luatos-soc-idf5/luatos`.

## Contents

1. Inventory of the system
2. The modules and how they correspond to the code
3. The runs: bounds, fairness and what they show
4. What is proved
5. Where code and documentation disagree
6. What is not modelled
7. Plan

## 1. Inventory

### Threads and how they meet

    timer daemon --luat_timer_callback--> luat_msgbus_put --+
    drivers, ISRs ------------------------luat_msgbus_put --+--> queue --> Lua task: rtos.receive
      (pins: the handler of the pin; serial ports: uart<n>_irq_task)         |
                                                                             |  sys.safeRun
                                                                             v
                                                     coroutines and callbacks (sys, sysplus)

    Bluetooth host --handleReceivedMessage--> TextBuffer, flags, messageQueue --> ble_task: lua_loop
                   --receiveOTA-------------> msgota -------------------------> ble_task: processOTAData

The Lua task runs all Lua code of the firmware scripts, one coroutine at a time. The
timer daemon runs FreeRTOS timer callbacks. `ble_task` handles what came in over
Bluetooth, and runs the scripts sent from the phone.

### Components

| component | where | state | operations | what is hard |
|---|---|---|---|---|
| Timers and message bus | `$L/luat/freertos/luat_timer_freertos.c`, `luat_msgbus_freertos.c`, `$L/luat/modules/luat_lib_rtos.c` | `timers[]`, heap blocks, FreeRTOS timers, the queue | `rtos.timer_start`, `timer_stop`, `rtos.receive`, the daemon's callback | two threads without a lock; a lookup whose result is used later; a bounded queue whose overflow is ignored; commands to the daemon that may be refused |
| Lua scheduler | `$L/script/corelib/sys.lua` | the pools `timerPool`, `taskTimerPool`, `para`; `subscribers`, `messageQueue` | `wait`, `waitUntil`, `waitUntilMsg`, `taskInit`, `timerStart`, `timerStop`, `publish`, `subscribe`, `unsubscribe`, `safeRun` | two id counters that wrap; a timeout racing a message; callbacks that call back into the scheduler; failed starts |
| Mailboxes | `$L/script/corelib/sysplus.lua` | `taskList`: `msgQueue`, `To`, `cb` | `taskInitEx`, `taskDel`, `waitMsg`, `sendMsg`, `cleanMsg` | a message queue and a stream of wake-ups that must agree; timeouts; deletion during a wait |
| C waits (cwait) | `$L/luat/modules/luat_base.c` 92-177 | a topic per wait | `luat_pushcwait`, `luat_cbcwait`, `sysplus.cwaitMt` | one-shot topic published before or after the task subscribes |
| Serial ports | `$H/components/luat/port/luat_uart_idf5.c`, `$L/luat/modules/luat_lib_uart.c` | the driver's ring buffer and events, `uart_port[]`, callbacks | `uart.setup`, `on`, `read`, `close`, the task of each port | events that are dropped, messages without a count, a task per port and one of them on the wrong queue |
| VM start-up | `$L/luat/modules/luat_main.c` | `L` | `luat_main`, panic | sequential; `lua_sethook` follows `luat_main`, `ble_task` is created after both |
| GPIO interrupts | `$L/luat/modules/luat_lib_gpio.c`, `$H/components/luat/port/luat_gpio_idf5.c`, `$L/components/rtos/freertos/luat_rtos_freertos_timer.c` | `gpios[]`, `gpio_isr_cb[]`, the debounce timers and the daemon's commands | `gpio.setup`, `close`, `count`, `debounce`, the interrupt handler, the timer's callback | an interrupt between any two writes of a call; a timer that is freed while it may expire; a tick counter that wraps |
| RTOS events | `$L/components/rtos/freertos/` | event queues, callbacks of tasks | send, receive with filter, timers | a timeout with a filter restarts its clock |
| BLE console | `$H/components/ble_hyperlab/src/ble_controller.cpp`, `$H/main/idf5_main.cpp` | `TextMode`, `TextBuffer`, `executeTextBufferFlag`, `messageQueue`, `isClosed`, `luaStopScript` | packets, `switchToTextMode`, `executeTextBuffer`, `lua_loop`, `luaClose`, `hookfunc` | flags shared by two threads; a request during a script; an abort around the end of a script |
| BLE file transfer | `ble_controller.cpp`, `spiffsfile.h` | `blankota`, `msgota`, the open file, its buffer and counts | `receiveOTA`, `fileopen`, `fileclose`, `writeFile`, `flushBuffer`, `closeFile` | lost connections in a frame, short writes, resets, exact buffer boundaries |
| Key-value store | `$L/components/fskv`, over `$L/components/lfs` | a file per key | `fskv.set`, `sett`, `get`, `del`, `clear`, `iter`, `next` | a loss of power between two commits; results of the file system that are ignored; an iterator that is a count |
| Virtual file system | `$L/luat/vfs/luat_vfs.c` | mount table, table of open files | mount, open, close | a full table; a close of an unknown descriptor |
| Pin waveforms | `$L/components/statem/luat_statem.c` | program counter of the waveform | execute | bounds of the program |
| cmux, shell, REPL | `$L/components/cmux`, `shell`, `repl` | line and frame buffers | parse | frames cut at any byte |
| Network clients | `$L/components/network` | sockets, reconnect timers | connect, close, release | not part of the build for this board |
| Drivers | `$L/luat/modules/luat_lib_*.c` | registers | argument checks, register access | nothing that is not I/O |
| Displays, fonts, codecs, libc | `$L/components/lvgl`, `u8g2`, ... | | | vendored or generated |

### What makes the components correct

* Timers: the slot table and the heap agree under every order of start, stop and
  expiry; the repeat count the handler counts down and the reload flag of the
  FreeRTOS timer end together; an expiry reaches the Lua task unless the queue is full.
* Scheduler: a sleeping task always has a wake-up on its way; a timer resumes the
  task that sleeps on it, at its time and never a later wait; Lua never forgets a
  timer that runs below; arguments live as long as their timer.
* Mailboxes: each message a waiting task may take has a wake-up; a timeout belongs to
  the wait that asked for it; a wait with a timeout ends.
* Console: text runs once, a request made while nothing runs is carried out, an abort
  ends a script, and no order of packets brings the machine down.
* File transfer: no byte is lost between frame and flash; "complete" is the truth.
* Key-value store: a call takes effect on its own key, once or not at all.
* Serial ports: a script with a callback is told of all bytes that came in.
* Pins: the handler starts only timers that live, and a debounced edge is reported.

The hazards behind these, each at its line and with the properties meant for it, are
listed in `PROJECT.json` under `hazards`.

## 2. The modules

| module | models | builds on |
|---|---|---|
| `TimerService` | what the timers promise, with nothing of how | |
| `LuatTimer` | timers, bus, timer daemon | implements `TimerService` |
| `LuatSys` | `sys.lua` and its main loop | extends `LuatTimer` |
| `SysPlus` | one mailbox of `sysplus.lua` | abstracts `sys.lua` to its publications |
| `Gpio` | one pin: interrupts, debouncing, its software timer | |
| `Uart` | receiving on the serial ports | |
| `KeyValue` | what `fskv` promises | |
| `Fskv` | `fskv` over the files of littlefs | implements `KeyValue` |
| `BleConsole` | text mode, run, abort, hook | |
| `BleFile` | frames, requests, file layer, stream, flash | |
| `*Proofs` | theorems | extend the module they are about |
| `MC*` | values of the constants for TLC | |

Operators carry the names of the functions they model. Operators whose comment begins
with "Mutant" are wrong versions of the operator that follows them; no specification
uses them. `PROJECT.json` says which property notices which.

### TimerService and LuatTimer

`TimerService` knows two things: for each id the repeats its timer has left, if it
runs, and whether an expiry of it is on its way. `LuatTimer` implements it: the
running timers are what `luat_timer_get` finds for each id, the pending expiries are the
messages in the bus, the callback the daemon is in, and one-shot timers that have
expired. What the service has to allow shows where the code is weak: an expiry may be
lost (a full bus), and one of id 0 may be counted against another timer, because that id
is looked up through the address in the message.

`timers[]` is a function from slots to heap blocks. A block is the `luat_timer_t`,
with the two facts of its FreeRTOS timer that matter, whether it is `armed` and
whether it `reload`s. A freed block keeps the `id` last written in it, because
`l_timer_handler` of a message for id 0 reads it through the pointer in the message
(`luat_lib_rtos.c:98-100`); what the allocator may have written over it counts as
no timer's id.

The callback of the daemon is two steps: `TimerExpires` looks the id up and
remembers the address in `daemon`; `CallbackPosts` posts it. Between them the Lua task
may stop the timer, free it, and start another in the same block. `xTimerStop` and
`xTimerDelete` are commands to the daemon that its full command queue refuses; the code
ignores that, and the timer that goes on without its `luat_timer_t` is an element of
`orphans`. That is what `LossyCommands` allows.

`luat_msgbus_put` on a full queue loses the message, as its result is ignored by
every caller. `DriverPosts` stands for all other users of the bus.

Not in the module: `rtos.reboot`, `meminfo`, the periodic garbage collection in
`l_rtos_receive`, `luat_timer_mdelay`; none touches this state. Accesses of the queue are
FreeRTOS's own and atomic. `timers[]` is read by the daemon while the Lua task may
write it; each entry is one aligned word, and the lookup is one step of the model. The
read of `timer->func` from a block freed meanwhile (`luat_timer_freertos.c:40`) is
modelled as returning the right handler; with a reused block the code would jump to a
wild address, which no model of the data can describe.

### LuatSys

There is one thread of Lua, so `stack` says what it is executing: nothing (the main
loop), the main chunk, or a task or callback, perhaps started from another. User
code is not fixed: whatever is on top of the stack may make any call of `sys` next, resume
any task itself, yield or raise an error, at most `MaxCalls` times in a behaviour. Code
runs until it yields or returns; the daemon and the drivers step between any two of its
calls.

| code | definition |
|---|---|
| `sys.wait`, `waitUntil` with a timeout | `Wait` (from the call to the yield), `Coresume` and `WaitEndsByMessage` (from the resume to the return) |
| `waitUntil` without a timeout, `waitUntilMsg` | `WaitUntilMsg` |
| `sys.coresume` (or `coroutine.resume`) and `coroutine.yield` in user code | `SysCoresume`, without arguments for a sleeping task `SysCoresumeBare`; `Yield` |
| the choice of an id | `NextTaskTimerId`, `NextMsgId` |
| `timerStart`, `timerLoopStart`, `timerAdvStart` | `TimerAdvStart` stops the identical timer, `TimerAdvStarted` starts the new one: two calls into `rtos`, two steps |
| `timerStop` | `SysTimerStop` by function, `SysTimerStopId` by id |
| `dispatch` | `TakeMessage` copies the subscribers, in any order as `pairs` gives them; `CallSubscriber` calls the next |
| `safeRun` | `DispatchDone`, `ReceiveTimer`, `ReceiveDriver` |

`TimerId` covers both ranges of ids. `TASK_TIMER_ID_MAX` and `MSG_TIMER_ID_MAX` are
constants so that a run can make the first counter wrap; the code has 0x1FFFFF for the
task ids, which a device that waits ten times a second passes in less than two and a
half days.

An error in a task (`TaskFails`) makes `coresume`'s `wrapper` start a timer for `assert`,
whose callback ends the main loop (`AssertFails`); one in a callback or in the main chunk
ends it at once (`CallbackFails`). The traceback is the callback of that timer, so the
same error again stops the first timer (`wrapper`) and starts another (`TimerAdvStarted`).
`timerStopAll` stops one
timer after the other (`SysTimerStopAll`, `StopNextOfAll`), and the daemon steps between.

A `coresume` of a task that runs or has ended fails like an error in it (`CoresumeFails`).
User code may make one, and may resume a task that `dispatch` has copied and not called
yet; the `coresume` of `dispatch` then fails if the task runs or has ended by its turn.
`CopiedTasksSuspended` and `TimersResumeSleepers` say that nothing else leads to such a call.
A task in `sys.wait` that is resumed with arguments takes them for a message
(`CoresumeWithArguments`); without, for the end of its time, and `sys.wait` stops nothing.
`abandoned` remembers the ids of such waits, which `TimersHaveOwners` and
`TimersResumeSleepers` except.

`rtos.timer_start` and `rtos.timer_stop` are one step each, although they may wait a few
ticks for the daemon. A lookup by the daemon in that time finds what it finds just
before the step or just after it, but for one case: the slot of a timer whose
`xTimerStart` is about to fail, found by an orphan of the same id.

Not in the module: a list of topics given to `waitUntil`, `COROUTINE_ERROR_ROLL_BACK`
switched off, and a resume by `coroutine.resume` that fails, whose result is the caller's to
look at: it changes nothing. The error that `unsubscribe` raises for a topic without subscribers
(`sys.lua:337`) is one of the errors user code may raise.

### SysPlus

One mailbox and the task that owns it. `wakeups` counts the publications of the
task's name that `dispatch` has still to take. A publication taken while the task is
not subscribed is lost (`WakeupLost`); its message then lies in the mailbox with no
wake-up of its own. Since `sys.lua` runs one coroutine at a time, each action is the
code from one resume to the next yield. `taskDel` is what the code has: it
removes the list entry and leaves the coroutine and its timer. `waitTo` then indexes
`nil` in the main loop, which `vmFails` records; a coroutine that wakes without its entry
fails (`WakesToError`), and the timer that its wrapper starts for `assert` then ends the
main loop as well (`AssertFails`). A name may be used again once its task has ended
(`taskInitEx`); the mailbox then begins anew, and the publications of the old one are
still on their way.

The module stands for `sys.lua` by a count; what it relies on, that a publication is
dispatched and that a timer's callback runs, is what `MessagesDispatched` and
`OnlyFullBusLosesExpiry` say of `LuatSys` and `LuatTimer`. Not in the module: the
task's callback, which only receives messages, and `cwaitMt`.

### BleConsole

`pc` is where `ble_task` is. Each access of `ble_task` to a variable it shares with
the host is a step, and so is each of the two writes of `luaClose`, so the model has the
interleavings of the two threads; `switchToTextMode` and the pop after it are four. Only a
test of a flag and the reset that follows are one step: what the host sets in between is
lost either way. A single operation on a `std::string` or a
`std::queue` is one step although the code has no lock: two at the same time are
undefined behaviour, and the models say nothing of it. `hookfunc` is enabled before
each line of a script.
`StopScriptRuns` is the run of the stop script inside the hook; Lua does not call the
hook there, so a second abort waits for the next line. The hook's `luaL_error` (`HookRaises`)
ends the script unless its lines are in a `pcall` or a coroutine of its own: whether they
are, `catches`, is chosen when the script starts, and a script that catches may go on after
each abort, with `isClosed` reset. `lua_loop` is the code
after `luaL_dostring`. Its `luaL_error` is outside of any protected call, which is
Lua's panic: `abort()` and a reset (`PanicResets`). `ble_task` resets its watchdog
once in each round. A script or a stop script that takes more than the watchdog's
five seconds, and the loop of `handlePrintMessage`, which takes ten by default, may be
cut off by it (`WatchdogResets`).

Not in the module: JSON lines cut in two, answers, battery and version data, and the time
before `L` exists.

### BleFile

A frame is a sequence of units. A document is two units, so that a packet boundary or
a lost connection can fall inside it; data is a header and bytes, all different, so that
a lost, doubled or swapped byte is seen. `receiveOTA` appends packets to
`blankota` until one ends in the byte 4. A lost connection leaves `blankota` as it is
(`Disconnect`), so the next frame is glued to it: `TakesDoc` handles the document the
whole begins with, as the JSON parser does.

`CopyBytes`, `FlushFull`, `ComparesSize`, `FlushLast` and `CompletesFile` are the
loop of `writeFile`. `flushBuffer` may write short, reopen and write the whole buffer
again, or give up with the file closed and the buffer kept. Arduino's `File` writes
through the buffer of a C stream: what is smaller than that buffer may stay in `stream`
until the file is closed, and how the close went nobody is told. Every request is an
alternative of `HandlesRequest`. A file may be deleted, renamed, formatted away or
flashed and removed while `currentFile` has it open, which then is open on nothing
(`GONE`) or on the new name. `filelist` stands for the requests that only read. `Reset` is a
power cut, the restart after a firmware update or the reset after the division by
`totalSize = 0`; `disk` survives it. `received` and `disturbed` are history variables.

Not in the module: how the phone escapes a data byte 4 (`ble_controller.cpp:83` takes any
for the end of the frame) and what it does with the answers.

### KeyValue and Fskv

Each key is a file. `luat_fskv_set` opens, writes and closes it, and what littlefs has on
the flash changes at two of these steps: opening a key's first file commits its empty
entry, closing commits size and content together; a truncation is only remembered. A loss
of power (`PowerFails`) leaves what is committed. `MayFail` lets each step of the file
system fail. `KeyValue` is the store without files: a call takes effect on its own key in
one step, or not at all. `Visible`, what `get` finds in each file, is the mapping: an empty
file, and the empty string, is nothing. What is called before `fskv.init` is left out: every call but
`fskv.next` then returns at once, and `fskv.next` reads through a null pointer
(`luat_fskv_sfd.c:107`).

The directory of littlefs is a log on one of two blocks, of which the newer revision counts.
`spare` is what the directory says in the other block: what it said when the log moved last
(`Commits`). Only a format shows it. `lfs_format` erases block 0 before all else
(`lfs.c:1967`), so one that is cut short or fails may leave block 1 alone, whose directory is
the older one if the newer was in block 0 (`Fallen`); values that were replaced and
keys that were deleted then come back, and a value too long for the directory (`Long`)
may read as anything, since its blocks may have been used again. `FormatStops` is where
`fskv.clear` and the format of `fskv.init` may stop. `KeyValue` says this with `older`: a clear
that does not succeed leaves of each key what it has or what it had (`Restored`).

The store has to allow what the code does: a `set` returns true although the close, which
is what commits the value, failed (`luat_fskv_sfd.c:29` against `luat_lib_fskv.c:97`); a
`del` always does; a `sett` whose read fails replaces the table by one of its one field.

The iterator is the number of files it has passed. A removal moves the later files before
it, so `IterationLists` excepts it.

Not in the module: FlashDB, the other store in the tree, which is not what `fskv` uses
here; the blocks of the files themselves.

### Uart

The driver's interrupt moves chunks of bytes to the ring buffer and queues an event for
each. The port's task takes an event, announces it if it ended with a pause, and drops
what came in meanwhile (`xQueueReset`). It has a higher priority than the Lua task on the
one core, which is `LuaRuns`: the Lua task runs only while all of them wait, so what is
dropped is always read by the callback that is called for the announcement. The mutant
`LuaRunsBeside`, a second core, loses bytes. The task of port 0 waits for the queue of port 1
(`QueueOf`); when that queue is not there, FreeRTOS stops (`IrqTaskAborts`).

Not in the module: sending, RS485, the ports in software, and the shell, which `app_main`
does not start.

### Gpio

One pin. `gpio.debounce` and `gpio.close` are several steps, one for each write that the
interrupt handler or the daemon can tell from the next (`Debounce`, `SetMode`, `CreateTimer`;
`Close`, `ResetPin`; `StopTimer`, `DeleteTimer`, `FreeTimer`, `ForgetTimer`). The handler is one
step: there is one core (`CONFIG_FREERTOS_UNICORE`), so nothing runs beside it. `commands` is
the queue of the timer daemon; the Lua task waits for room in it, the handler and the timer's
own callback do not.

`StopStartFromISR` is what mode 1 does with each edge. The stop of a timer that runs is only
queued, so `luat_rtos_timer_start` finds the timer active, queues a second stop and returns 0
(`luat_rtos_freertos_timer.c:144-152`). A second edge within the delay therefore takes the
report back instead of delaying it, and a third one may start it again.

`luat_rtos_timer_delete` frees the block as soon as the delete is queued. Until the daemon
has processed it the timer may expire and read the freed block (`ExpiresFreed`), and the
stop that `s_timer_callback` queues comes after the delete (`DaemonCommand` on a timer that is
gone). What then happens is undefined: the model lets the daemon go on, post the message or
stop the chip.

Not in the module: `gpio.caplevel`, `gpio.pulse`, outputs, interrupts by level.

## 3. The runs

`timer` and `fskv` have no bound on the number of steps and check for deadlock. The other
runs stop when the bounded users make no more calls or when the program has stopped,
which is why they say `CHECK_DEADLOCK FALSE`. Symmetry is used in `timer`
(blocks) and in `sys` (blocks and tasks), which have no liveness properties.

| run | configuration | properties | shows |
|---|---|---|---|
| `timer` | 2 blocks, 2 slots, ids 0 and 1, repeats -1, 0, 1, bus of 2, refused commands | `TimerTypeOK`, `SlotsOwnBlocks`, `RepeatMatchesReload`, `OnlyFullBusLosesExpiry`, `ImplementsService` | table, heap and FreeRTOS timers agree; only a full bus loses an expiry; the layer implements `TimerService` |
| `sys` | 2 tasks, 1 callback with arguments, 1 topic, 1 kind of error, 2 blocks, bus of 2, refused commands, 5 calls, resumes by user code among them | `SysTypeOK`, `TimersResumeSleepers`, `CopiedTasksSuspended`, `TimersHaveOwners`, `ArgumentsFollowTimers`, `TimerWakesOnTime`, `OnlyFullBusLosesWakeup`, `OnlyFullBusLosesError` | the pools and the timers agree; no task sleeps without a wake-up; no error is forgotten whose timer started |
| `sys_live` | as `sys`, one-shot timers, 2 ids for callbacks, bus of 6, which 4 calls cannot fill | `SleepersWake`, `MessagesDispatched`, `ErrorsEndLoop`, `UsesTimersRightly` | sleeping tasks wake, messages are dispatched, errors end the loop if the timer for `assert` starts; each step is one of `LuatTimer` or none, and starts no id whose timer runs, so that what holds of the timers holds under `sys.lua` |
| `mailbox` | 2 kinds of messages, 4 messages, with and without a target and a timeout, failing timers, deletion | `TypeOK`, `TimeoutIsOwn`, `AnyMessageHasWakeup`, `LoopDiesWithWaiter`, `AnyWaitEnds` | timeouts stay with their wait; waits for any message end; a deletion kills the main loop only while the task waits |
| `mailbox_timed` | waits with a target and a timeout | `TimedWaitEnds` | **violated** |
| `gpio` | 1 pin, 2 timers, rising and both edges, 3 edges, 4 calls, 3 commands, bus of 2, cooldown of 2 ticks on a counter of 5 | `GpioTypeOK`, `TimerOwned`, `DebounceKept`, `CooldownHolds` | interrupts between any two steps of the calls are harmless but for the freed timer; which edges are reported |
| `uart` | ports 1 and 2, chunks of at most 2 bytes, a buffer of 3, queues of 2 | `UartTypeOK`, `BytesAnnounced` | a script with a callback is told of every byte |
| `uart_zero` | the same, ports 0 and 1 | `BytesAnnounced` | **violated** |
| `fskv` | 2 keys, the empty string as the only scalar, tables of 1 field, of which that with the field set is long, a flash that fails | `FskvTypeOK`, `IterationLists`, `ImplementsKeyValue` | calls take effect once or not at all, but a clear that is cut short, which may bring back what was; what an iteration lists |
| `console` | 2 pieces of text, 6 other packets | `ConsoleTypeOK`, `NoTextRunsTwice`, `AbortEndsScript`, `IdleRequestRuns` | text runs once, idle requests run, aborts end scripts that do not catch errors |
| `console_panic` | 5 other packets | `NoPanic` | **violated** |
| `file` | every request, files of 2 and 3 bytes, a second name, buffer of 2, frames of 0 to 2 bytes, 3 bytes and 4 frames in all, failing writes | `FileTypeOK`, `NothingLostOnTheWay`, `OpenFileHasTotal`, `CompleteMeansStored`, `WriteEnds` | "complete" is the truth; writing ends |

### Why the bounds are enough

* `timer`: two blocks are what a stale pointer needs to be wrong (the block is reused,
  or another timer has the id); a bus of two messages holds a stale message and a new
  one, and fills. No bound on the number of steps.
* `sys`: the code paths that interfere are a wait, a message that ends it, and the next
  wait; a start, its failure and the next start; a stop between the daemon's two
  steps. Each takes at most four calls, the creation of the task included; five
  leaves room for a second actor. Ids do not wrap in 5 calls.
* `sys_live`: the two ids for callbacks go round within 4 calls, also while the timer under one
  of them runs, which is what the search for a free id is for. The ids of tasks do
  not: section 4 says what happens when they do.
* `mailbox`: a message for the target, one in front of it, one behind it, and one that
  arrives during the timeout.
* `console`: the mode switch, a run, an abort, a run, and two more packets that arrive
  at any point of the first script; after a reset the mode is switched again.
* `gpio`: an interrupt needs three edges to bounce (start, stop, start again) and four calls
  to be set up, debounced, debounced otherwise and closed. Two timers let a second be
  created while the delete of the first is queued; three commands fill the daemon's queue.
  A run of 4 edges and 5 calls, 12.4 million states, finds nothing else.
* `uart`: an event to announce, one behind it and a full queue; two ports for one to take the
  other's events. No bound on the number of steps.
* `fskv`: two keys, one before the other in the directory, are what a lost or moved entry
  takes. What a key has, and has in the other block, can be any of no file, an empty one, the
  empty string, a short table and a long one. No bound on the number of steps.
* `file`: sizes at and above the buffer's size, frames within it, at its end and empty ones,
  and a transfer that is interrupted and made again.

### Fairness

* `FairSysSpec`: the Lua task and the daemon are FreeRTOS threads that run when they
  can, so `SafeRun`, `Proceed` (user code returns in the end) and `SysDaemon` (armed
  timers expire, the callback goes on) are weakly fair. User code need not make a call,
  drivers need not post, and orphans need not expire.
  With a bus that cannot fill, the code forgets an error in a task only if the timer for its
  `assert` does not start (`sys.lua:66`, `sys.lua:250`): the first time, or when the same error
  comes again and the timer that ran was stopped. `ErrorsEndLoop` follows the error from
  the moment the coroutine fails, and excepts both (`AssertNotStarted`).
* `FairSpec` of `SysPlus`: dispatch, expiry and the callback of the timer. Nobody has to
  send a message and the task need not wait again.
* `FairConsoleSpec`: `ble_task` is a thread of its own, and a script that loops goes
  from line to line, where the hook is called; the stop script ends. `ScriptEnds` has no fairness: a script
  may loop until an abort or the watchdog ends it. The host finishes `luaClose`. This
  does not cover a script that blocks inside one C call.
* `FairFileSpec`: `ble_task`, and the reset after a trap or a restart. The phone need not do
  anything.
* `TimerSpec`, `FskvSpec`, `UartSpec` and `GpioSpec` state no fairness: their properties are
  about single steps, of which each is one too many or too few.

## 4. What is proved

`tlapm` checks these for every value of the constants that satisfies the named
assumptions of the modules. `TLC` finds the same formulas true in the runs above.

`LuatTimerProofs`, from `TimerIdAssumption`, `RepeatAssumption`, `SlotAssumption`,
`BusAssumption`, `NullAssumption`, `LossyAssumption`:

* `TypeCorrect`: `TimerSpec => []TimerTypeOK`. That the bus never exceeds `BusLen` and
  that the count never passes -1 are part of it.
* `TableSafe` and `CountsMatch`: `SlotsOwnBlocks` and `RepeatMatchesReload` hold always.
  Neither is inductive by itself: `luat_timer_stop` is given the block that a lookup by
  id returns, and that this is an allocated block in the table needs the types of both.
  The inductive invariant `TableInv` adds `TableTypeOK` and `IdsUnique`, that no two
  running timers have the same id. A start keeps `IdsUnique` because the scheduler starts
  only an id that no running timer has (`GetTimer` says that a lookup which finds
  nothing means that there is none).
* `ExpiryOnlyLostOnFullBus`: `OnlyFullBusLosesExpiry`, action by action from `TableInv`:
  a message for a timer leaves the daemon only for the bus, and the bus only for the
  handler, which frees the timer when it is a one-shot. `IdsUnique` is what this
  rests on: the timer that the lookup finds for an id is the one that expired.

* `Implements`: `TimerSpec => ImplementsService`. `RunningMatches` turns the search of the
  slots into a statement about blocks, with which every action is shown to be a step of the
  service or none; it follows from `TableInv`.

`LuatSysProofs`, from `SysAssumption`, `ActorAssumption` (coroutines, functions and the main
chunk are different values) and the assumptions of `LuatTimer`:

* `SysTypeCorrect` and `CopiedSuspended`: `SysTypeOK` and `CopiedTasksSuspended` hold always.
  The invariant `SysInv` adds who may own which ids (`PoolKinds`) and how the stack, the states
  of the tasks, the subscribers and the copy of them that `dispatch` works on agree
  (`CoroutineInv`): a task on the stack is not subscribed, and one that is copied is in the
  copy once. `CopiedTasksSuspended` excepts a step in which user code resumes that very task;
  all else that the subscribers before it do leaves it suspended.
* `OwnersKept`, `SleepersResumed`, `IdsDistinct`: `TimersHaveOwners`, `TimersResumeSleepers` and
  `TaskTimersDistinct` hold as long as the task ids have not gone round, the first two but for the
  waits that a resume without arguments has ended (`abandoned`). (No run checks the last,
  which says of the tasks what `UsesTimersRightly` says of the timers.) The inductive invariant
  `TimersInv` adds to `TableInv` that a sleeping task has an entry in both pools, that ids in use
  were given out, and that before a task's timer expires nothing stale of its id is on the way
  (`NothingStale`), neither an expiry nor a FreeRTOS timer that would not stop. Each step is
  first reduced to one of a few kinds (`SysSteps`), and each kind keeps `TimersInv`.
* `UsesRightly`: `UsesTimersRightly`, that each step is one of `LuatTimer` or none; `TimersServe`
  composes it with the theorems above, so under `sys.lua` the timers are those of `TimerService`.
* `WokenOnTime`, `WakeupOnlyLostOnFullBus`, `ErrorOnlyLostOnFullBus`: the three action properties.
  What the Lua task and the daemon do to a timer that is pending is in `PendingStep` and
  `SleepsOn`: it stays pending unless its message is lost, it is stopped, or it wakes its task.
  `OnlyFullBusLosesError` excepts the steps in which the timer of that very assert fails to start.
* `ArgumentsKept`: `ArgumentsFollowTimers`, as long as the ids of callbacks have not gone round
  either. `SpentIds` and `SpentRuns` are about the one-shot timer whose callback runs, whose
  arguments are still there; a stopped id that came back meanwhile would lose its arguments to it.

The condition of all but the first two, `[]TaskIdsLeft`, is needed. `sys.wait` looks for a free
id in the wrong table (section 5), so after 0x1FFFFF waits it hands out ids that timers run
under; with `TASK_TIMER_ID_MAX = 2` TLC finds a counterexample to each of `TaskTimersDistinct`,
`TimersResumeSleepers`, `TimersHaveOwners`, `UsesTimersRightly`, `TimerWakesOnTime` and
`OnlyFullBusLosesWakeup` within six calls. `[]CallbackIdsLeft` likewise: with two ids for
callbacks `ArgumentsFollowTimers` fails. `FewCallsLeaveIds` says that the first condition holds
in every behaviour with fewer calls than there are ids, as it does in the runs of `PROJECT.json`.

`SysPlusProofs`, from `MailAssumption`:

* `TypeCorrect`, `TimeoutsAreOwn`, `AnyMessageWakes`: the invariants of the mailbox are
  inductive together. `AnyMessageHasWakeup` holds because a wait that accepts any
  message begins with an empty mailbox (`WaitYields`), and ends with the first
  wake-up that finds a message.
* `LoopDies`: `LoopDiesWithWaiter`, from `TimeoutIsOwn`: outside of `waitMsg` no timer runs.
* `UntimedWaits`: a wait without a timeout never reports one, from `TimeoutIsOwn`.

`BleConsoleProofs`, from `ConsoleAssumption`:

* `TypeCorrect`: `ConsoleTypeOK`. A mode switch takes a message off the queue at its end
  (`PopsMessage`), which is well typed because the queue cannot be empty in any of the
  steps that lead there (`SwitchHasMessage`).
* `TextRunsOnce`: `NoTextRunsTwice`. What makes it inductive is `BufferIsFresh`: unless
  `ble_task` is between the copy of the text and `ExecuteClears`, nothing in the buffer has
  run.

`BleFileProofs`, from `FileAssumption` and `NullAssumption`:

* `FilesTyped`, `NothingLost`, `OpenTotal`, `Complete`: `FileTypeOK`, `NothingLostOnTheWay`,
  `OpenFileHasTotal` and `CompleteMeansStored`, for every buffer size, every request and every
  frame. `NothingLostOnTheWay` is not inductive: it needs `Stations`, what holds at each place of
  `writeFile`, which says that the stream is empty whenever more bytes are written and that a
  failed flush has closed the file.

`FskvProofs`, from `KeyAssumption`, `FailAssumption` and `ValueAssumption`:

* `TypeCorrect`: `FskvTypeOK`.
* `Lists`: `IterationLists`, for any number of keys. `IterationInv` keeps apart what is true while
  files only come and while they only go; that an offset without a file is past all files
  (`NoFileBeyond`) is the pigeonhole principle, an injection between sets of the same size.
* `Implements`: `FskvSpec => ImplementsKeyValue`, for any keys and values. The invariant behind it,
  `DataOfCall`, says that what is about to be committed is what the running call asks for; for
  `sett`, whose table was read before, this holds because nothing else writes the key meanwhile.
  For a clear that does not succeed it says what may come back: `FallenShows` maps the files that
  the other block of the directory may leave to `Restored`, and `SpareAges` follows that block.

`UartProofs`, from `PortAssumption`, `SizeAssumption` and `QueueAssumption`:

* `TypeCorrect`: `UartTypeOK`.
* `Told`: `BytesAnnounced`, under the further assumption `NoPortZero`; `uart_zero` shows that it is
  needed. `ResetsAfterPost` says that a task about to drop events has posted, and
  `QuietEventsHaveBytes` that events nobody will announce stand for bytes still in the
  buffer, so that the queue has room for the one that ends them.

`GpioProofs`, from `GpioAssumption`:

* `TypeCorrect`: `GpioTypeOK`.
* `Owned`: `TimerOwned`. What makes it inductive is `StepsInv`, what each step of the calls knows
  about the timer, and `DeletesInv`, that a timer has at most one delete in the queue and none
  once it is gone: otherwise the delete of the old timer would hit the next one in its place.
* `Kept`: `DebounceKept`, for any length of the queues. A running timer is followed through the
  queue of commands by `RunsTail` (a command is processed), `RunsOther` (a command for another
  timer is queued) and `RunsStarted`.
* `Cooled`: `CooldownHolds`, for any cooldown and any width of the counter, from `AgeInv`: while
  the counter has not wrapped it has moved as far as time has.

Every invariant and every action property that a passing run checks is proved. Only model-checked:
`SleepersWake`, `MessagesDispatched`, `ErrorsEndLoop`, `AnyWaitEnds`, `AbortEndsScript`,
`IdleRequestRuns` and `WriteEnds`, which are liveness under fairness and out of the prover's reach. No module declares a recursive operator.

## 5. Where code and documentation disagree

The violation runs each check one statement of the repository against the code.

* `mailbox_timed`: only without a timeout does `waitMsg` wait for ever
  (`sysplus.lua:88`). When the timeout and a message that is not the target meet, the
  wake-up of the timeout goes to that message (`sysplus.lua:118`).
* `console_panic`: "Use a try-catch block to handle Lua errors" (`idf5_main.cpp:162`). An
  abort that `lua_loop` finds after the script has ended is raised with nothing to
  catch it (`idf5_main.cpp:171`).
* `uart_zero`: `uart.on` takes the id of a port (`luat_lib_uart.c:625`). The task of port 0 waits
  for the events of port 1 (`luat_uart_idf5.c:42`) and announces them as its own.

Met while modelling, without a run of their own:

* `sys.wait` "returns nil when the time is over" (`sys.lua:88`). An expiry that meets a full
  queue is dropped (`luat_timer_freertos.c:44`), a one-shot timer does not fire again, and the
  task sleeps for ever; `OnlyFullBusLosesWakeup` says that nothing else does this.
* `sys.wait` "chooses an unused id" (`sys.lua:93`). The loop looks the id up in `taskTimerPool`,
  whose keys are coroutines (`sys.lua:101`), and ends at once. Once the ids wrap, two tasks
  sleep on one id.
* `waitMsg` returns the message on success (`sysplus.lua:89`). When the timeout callback has run
  by the time the target is taken, the message is replaced by `nil` (`sysplus.lua:135`).
* `taskDel` deletes a task (`sysplus.lua:72`). Its timer goes on, and the callback raises an
  error in the main loop, which ends it; `LoopDiesWithWaiter` says when.
* Debounce mode 1 "delays N ms, and if there is no new interrupt and the level has not changed,
  reports once" (`luat_lib_gpio.c:621`). An edge that meets the running timer is not reported at
  all, however quiet the pin then is; `DebounceKept` excepts it.
* Debounce mode 0 drops the first edge within the cooldown after the tick counter was zero,
  because `latest_tick` is 0 before any edge has passed (`luat_lib_gpio.c:135`).
* `gpio.setup` with a function after one with `gpio.count`, without a `gpio.close` between them,
  goes on counting and never calls the function: `luat_gpio_setup` only replaces the handler by
  another (`luat_gpio_idf5.c:105`).
* `fskv.set` and `fskv.del` return true when the file system has failed (see `Fskv`).
* Timer id 0 is given out after a wrap, and its message is resolved through the pointer in
  it, which may be stale (`luat_lib_rtos.c:98-100`).
* `timerAdvStart` whose start fails returns nil and leaves its `timerPool` entry
  (`sys.lua:245-250`), which `timerIsActive` then reports as active (`sys.lua:282`).
* `waitMsg` looks at one message in the mailbox before it sleeps; a target behind
  another message waits for the next wake-up (`sysplus.lua:98`).
* `waitMsg` returns nil after a timeout, where its comment says false.
* `sys.wait` returns what it is resumed with, and nil when its time is over (`sys.lua:88`). A
  resume without arguments is taken for the end of the time, but leaves the timer running and
  the entries of its id in both pools (`sys.lua:110-118`). The late timer is dropped if the task
  has called `sys.wait` again; otherwise it ends the task's `waitUntilMsg`, or is an error if
  the task has ended.
* An error in a task ends the main loop by way of a timer (`sys.lua:66`). When that timer does
  not start, `timerAdvStart` returns nil to nobody, and the loop goes on without the task.
* `fskv.clear` empties the store (`luat_lib_fskv.c:412`). When it is cut short it may instead
  bring back values that were replaced and keys that were deleted.
* A script that catches errors goes on after an abort, whose `isClosed` the hook has reset
  (`idf5_main.cpp:195-200`); `AbortEndsScript` excepts it.
* A run request that comes in while a script runs is taken back when the script ends
  (`ble_controller.cpp:872-875`); `IdleRequestRuns` is about the others.
* A `print` request without a time takes ten seconds (`ble_handlers.cpp:113`), the watchdog
  of the task that handles it five (`sdkconfig.defaults:17`).
* An abort that comes in while no script runs ends the next one. It sets `isClosed`
  before `luaStopScript` (`idf5_main.cpp:138-140`), so the hook may run an empty stop
  script and then empty the real one.

## 6. What is not modelled

The components marked `not_modelled` in `PROJECT.json`, each with its reason there. In short:
the waits for a C callback (cwait) have no user that is built for this board, nor are the
network clients, `statem`, `cmux`, the shell or FlashDB; the virtual file system and the
drivers for I2C, SPI and the like are called by the Lua task alone and keep no state across
calls that another thread touches; displays, fonts, codecs and libraries are code of third
parties, and almost all of the lines of the repository.

Undefined behaviour of two threads inside one container, heap exhaustion other than for
timers and files, and wild pointers other than those of `Gpio` are outside all modules. So are
the firmware scripts of users: the modules allow any calls instead.

## 7. Plan

Written, checked and proved about: timers, mailboxes, console, file transfer, key-value store,
serial ports, pins and the scheduler.

Worth proving next: what the liveness properties rest on, step by step (that the message queue
gets shorter with each turn of `dispatch`, that the Lua task never waits in `rtos.receive` with a
message in the queue); that `SysPlus` abstracts from `LuatSys` rightly, as an implementation.

Worth modelling next: the start of the virtual machine against the first packets of the
Bluetooth host; the firmware update at start-up; two pins that share the timer daemon.
