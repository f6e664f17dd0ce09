----------------------------- MODULE BleConsole -----------------------------
(***************************************************************************)
(* The BLE console: Lua text sent by a phone is collected, run, and         *)
(* aborted (ble_controller.cpp, and luaClose, lua_loop and hookfunc of      *)
(* idf5_main.cpp).                                                          *)
(*                                                                          *)
(* Two threads share its state without a lock: the Bluetooth host, which    *)
(* calls handleReceivedMessage for every packet, and ble_task, which runs   *)
(* processJsonMessages and processTextMessages in a loop.  pc is where      *)
(* ble_task is.  Each access of ble_task to a variable it shares with the   *)
(* host is a step of its own, but that a test of a flag and the reset that  *)
(* follows are one: what the host sets in between is lost either way.  One  *)
(* operation on a string or a queue is taken to be atomic.                  *)
(***************************************************************************)
EXTENDS Integers, Sequences, FiniteSets

CONSTANTS
    Chunk,      \* pieces of text the phone may send, each at most once
    MaxWrites   \* bound on the other packets of the phone

ASSUME ConsoleAssumption == MaxWrites \in Nat

VARIABLES
    TextMode,
    messageQueue,   \* JSON messages ble_task has still to handle, by their type
    TextBuffer,
    executeTextBufferFlag,
    isClosed,       \* an abort is asked for
    luaStopScript,  \* the text to run when the abort is carried out, or ""
    host,           \* "free", or "closing" in the middle of luaClose
    pc,
    script,         \* the text ble_task is running
    catches,        \* does that text catch errors?
    sent,           \* the pieces of text sent so far
    ran,            \* the pieces that were in a script
    writes          \* other packets sent so far

consoleVars == <<TextMode, messageQueue, TextBuffer, executeTextBufferFlag,
                 isClosed, luaStopScript, host, pc, script, catches, sent, ran,
                 writes>>

JsonType == {"settextmode", "print", "unknown"}

Location == {"json", "switch", "empty", "pop", "text", "copy", "script",
             "stop", "stopped", "after", "done", "clear", "panic"}

ConsoleTypeOK ==
    /\ TextMode \in BOOLEAN
    /\ messageQueue \in Seq(JsonType)
    /\ TextBuffer \in Seq(Chunk)
    /\ executeTextBufferFlag \in BOOLEAN
    /\ isClosed \in BOOLEAN
    /\ luaStopScript \in {"", "stop"}
    /\ host \in {"free", "closing"}
    /\ pc \in Location
    /\ script \in Seq(Chunk)
    /\ catches \in BOOLEAN
    /\ sent \subseteq Chunk /\ ran \subseteq sent
    /\ writes \in 0 .. MaxWrites

Elements(s) == {s[k] : k \in 1 .. Len(s)}

-----------------------------------------------------------------------------
(* The Bluetooth host: handleReceivedMessage. *)

Receives == host = "free" /\ pc # "panic"
ReceivesControl == Receives /\ writes < MaxWrites /\ writes' = writes + 1

ReceiveJson(type) ==
    /\ ReceivesControl /\ ~TextMode
    /\ messageQueue' = Append(messageQueue, type)
    /\ UNCHANGED <<TextMode, TextBuffer, executeTextBufferFlag, isClosed,
                   luaStopScript, host, pc, script, catches, sent, ran>>

ReceiveText(c) ==
    /\ Receives /\ TextMode /\ c \notin sent
    /\ TextBuffer' = Append(TextBuffer, c)
    /\ sent' = sent \cup {c}
    /\ UNCHANGED <<TextMode, messageQueue, executeTextBufferFlag, isClosed,
                   luaStopScript, host, pc, script, catches, ran, writes>>

ReceiveRun ==
    /\ ReceivesControl /\ TextMode
    /\ executeTextBufferFlag' = TRUE
    /\ UNCHANGED <<TextMode, messageQueue, TextBuffer, isClosed, luaStopScript,
                   host, pc, script, catches, sent, ran>>

ReceiveClear ==
    /\ ReceivesControl /\ TextMode
    /\ TextBuffer' = <<>>
    /\ UNCHANGED <<TextMode, messageQueue, executeTextBufferFlag, isClosed,
                   luaStopScript, host, pc, script, catches, sent, ran>>

(* An abort calls luaClose: the flag first, the text to run second. *)
ReceiveAbort ==
    /\ ReceivesControl /\ TextMode
    /\ isClosed' = TRUE
    /\ host' = "closing"
    /\ UNCHANGED <<TextMode, messageQueue, TextBuffer, executeTextBufferFlag,
                   luaStopScript, pc, script, catches, sent, ran>>

(* Mutant: the mark of the abort stays in the text to run. *)
luaCloseKeepsMark ==
    /\ host = "closing" /\ pc # "panic"
    /\ luaStopScript' = "mark and stop"
    /\ host' = "free"
    /\ UNCHANGED <<TextMode, messageQueue, TextBuffer, executeTextBufferFlag,
                   isClosed, pc, script, catches, sent, ran, writes>>

luaClose ==
    /\ host = "closing" /\ pc # "panic"
    /\ luaStopScript' = "stop"
    /\ host' = "free"
    /\ UNCHANGED <<TextMode, messageQueue, TextBuffer, executeTextBufferFlag,
                   isClosed, pc, script, catches, sent, ran, writes>>

-----------------------------------------------------------------------------
(* ble_task.  hostVars is what only the host changes. *)

hostVars == <<host, sent, writes>>

(* processJsonMessages: settextmode (and its other name, lua) starts        *)
(* switchToTextMode, print sends lines for some time, a type without a      *)
(* callback is dropped.                                                     *)
processJsonMessages ==
    /\ pc = "json"
    /\ \/ /\ messageQueue = <<>>
          /\ pc' = "text"
          /\ UNCHANGED <<TextMode, messageQueue>>
       \/ /\ messageQueue # <<>> /\ Head(messageQueue) # "settextmode"
          /\ messageQueue' = Tail(messageQueue)
          /\ UNCHANGED <<TextMode, pc>>
       \/ /\ messageQueue # <<>> /\ Head(messageQueue) = "settextmode"
          /\ TextMode' = TRUE
          /\ pc' = "switch"
          /\ UNCHANGED messageQueue
    /\ UNCHANGED <<hostVars, TextBuffer, executeTextBufferFlag, isClosed,
                   luaStopScript, script, catches, ran>>

(* switchToTextMode has set TextMode; it resets the flag, *)
switchToTextMode ==
    /\ pc = "switch"
    /\ executeTextBufferFlag' = FALSE
    /\ pc' = "empty"
    /\ UNCHANGED <<hostVars, TextMode, messageQueue, TextBuffer, isClosed,
                   luaStopScript, script, catches, ran>>

(* and drops the text. *)
SwitchEmpties ==
    /\ pc = "empty"
    /\ TextBuffer' = <<>>
    /\ pc' = "pop"
    /\ UNCHANGED <<hostVars, TextMode, messageQueue, executeTextBufferFlag,
                   isClosed, luaStopScript, script, catches, ran>>

(* Back in processJsonMessages. *)
PopsMessage ==
    /\ pc = "pop"
    /\ messageQueue' = Tail(messageQueue)
    /\ pc' = "json"
    /\ UNCHANGED <<hostVars, TextMode, TextBuffer, executeTextBufferFlag,
                   isClosed, luaStopScript, script, catches, ran>>

(* Mutant: the flag is taken back and not tested. *)
TextMessagesForget ==
    /\ pc = "text"
    /\ executeTextBufferFlag' = FALSE
    /\ pc' = "json"
    /\ UNCHANGED <<hostVars, TextMode, messageQueue, TextBuffer, isClosed,
                   luaStopScript, script, catches, ran>>

processTextMessages ==
    /\ pc = "text"
    /\ \/ /\ TextMode /\ executeTextBufferFlag
          /\ executeTextBufferFlag' = FALSE
          /\ pc' = "copy"
       \/ /\ ~(TextMode /\ executeTextBufferFlag)
          /\ pc' = "json"
          /\ UNCHANGED executeTextBufferFlag
    /\ UNCHANGED <<hostVars, TextMode, messageQueue, TextBuffer, isClosed,
                   luaStopScript, script, catches, ran>>

(* executeTextBuffer hands a copy of the text to lua_loop.  The text may    *)
(* have its lines in a pcall or in a coroutine.                             *)
executeTextBuffer ==
    /\ pc = "copy"
    /\ script' = TextBuffer
    /\ catches' \in {FALSE, TextBuffer # <<>>}
    /\ ran' = ran \cup Elements(TextBuffer)
    /\ pc' = "script"
    /\ UNCHANGED <<hostVars, TextMode, messageQueue, TextBuffer,
                   executeTextBufferFlag, isClosed, luaStopScript>>

(* The script ends by itself, or with an error of its own, perhaps because  *)
(* its text does not compile.                                               *)
ScriptEnds ==
    /\ pc = "script"
    /\ pc' = "after"
    /\ UNCHANGED <<hostVars, TextMode, messageQueue, TextBuffer,
                   executeTextBufferFlag, isClosed, luaStopScript, script,
                   catches, ran>>

(* hookfunc before a line of the script, of which an empty text has one: it *)
(* runs the stop script, empties it and raises an error.                    *)
hookfunc ==
    /\ pc = "script" /\ isClosed
    /\ isClosed' = FALSE
    /\ pc' = "stop"
    /\ UNCHANGED <<hostVars, TextMode, messageQueue, TextBuffer,
                   executeTextBufferFlag, luaStopScript, script, catches, ran>>

StopScriptRuns ==
    /\ pc = "stop"
    /\ pc' = "stopped"
    /\ UNCHANGED <<hostVars, TextMode, messageQueue, TextBuffer,
                   executeTextBufferFlag, isClosed, luaStopScript, script,
                   catches, ran>>

(* Mutant: the hook raises no error. *)
HookReturns ==
    /\ pc = "stopped"
    /\ luaStopScript' = ""
    /\ pc' = "script"
    /\ UNCHANGED <<hostVars, TextMode, messageQueue, TextBuffer,
                   executeTextBufferFlag, isClosed, script, catches, ran>>

(* The error ends the script, or the script catches it and goes on, with    *)
(* isClosed reset.                                                          *)
HookRaises ==
    /\ pc = "stopped"
    /\ luaStopScript' = ""
    /\ pc' \in {"after"} \cup (IF catches THEN {"script"} ELSE {})
    /\ UNCHANGED <<hostVars, TextMode, messageQueue, TextBuffer,
                   executeTextBufferFlag, isClosed, script, catches, ran>>

(* Back in lua_loop, which tests the flag once more.  Here the error is     *)
(* raised outside of any protected call: Lua panics and the chip resets.    *)
lua_loop ==
    /\ pc = "after"
    /\ isClosed' = FALSE
    /\ IF isClosed THEN pc' = "panic" /\ luaStopScript' = ""
                   ELSE pc' = "done" /\ UNCHANGED luaStopScript
    /\ UNCHANGED <<hostVars, TextMode, messageQueue, TextBuffer,
                   executeTextBufferFlag, script, catches, ran>>

ExecuteDone ==
    /\ pc = "done"
    /\ executeTextBufferFlag' = FALSE
    /\ script' = <<>>
    /\ catches' = FALSE
    /\ pc' = "clear"
    /\ UNCHANGED <<hostVars, TextMode, messageQueue, TextBuffer, isClosed,
                   luaStopScript, ran>>

(* Mutant: the text stays in the buffer. *)
ExecuteKeepsText ==
    /\ pc = "clear"
    /\ pc' = "json"
    /\ UNCHANGED <<hostVars, TextMode, messageQueue, TextBuffer,
                   executeTextBufferFlag, isClosed, luaStopScript, script,
                   catches, ran>>

ExecuteClears ==
    /\ pc = "clear"
    /\ TextBuffer' = <<>>
    /\ pc' = "json"
    /\ UNCHANGED <<hostVars, TextMode, messageQueue, executeTextBufferFlag,
                   isClosed, luaStopScript, script, catches, ran>>

-----------------------------------------------------------------------------
(* The chip starts again. *)

Boots ==
    /\ TextMode' = FALSE
    /\ messageQueue' = <<>>
    /\ TextBuffer' = <<>>
    /\ executeTextBufferFlag' = FALSE
    /\ isClosed' = FALSE
    /\ luaStopScript' = ""
    /\ host' = "free"
    /\ pc' = "json"
    /\ script' = <<>>
    /\ catches' = FALSE
    /\ UNCHANGED <<sent, ran, writes>>

(* Without esp_task_wdt_reset for five seconds the watchdog resets the chip. *)
(* ble_task calls it once in each round, not in a script nor in the loop of  *)
(* handlePrintMessage.                                                       *)
WatchdogResets ==
    /\ \/ pc \in {"script", "stop"}
       \/ pc = "json" /\ messageQueue # <<>> /\ Head(messageQueue) = "print"
    /\ Boots

PanicResets == pc = "panic" /\ Boots

-----------------------------------------------------------------------------
ConsoleInit ==
    /\ TextMode = FALSE
    /\ messageQueue = <<>>
    /\ TextBuffer = <<>>
    /\ executeTextBufferFlag = FALSE
    /\ isClosed = FALSE
    /\ luaStopScript = ""
    /\ host = "free"
    /\ pc = "json"
    /\ script = <<>>
    /\ catches = FALSE
    /\ sent = {}
    /\ ran = {}
    /\ writes = 0

Host ==
    \/ \E type \in JsonType : ReceiveJson(type)
    \/ \E c \in Chunk : ReceiveText(c)
    \/ ReceiveRun
    \/ ReceiveClear
    \/ ReceiveAbort
    \/ luaClose

(* What ble_task does by itself; a script need not end. *)
BleTask ==
    \/ processJsonMessages
    \/ switchToTextMode
    \/ SwitchEmpties
    \/ PopsMessage
    \/ processTextMessages
    \/ executeTextBuffer
    \/ hookfunc
    \/ StopScriptRuns
    \/ HookRaises
    \/ lua_loop
    \/ ExecuteDone
    \/ ExecuteClears

ConsoleNext == Host \/ BleTask \/ ScriptEnds \/ WatchdogResets \/ PanicResets

ConsoleSpec == ConsoleInit /\ [][ConsoleNext]_consoleVars

(* ble_task is scheduled for ever, a script that runs goes from line to     *)
(* line, so that its hook is called, and a stop script ends.                *)
FairConsoleSpec ==
    /\ ConsoleSpec
    /\ WF_consoleVars(BleTask)
    /\ WF_consoleVars(luaClose)

-----------------------------------------------------------------------------
(* Properties. *)

(* No piece of text is run twice, although it stays in the buffer while it *)
(* runs and requests keep coming in.                                       *)
NoTextRunsTwice ==
    [][pc = "copy" => ran \cap Elements(TextBuffer) = {}]_consoleVars

(* An abort ends a script that never ends by itself: the stop script runs   *)
(* and then the script is over, unless the script catches errors.           *)
AbortEndsScript ==
    (pc = "script" /\ isClosed /\ ~catches)
      ~> pc \notin {"script", "stop", "stopped"}

(* A request to run the text that comes in while no script runs, and nothing *)
(* but messages without a callback is waiting, is carried out.               *)
IdleRequestRuns ==
    /\ executeTextBufferFlag /\ TextMode /\ pc \in {"json", "text"}
    /\ \A k \in 1 .. Len(messageQueue) : messageQueue[k] = "unknown"
    ~> pc = "copy"

(* No sequence of packets makes lua_loop raise an error that nothing catches. *)
NoPanic == pc # "panic"
=============================================================================
