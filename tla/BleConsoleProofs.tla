-------------------------- MODULE BleConsoleProofs --------------------------
(***************************************************************************)
(* Theorems about BleConsole, for any pieces of text and any number of     *)
(* packets.                                                                *)
(***************************************************************************)
EXTENDS BleConsole, TLAPS, SequenceTheorems

(* Where ble_task is while the text it has taken may still be in the buffer. *)
Executing == {"script", "stop", "stopped", "after", "done", "clear", "panic"}

(* Text in the buffer was sent, and, but for the text that is being executed, *)
(* it has not run.                                                            *)
BufferIsFresh ==
    /\ Elements(TextBuffer) \subseteq sent
    /\ pc \notin Executing => ran \cap Elements(TextBuffer) = {}

(* The message switchToTextMode is called for is in the queue until it is     *)
(* popped.                                                                    *)
SwitchHasMessage == pc \in {"switch", "empty", "pop"} => messageQueue # <<>>

ConsoleInv == ConsoleTypeOK /\ BufferIsFresh /\ SwitchHasMessage

-----------------------------------------------------------------------------
(* Sequences. *)

LEMMA ElementsOfEmpty == Elements(<<>>) = {}
BY EmptySeq DEF Elements

LEMMA ElementsOfAppend ==
    ASSUME NEW S, NEW s \in Seq(S), NEW c \in S
    PROVE  /\ Append(s, c) \in Seq(S)
           /\ Elements(Append(s, c)) = Elements(s) \cup {c}
BY AppendProperties, LenProperties DEF Elements

(* A piece of text that is appended when it is sent for the first time keeps *)
(* the text in the buffer fresh.                                             *)
LEMMA ReceiveTextInv ==
    ASSUME ConsoleInv, NEW c \in Chunk, ReceiveText(c)
    PROVE  ConsoleInv'
<1>1. /\ TextBuffer' \in Seq(Chunk)
      /\ Elements(TextBuffer') = Elements(TextBuffer) \cup {c}
  BY ElementsOfAppend DEF ConsoleInv, ConsoleTypeOK, ReceiveText
<1>2. ConsoleTypeOK'
  BY <1>1 DEF ConsoleInv, ConsoleTypeOK, ReceiveText
<1>3. BufferIsFresh'
  BY <1>1 DEF ConsoleInv, ConsoleTypeOK, BufferIsFresh, ReceiveText
<1>4. SwitchHasMessage'
  BY DEF ConsoleInv, SwitchHasMessage, ReceiveText
<1>5. QED
  BY <1>2, <1>3, <1>4 DEF ConsoleInv

LEMMA CountsWrite ==
    ASSUME ConsoleInv, ReceivesControl
    PROVE  writes' \in 0 .. MaxWrites
<1>1. writes \in 0 .. MaxWrites
  BY DEF ConsoleInv, ConsoleTypeOK
<1>2. writes < MaxWrites /\ writes' = writes + 1
  BY DEF ReceivesControl
<1>3. QED
  BY <1>1, <1>2, ConsoleAssumption

(* The other packets leave the buffer alone or empty it. *)
LEMMA ReceiveJsonInv ==
    ASSUME ConsoleInv, NEW type \in JsonType, ReceiveJson(type)
    PROVE  ConsoleInv'
<1>1. messageQueue' \in Seq(JsonType) /\ messageQueue' # <<>>
  <2>1. messageQueue' = Append(messageQueue, type)
    BY DEF ReceiveJson
  <2>2. messageQueue \in Seq(JsonType)
    BY DEF ConsoleInv, ConsoleTypeOK
  <2>3. QED
    BY <2>1, <2>2, AppendProperties
<1>2. ConsoleTypeOK'
  BY <1>1, CountsWrite DEF ConsoleInv, ConsoleTypeOK, ReceiveJson
<1>3. BufferIsFresh'
  BY DEF ConsoleInv, BufferIsFresh, ReceiveJson
<1>4. QED
  BY <1>1, <1>2, <1>3 DEF ConsoleInv, SwitchHasMessage

LEMMA ReceiveControlInv ==
    ASSUME ConsoleInv, ReceiveRun \/ ReceiveClear \/ ReceiveAbort \/ luaClose
    PROVE  ConsoleInv'
<1> USE CountsWrite
    DEF ConsoleInv, ConsoleTypeOK, BufferIsFresh, SwitchHasMessage
<1>1. CASE ReceiveRun
  BY <1>1 DEF ReceiveRun
<1>2. CASE ReceiveClear
  BY <1>2, ElementsOfEmpty, EmptySeq DEF ReceiveClear
<1>3. CASE ReceiveAbort
  BY <1>3 DEF ReceiveAbort
<1>4. CASE luaClose
  BY <1>4 DEF luaClose
<1>5. QED
  BY <1>1, <1>2, <1>3, <1>4

-----------------------------------------------------------------------------
(* ble_task takes messages and switches the mode. *)

LEMMA JsonInv ==
    ASSUME ConsoleInv,
           processJsonMessages \/ switchToTextMode \/ SwitchEmpties \/ PopsMessage
    PROVE  ConsoleInv'
<1>1. messageQueue # <<>> => Tail(messageQueue) \in Seq(JsonType)
  BY HeadTailProperties DEF ConsoleInv, ConsoleTypeOK
<1>2. CASE processJsonMessages
  <2>1. ConsoleTypeOK'
    BY <1>1, <1>2
    DEF ConsoleInv, ConsoleTypeOK, processJsonMessages, hostVars, Location
  <2>2. BufferIsFresh'
    BY <1>2 DEF ConsoleInv, BufferIsFresh, Executing, processJsonMessages, hostVars
  <2>3. SwitchHasMessage'
    BY <1>2 DEF SwitchHasMessage, processJsonMessages
  <2>4. QED
    BY <2>1, <2>2, <2>3 DEF ConsoleInv
<1>3. CASE switchToTextMode
  BY <1>3
  DEF ConsoleInv, ConsoleTypeOK, BufferIsFresh, SwitchHasMessage,
      switchToTextMode, hostVars, Location, Executing
<1>4. CASE SwitchEmpties
  BY <1>4, ElementsOfEmpty, EmptySeq
  DEF ConsoleInv, ConsoleTypeOK, BufferIsFresh, SwitchHasMessage,
      SwitchEmpties, hostVars, Location
<1>5. CASE PopsMessage
  <2>1. messageQueue' \in Seq(JsonType)
    BY <1>1, <1>5 DEF ConsoleInv, SwitchHasMessage, PopsMessage
  <2> QED
    BY <1>5, <2>1
    DEF ConsoleInv, ConsoleTypeOK, BufferIsFresh, SwitchHasMessage,
        PopsMessage, hostVars, Location, Executing
<1>6. QED
  BY <1>2, <1>3, <1>4, <1>5

(* It runs the text: from the copy to ExecuteClears the buffer may hold text *)
(* that has run, and no step in between leads out of Executing.              *)
LEMMA ExecuteInv ==
    ASSUME ConsoleInv, executeTextBuffer \/ ExecuteClears
    PROVE  ConsoleInv'
<1>1. CASE executeTextBuffer
  BY <1>1 DEF ConsoleInv, ConsoleTypeOK, BufferIsFresh, SwitchHasMessage,
              executeTextBuffer, hostVars, Location, Executing
<1>2. CASE ExecuteClears
  BY <1>2, ElementsOfEmpty, EmptySeq
  DEF ConsoleInv, ConsoleTypeOK, BufferIsFresh, SwitchHasMessage,
      ExecuteClears, hostVars, Location
<1>3. QED
  BY <1>1, <1>2

LEMMA ScriptInv ==
    ASSUME ConsoleInv,
           \/ processTextMessages \/ hookfunc \/ StopScriptRuns \/ HookRaises
           \/ lua_loop \/ ExecuteDone \/ ScriptEnds
    PROVE  ConsoleInv'
<1> USE DEF ConsoleInv, ConsoleTypeOK, BufferIsFresh, SwitchHasMessage,
            hostVars, Location, Executing
<1>1. CASE processTextMessages
  BY <1>1 DEF processTextMessages
<1>2. CASE hookfunc
  BY <1>2 DEF hookfunc
<1>3. CASE StopScriptRuns
  BY <1>3 DEF StopScriptRuns
<1>4. CASE HookRaises
  BY <1>4 DEF HookRaises
<1>5. CASE lua_loop
  BY <1>5 DEF lua_loop
<1>6. CASE ExecuteDone
  BY <1>6, EmptySeq DEF ExecuteDone
<1>7. CASE ScriptEnds
  BY <1>7 DEF ScriptEnds
<1>8. QED
  BY <1>1, <1>2, <1>3, <1>4, <1>5, <1>6, <1>7

LEMMA BootsInv == ASSUME ConsoleInv, Boots PROVE ConsoleInv'
BY ElementsOfEmpty, EmptySeq
DEF ConsoleInv, ConsoleTypeOK, BufferIsFresh, SwitchHasMessage, Boots, Location

-----------------------------------------------------------------------------
LEMMA InitConsoleInv == ConsoleInit => ConsoleInv
<1> SUFFICES ASSUME ConsoleInit PROVE ConsoleInv
  OBVIOUS
<1>1. writes \in 0 .. MaxWrites
  <2>1. writes = 0
    BY DEF ConsoleInit
  <2>2. QED
    BY <2>1, ConsoleAssumption
<1>2. ConsoleTypeOK
  BY <1>1, EmptySeq DEF ConsoleInit, ConsoleTypeOK, Location
<1>3. BufferIsFresh /\ SwitchHasMessage
  BY ElementsOfEmpty DEF ConsoleInit, BufferIsFresh, SwitchHasMessage
<1>4. QED
  BY <1>2, <1>3 DEF ConsoleInv

LEMMA NextConsoleInv == ConsoleInv /\ [ConsoleNext]_consoleVars => ConsoleInv'
<1> SUFFICES ASSUME ConsoleInv, [ConsoleNext]_consoleVars PROVE ConsoleInv'
  OBVIOUS
<1>1. CASE Host
  BY <1>1, ReceiveTextInv, ReceiveJsonInv, ReceiveControlInv DEF Host
<1>2. CASE BleTask \/ ScriptEnds
  BY <1>2, JsonInv, ExecuteInv, ScriptInv DEF BleTask
<1>3. CASE WatchdogResets \/ PanicResets
  BY <1>3, BootsInv DEF WatchdogResets, PanicResets
<1>4. CASE UNCHANGED consoleVars
  BY <1>4
  DEF consoleVars, ConsoleInv, ConsoleTypeOK, BufferIsFresh, SwitchHasMessage
<1>5. QED
  BY <1>1, <1>2, <1>3, <1>4 DEF ConsoleNext

(* Every variable of the console keeps its type. *)
THEOREM TypeCorrect == ConsoleSpec => []ConsoleTypeOK
<1>1. ConsoleInv => ConsoleTypeOK
  BY DEF ConsoleInv
<1>2. QED
  BY <1>1, InitConsoleInv, NextConsoleInv, PTL DEF ConsoleSpec

(* No piece of text that was run is ever handed to lua_loop again. *)
THEOREM TextRunsOnce == ConsoleSpec => NoTextRunsTwice
<1>1. ConsoleInv /\ [ConsoleNext]_consoleVars
        => [pc = "copy" => ran \cap Elements(TextBuffer) = {}]_consoleVars
  BY DEF ConsoleInv, BufferIsFresh, Executing
<1>2. QED
  BY <1>1, InitConsoleInv, NextConsoleInv, PTL DEF ConsoleSpec, NoTextRunsTwice
=============================================================================
