------------------------------ MODULE BleFile ------------------------------
(***************************************************************************)
(* File transfer over BLE: receiveOTA, processOTAData and handleOTA of      *)
(* ble_controller.cpp, the file layer of spiffsfile.h, and the way Arduino's*)
(* File writes through the buffer of a C stream (vfs_api.cpp).              *)
(*                                                                          *)
(* The Bluetooth host collects packets in blankota and pushes whole frames  *)
(* on msgota; ble_task handles one frame at a time.  A frame is a sequence  *)
(* of units: a request is a JSON document of two units, so that it can be   *)
(* cut in two, and data is a header followed by bytes, all different.  What *)
(* the units of a frame mean depends on where it begins, so a frame that is *)
(* glued to the beginning of an earlier one is handled as the code does.    *)
(*                                                                          *)
(* disk is the flash: what is there survives a reset of the chip.  A file   *)
(* that is removed or formatted away while it is open leaves currentFile    *)
(* open on nothing (GONE), and a renamed one keeps it on the new name.      *)
(***************************************************************************)
EXTENDS Integers, Sequences, SequencesExt

CONSTANTS
    Name,           \* file names
    Request,        \* the JSON requests the phone may make
    BUFFER_SIZE,
    Length,         \* numbers of bytes in a data frame
    MaxBytes,       \* bound on the bytes the phone sends
    MaxFrames,      \* bound on the frames the phone begins
    MaxAhead,       \* bound on the frames waiting when it begins another
    FlashMayFail,   \* can a write be short, or an open, rename... fail?
    NULL, GONE,
    LONG            \* a name longer than MAX_FILENAME_LENGTH

(* filelist stands for spiffssize and initspiffs, which change nothing either. *)
AnyRequest ==
    [type : {"fileopen"}, name : Name \cup {LONG}, size : Nat]
      \cup [type : {"filedelete", "otaupdate"}, name : Name]
      \cup [type : {"filerename"}, name : Name, new : Name]
      \cup [type : {"fileclose", "formatspiffs", "filelist"}]

ASSUME FileAssumption ==
    /\ Request \subseteq AnyRequest
    /\ Length \subseteq Nat
    /\ BUFFER_SIZE \in Nat \ {0}
    /\ MaxBytes \in Nat /\ MaxFrames \in Nat /\ MaxAhead \in Nat
    /\ FlashMayFail \in BOOLEAN
    /\ NULL \notin Name /\ GONE \notin Name /\ LONG \notin Name
    /\ NULL # GONE

VARIABLES
    wire,        \* what is left to send of the frame the phone is sending
    frames,      \* frames begun so far
    bytes,       \* bytes used in frames so far
    blankota,    \* units of the frame being received
    msgota,      \* frames received and not yet handled
    disk,        \* the content of each file, or NULL
    handle,      \* the file currentFile has open, GONE, or NULL
    stream,      \* bytes in the buffer of currentFile's stream
    currentFileName,
    currentFileSize,
    currentFileSizeFull,
    buffer,      \* buffer[0 .. bufferPos - 1]
    statusName,  \* fileStatus.currentFileName
    totalSize,   \* fileStatus.totalSize
    pc,          \* where ble_task is: "idle" or in writeFile
    data,        \* the bytes writeFile has still to copy
    response,    \* the last answer
    received,    \* bytes writeFile was given since the file was opened
    disturbed    \* since then, was a write repeated or the file removed?

phoneVars == <<wire, frames, bytes>>
frameVars == <<blankota, msgota>>
openVars == <<handle, stream>>
sizeVars == <<currentFileName, currentFileSize, currentFileSizeFull>>
fileVars == <<disk, openVars, sizeVars, buffer>>
ghostVars == <<received, disturbed>>
fileStatus == <<statusName, totalSize>>
taskVars == <<fileVars, fileStatus, pc, data, response, ghostVars>>
bleFileVars == <<phoneVars, frameVars, taskVars>>

Doc(r) == <<<<"doc", r, 1>>, <<"doc", r, 2>>>>
DataHeader == <<"data">>
Byte(n) == <<"byte", n>>
EndOfFrame == <<"end">>  \* '\4', always at the end of a packet

Unit == {<<"doc", r, k>> : r \in Request, k \in {1, 2}}
          \cup {DataHeader} \cup {Byte(n) : n \in 1 .. MaxBytes}

ASSUME NullAssumption == NULL \notin Seq(Unit)

ErrorCode == {"none", "FILE_OK", "FILE_NOT_FOUND", "FILE_OPEN_FAILED",
              "FILE_WRITE_FAILED", "FILE_CLOSE_FAILED", "FILE_DELETE_FAILED",
              "FILE_RENAME_FAILED", "FILE_SIZE_MISMATCH", "SPIFFS_FORMAT_FAILED",
              "SPIFFS_FORMAT_SUCCESS", "FILE_NOT_OPENED", "FILE_WRITE_COMPLETE",
              "JSON_ERROR", "OTA update successful", "OTA update failed"}

FileTypeOK ==
    /\ wire \in Seq(Unit \cup {EndOfFrame})
    /\ bytes \in 0 .. MaxBytes /\ frames \in 0 .. MaxFrames
    /\ blankota \in Seq(Unit)
    /\ msgota \in Seq(Seq(Unit))
    /\ disk \in [Name -> Seq(Unit) \cup {NULL}]
    /\ handle \in Name \cup {NULL, GONE}
    /\ handle \in Name => disk[handle] # NULL
    /\ stream \in Seq(Unit)
    /\ currentFileName \in Name \cup {NULL}
    /\ currentFileSize \in Nat /\ currentFileSizeFull \in Nat
    /\ buffer \in Seq(Unit) /\ Len(buffer) <= BUFFER_SIZE
    /\ statusName \in Name \cup {LONG, NULL} /\ totalSize \in Nat
    /\ pc \in {"idle", "copy", "flush", "last", "close", "trap", "restart"}
    /\ data \in Seq(Unit)
    /\ response \in ErrorCode
    /\ received \in Seq(Unit)
    /\ disturbed \in BOOLEAN

-----------------------------------------------------------------------------
(* The phone and the Bluetooth host. *)

NewBytes(n) == [k \in 1 .. n |-> Byte(bytes + k)]

BeginFrame(frame, n) ==
    /\ wire = <<>>
    /\ frames < MaxFrames /\ bytes + n <= MaxBytes /\ Len(msgota) < MaxAhead
    /\ wire' = Append(frame, EndOfFrame)
    /\ frames' = frames + 1
    /\ bytes' = bytes + n
    /\ UNCHANGED <<frameVars, taskVars>>

(* receiveOTA, for a packet of k units. *)
receiveOTA(k) ==
    /\ LET packet == SubSeq(wire, 1, k) IN
          IF \E i \in 1 .. k : packet[i] = EndOfFrame
          THEN /\ msgota' = Append(msgota, blankota \o SubSeq(packet, 1, k - 1))
               /\ blankota' = <<>>
          ELSE /\ blankota' = blankota \o packet
               /\ UNCHANGED msgota
    /\ wire' = SubSeq(wire, k + 1, Len(wire))
    /\ UNCHANGED <<frames, bytes, taskVars>>

(* The connection is lost in the middle of a frame; blankota stays. *)
Disconnect ==
    /\ wire # <<>>
    /\ wire' = <<>>
    /\ UNCHANGED <<frames, bytes, frameVars, taskVars>>

-----------------------------------------------------------------------------
(* Arduino's File and SPIFFS.  Each operator constrains disk', handle' and  *)
(* stream'.                                                                 *)

isOpen == handle # NULL

(* What is written to the open file lands behind its content, or nowhere. *)
Stored(file, content) ==
    IF file \in Name THEN [disk EXCEPT ![file] = @ \o content] ELSE disk

(* Closing writes what the stream holds; how that went nobody is told. *)
Close ==
    /\ \E n \in (IF FlashMayFail THEN 0 ELSE Len(stream)) .. Len(stream) :
          disk' = Stored(handle, SubSeq(stream, 1, n))
    /\ handle' = NULL
    /\ stream' = <<>>

(* A write that reports success: a full buffer goes to the flash, a smaller *)
(* one may stay in the stream.                                              *)
WriteReportsAll ==
    \/ /\ handle \in Name
       /\ disk' = Stored(handle, buffer)
       /\ UNCHANGED stream
    \/ /\ Len(buffer) < BUFFER_SIZE
       /\ stream' = stream \o buffer
       /\ UNCHANGED disk

(* How much of a write that reports success is on the flash after a flush, *)
(* whose result File drops.                                                *)
StoredOfReported ==
    IF FlashMayFail /\ Len(buffer) < BUFFER_SIZE THEN 0 .. Len(buffer)
    ELSE {Len(buffer)}

(* The files in Names are removed, under currentFile too. *)
RemoveAll(Names) ==
    /\ disk' = [n \in Name |-> IF n \in Names THEN NULL ELSE disk[n]]
    /\ handle' = IF handle \in Names THEN GONE ELSE handle
    /\ disturbed' = (disturbed \/ handle \in Names)
    /\ UNCHANGED <<stream, received>>

-----------------------------------------------------------------------------
(* spiffsfile.h *)

(* Mutant: the buffer of the last file is not emptied. *)
createFileKeepsBuffer(name, size) ==
    /\ name # LONG
    /\ disk' = [disk EXCEPT ![name] = <<>>]
    /\ handle' = name /\ stream' = <<>>
    /\ currentFileName' = name
    /\ currentFileSize' = 0 /\ currentFileSizeFull' = size
    /\ response' = "FILE_OK"
    /\ received' = <<>> /\ disturbed' = FALSE
    /\ UNCHANGED buffer

(* SPIFFS.remove and SPIFFS.open for writing; a failed open leaves the      *)
(* name, the sizes and the buffer as they were, and a name that is too long *)
(* leaves the file that was open, open.                                     *)
createFile(name, size) ==
    \/ /\ name = LONG
       /\ response' = "FILE_OPEN_FAILED"
       /\ UNCHANGED <<fileVars, ghostVars>>
    \/ /\ name # LONG
       /\ disk' = [disk EXCEPT ![name] = <<>>]
       /\ handle' = name /\ stream' = <<>>
       /\ currentFileName' = name
       /\ currentFileSize' = 0 /\ currentFileSizeFull' = size
       /\ buffer' = <<>>
       /\ response' = "FILE_OK"
       /\ received' = <<>> /\ disturbed' = FALSE
    \/ /\ name # LONG /\ FlashMayFail
       /\ disk' \in {disk, [disk EXCEPT ![name] = NULL]}
       /\ handle' = NULL /\ stream' = <<>>
       /\ response' = "FILE_OPEN_FAILED"
       /\ UNCHANGED <<sizeVars, buffer, ghostVars>>

CountsBuffer ==
    /\ currentFileSize' = currentFileSize + Len(buffer)
    /\ buffer' = <<>>
    /\ UNCHANGED <<currentFileName, currentFileSizeFull>>

(* Mutant: what write returns is not looked at. *)
flushBufferOnce ==
    /\ \E n \in (IF FlashMayFail THEN 0 ELSE Len(buffer)) .. Len(buffer) :
          disk' = Stored(handle, SubSeq(buffer, 1, n))
    /\ CountsBuffer
    /\ UNCHANGED <<openVars, disturbed>>

(* flushBuffer: one write; after a short one the file is reopened by its    *)
(* name and the whole buffer written again, behind what is there.           *)
flushBuffer ==
    \/ /\ buffer = <<>>
       /\ UNCHANGED <<fileVars, disturbed>>
    \/ /\ buffer # <<>>
       /\ WriteReportsAll
       /\ CountsBuffer
       /\ UNCHANGED <<handle, disturbed>>
    \/ /\ buffer # <<>> /\ (FlashMayFail \/ handle = GONE)
       /\ \E short \in 0 .. Len(buffer) - 1 :
             LET after == Stored(handle, SubSeq(buffer, 1, short))
                 old == IF after[currentFileName] = NULL
                        THEN <<>> ELSE after[currentFileName]
             IN \/ /\ \E n \in StoredOfReported :
                         disk' = [after EXCEPT ![currentFileName] =
                                    old \o SubSeq(buffer, 1, n)]
                   /\ handle' = currentFileName
                   /\ CountsBuffer
                \/ /\ FlashMayFail
                   /\ \/ disk' = after
                      \/ \E again \in 0 .. Len(buffer) - 1 :
                            disk' = [after EXCEPT ![currentFileName] =
                                       old \o SubSeq(buffer, 1, again)]
                   /\ handle' = NULL
                   /\ UNCHANGED <<sizeVars, buffer>>
       /\ stream' = <<>>
       /\ disturbed' = TRUE

(* Mutant: a file of the wrong size is reported but not closed. *)
CloseOnlyComplete ==
    /\ IF currentFileSize = currentFileSizeFull
       THEN /\ Close
            /\ currentFileName' = NULL
            /\ currentFileSize' = 0 /\ currentFileSizeFull' = 0
       ELSE UNCHANGED <<disk, openVars, sizeVars>>
    /\ UNCHANGED buffer

(* closeFile on an open file. *)
CloseOpenFile ==
    /\ Close
    /\ IF currentFileSize = currentFileSizeFull
       THEN currentFileName' = NULL /\ currentFileSize' = 0 /\ currentFileSizeFull' = 0
       ELSE UNCHANGED sizeVars
    /\ UNCHANGED buffer

closeFile ==
    \/ /\ ~isOpen
       /\ response' = "FILE_CLOSE_FAILED"
       /\ UNCHANGED fileVars
    \/ /\ isOpen
       /\ CloseOpenFile
       /\ response' = IF currentFileSize = currentFileSizeFull
                      THEN "FILE_OK" ELSE "FILE_SIZE_MISMATCH"

(* deleteFile, renameFile and formatSPIFFS: what they do to the flash, and  *)
(* the code they answer with.                                               *)
deleteFile(name) ==
    \/ /\ disk[name] = NULL
       /\ response' = "FILE_NOT_FOUND"
       /\ UNCHANGED <<disk, openVars, ghostVars>>
    \/ /\ disk[name] # NULL
       /\ RemoveAll({name})
       /\ response' = "FILE_OK"
    \/ /\ disk[name] # NULL /\ FlashMayFail
       /\ response' = "FILE_DELETE_FAILED"
       /\ UNCHANGED <<disk, openVars, ghostVars>>

renameFile(old, new) ==
    \/ /\ disk[old] = NULL
       /\ response' = "FILE_NOT_FOUND"
       /\ UNCHANGED <<disk, handle>>
    \/ /\ disk[old] # NULL /\ disk[new] = NULL
       /\ disk' = [disk EXCEPT ![old] = NULL, ![new] = disk[old]]
       /\ handle' = IF handle = old THEN new ELSE handle
       /\ response' = "FILE_OK"
    \/ /\ disk[old] # NULL /\ (disk[new] # NULL \/ FlashMayFail)
       /\ response' = "FILE_RENAME_FAILED"
       /\ UNCHANGED <<disk, handle>>

formatSPIFFS ==
    \/ RemoveAll(Name) /\ response' = "SPIFFS_FORMAT_SUCCESS"
    \/ /\ FlashMayFail
       /\ response' = "SPIFFS_FORMAT_FAILED"
       /\ RemoveAll(Name) \/ UNCHANGED <<disk, openVars, ghostVars>>

(* updateFromFS: whatever becomes of the image, the file is removed. *)
updateFromFS(name) ==
    \/ /\ disk[name] = NULL
       /\ response' = "OTA update failed"
       /\ UNCHANGED <<disk, openVars, ghostVars, pc>>
    \/ /\ disk[name] # NULL
       /\ RemoveAll({name})
       /\ \/ response' = "OTA update failed" /\ UNCHANGED pc
          \/ /\ disk[name] # <<>>
             /\ response' = "OTA update successful"
             /\ pc' = "restart"

-----------------------------------------------------------------------------
(* ble_task: processOTAData takes a frame, which begins with its kind;      *)
(* handleOTA parses the document and ignores what follows it.               *)

Begins(frame, r) == Len(frame) >= 2 /\ SubSeq(frame, 1, 2) = Doc(r)

HandlesRequest(r) ==
    \/ /\ r.type = "fileopen"
       /\ statusName' = r.name /\ totalSize' = r.size
       /\ createFile(r.name, r.size)
       /\ UNCHANGED pc
    \/ /\ r.type = "fileclose"
       /\ closeFile
       /\ statusName' = NULL /\ totalSize' = 0
       /\ UNCHANGED <<pc, ghostVars>>
    \/ /\ r.type = "filedelete"
       /\ deleteFile(r.name)
       /\ UNCHANGED <<sizeVars, buffer, fileStatus, pc>>
    \/ /\ r.type = "filerename"
       /\ renameFile(r.name, r.new)
       /\ UNCHANGED <<stream, sizeVars, buffer, fileStatus, pc, ghostVars>>
    \/ /\ r.type = "formatspiffs"
       /\ formatSPIFFS
       /\ UNCHANGED <<sizeVars, buffer, fileStatus, pc>>
    \/ /\ r.type = "otaupdate"
       /\ updateFromFS(r.name)
       /\ UNCHANGED <<sizeVars, buffer, fileStatus>>
    \/ /\ r.type = "filelist"
       /\ response' = "FILE_OK"
       /\ UNCHANGED <<fileVars, fileStatus, pc, ghostVars>>

TakesDoc ==
    /\ pc = "idle" /\ msgota # <<>>
    /\ Head(msgota) # <<>> /\ Head(msgota)[1] # DataHeader
    /\ msgota' = Tail(msgota)
    /\ \/ \E r \in Request : Begins(Head(msgota), r) /\ HandlesRequest(r)
       \/ /\ \A r \in Request : ~Begins(Head(msgota), r)
          /\ response' = "JSON_ERROR"
          /\ UNCHANGED <<fileVars, fileStatus, pc, ghostVars>>
    /\ UNCHANGED <<phoneVars, blankota, data>>

(* The end of a data frame.  Before the answer the progress is computed by   *)
(* a division by totalSize; by 0 it traps, or not, depending on the chip.    *)
Answer(code) ==
    /\ data' = <<>>
    /\ \/ response' = code /\ pc' = "idle"
       \/ totalSize = 0 /\ pc' = "trap" /\ UNCHANGED response

TakesData ==
    /\ pc = "idle" /\ msgota # <<>>
    /\ Head(msgota) # <<>> /\ Head(msgota)[1] = DataHeader
    /\ msgota' = Tail(msgota)
    /\ IF isOpen
       THEN /\ pc' = "copy"
            /\ data' = Tail(Head(msgota))
            /\ received' = received \o Tail(Head(msgota))
            /\ UNCHANGED response
       ELSE /\ Answer("FILE_NOT_OPENED")
            /\ UNCHANGED received
    /\ UNCHANGED <<phoneVars, blankota, fileVars, fileStatus, disturbed>>

(* Mutant: the bytes are copied without looking at the room left. *)
CopyAllBytes ==
    /\ pc = "copy" /\ data # <<>>
    /\ buffer' = buffer \o data
    /\ data' = <<>>
    /\ pc' = IF Len(buffer') >= BUFFER_SIZE THEN "flush" ELSE "copy"
    /\ UNCHANGED <<phoneVars, frameVars, disk, openVars, sizeVars, fileStatus,
                   response, ghostVars>>

(* writeFile copies as much as fits. *)
CopyBytes ==
    /\ pc = "copy" /\ data # <<>>
    /\ LET fits == BUFFER_SIZE - Len(buffer)
           n == IF Len(data) < fits THEN Len(data) ELSE fits
       IN  /\ buffer' = buffer \o SubSeq(data, 1, n)
           /\ data' = SubSeq(data, n + 1, Len(data))
           /\ pc' = IF n = fits THEN "flush" ELSE "copy"
    /\ UNCHANGED <<phoneVars, frameVars, disk, openVars, sizeVars, fileStatus,
                   response, ghostVars>>

(* Mutant: the buffer is flushed and a lost file goes unnoticed. *)
FlushUnchecked ==
    /\ pc = "flush"
    /\ flushBuffer
    /\ pc' = "copy"
    /\ UNCHANGED <<phoneVars, frameVars, fileStatus, data, response, received>>

FlushFull ==
    /\ pc = "flush"
    /\ flushBuffer
    /\ \/ isOpen' /\ pc' = "copy" /\ UNCHANGED <<data, response>>
       \/ ~isOpen' /\ Answer("FILE_WRITE_FAILED")
    /\ UNCHANGED <<phoneVars, frameVars, fileStatus, received>>

(* All bytes are in: compare with the announced size. *)
ComparesSize ==
    /\ pc = "copy" /\ data = <<>>
    /\ LET size == currentFileSize + Len(buffer) IN
       \/ /\ size > currentFileSizeFull
          /\ CloseOpenFile
          /\ Answer("FILE_SIZE_MISMATCH")
       \/ /\ size < currentFileSizeFull
          /\ Answer("FILE_OK")
          /\ UNCHANGED fileVars
       \/ /\ size = currentFileSizeFull
          /\ pc' = "last"
          /\ UNCHANGED <<fileVars, data, response>>
    /\ UNCHANGED <<phoneVars, frameVars, fileStatus, ghostVars>>

FlushLast ==
    /\ pc = "last"
    /\ flushBuffer
    /\ \/ isOpen' /\ pc' = "close" /\ UNCHANGED <<data, response>>
       \/ ~isOpen' /\ Answer("FILE_WRITE_FAILED")
    /\ UNCHANGED <<phoneVars, frameVars, fileStatus, received>>

CompletesFile ==
    /\ pc = "close"
    /\ CloseOpenFile
    /\ Answer("FILE_WRITE_COMPLETE")
    /\ UNCHANGED <<phoneVars, frameVars, fileStatus, ghostVars>>

(* The chip resets: a trap, a restart into new firmware or a loss of power. *)
Reset ==
    /\ wire' = <<>>
    /\ blankota' = <<>> /\ msgota' = <<>>
    /\ handle' = NULL /\ stream' = <<>>
    /\ currentFileName' = NULL
    /\ currentFileSize' = 0 /\ currentFileSizeFull' = 0 /\ buffer' = <<>>
    /\ statusName' = NULL /\ totalSize' = 0
    /\ pc' = "idle" /\ data' = <<>>
    /\ response' = "none"
    /\ received' = <<>> /\ disturbed' = FALSE
    /\ UNCHANGED <<frames, bytes, disk>>

-----------------------------------------------------------------------------
FileInit ==
    /\ wire = <<>> /\ frames = 0 /\ bytes = 0
    /\ blankota = <<>> /\ msgota = <<>>
    /\ disk = [n \in Name |-> NULL]
    /\ handle = NULL /\ stream = <<>>
    /\ currentFileName = NULL
    /\ currentFileSize = 0 /\ currentFileSizeFull = 0 /\ buffer = <<>>
    /\ statusName = NULL /\ totalSize = 0
    /\ pc = "idle" /\ data = <<>>
    /\ response = "none"
    /\ received = <<>> /\ disturbed = FALSE

Phone ==
    \/ \E r \in Request : BeginFrame(Doc(r), 0)
    \/ \E n \in Length : BeginFrame(<<DataHeader>> \o NewBytes(n), n)
    \/ \E k \in 1 .. Len(wire) : receiveOTA(k)
    \/ Disconnect

BleTask ==
    \/ TakesDoc
    \/ TakesData
    \/ CopyBytes
    \/ FlushFull
    \/ ComparesSize
    \/ FlushLast
    \/ CompletesFile

FileNext == Phone \/ BleTask \/ Reset

FileSpec == FileInit /\ [][FileNext]_bleFileVars

(* ble_task is scheduled for ever, and a trap or a restart resets the chip. *)
FairFileSpec ==
    /\ FileSpec
    /\ WF_bleFileVars(BleTask)
    /\ WF_bleFileVars(pc \in {"trap", "restart"} /\ Reset)

-----------------------------------------------------------------------------
(* Properties. *)

(* Between the frames and the flash nothing is lost, doubled or reordered:  *)
(* what writeFile was given is in the file, in the stream, in the buffer or  *)
(* still to be copied, and the count of the bytes written is right, also in  *)
(* a file that is renamed on the way.  After a repeated write, or with the   *)
(* file removed under the transfer, only the counts still agree.             *)
NothingLostOnTheWay ==
    isOpen =>
        /\ ~disturbed =>
              /\ handle \in Name
              /\ received = disk[handle] \o stream \o buffer \o data
              /\ currentFileSize = Len(disk[handle]) + Len(stream)
        /\ Len(received) = currentFileSize + Len(buffer) + Len(data)

(* FILE_WRITE_COMPLETE means the phone sent as many bytes as it announced,   *)
(* and that all of them are in the file but for those of the last buffer,    *)
(* which closing the stream may lose without a word.                         *)
CompleteMeansStored ==
    [][pc = "close" /\ response' = "FILE_WRITE_COMPLETE" =>
         /\ Len(received) = currentFileSizeFull
         /\ ~disturbed =>
               /\ disk'[handle] = SubSeq(received, 1, Len(disk'[handle]))
               /\ Len(received) - Len(disk'[handle]) < BUFFER_SIZE
      ]_bleFileVars

(* The progress of an open file is computed with that file's size, so the    *)
(* division by totalSize never traps while a file that has bytes is written; *)
(* it can for a frame that comes after a fileclose or before a fileopen, and *)
(* after a fileopen that is refused for its name and leaves the last file    *)
(* open.                                                                     *)
OpenFileHasTotal ==
    isOpen /\ statusName # LONG => totalSize = currentFileSizeFull

(* writeFile ends, whatever the flash does: its loop makes progress. *)
WriteEnds == pc # "idle" ~> pc = "idle"
=============================================================================
