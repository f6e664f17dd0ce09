--------------------------- MODULE BleFileProofs ---------------------------
(***************************************************************************)
(* Theorems about BleFile, for any files, requests, buffer size, frames    *)
(* and failures of the flash.                                              *)
(*                                                                         *)
(* NothingLostOnTheWay is not inductive: it is Stations, what holds at     *)
(* each place of writeFile, that says the stream is empty whenever more    *)
(* bytes are written, and that a failed flush has closed the file.         *)
(***************************************************************************)
EXTENDS BleFile, TLAPS, SequenceTheorems

PhoneTypeOK ==
    /\ wire \in Seq(Unit \cup {EndOfFrame})
    /\ \A i \in 1 .. Len(wire) - 1 : wire[i] \in Unit
    /\ bytes \in 0 .. MaxBytes /\ frames \in 0 .. MaxFrames
    /\ blankota \in Seq(Unit)
    /\ msgota \in Seq(Seq(Unit))

FilesTypeOK ==
    /\ disk \in [Name -> Seq(Unit) \cup {NULL}]
    /\ handle \in Name \cup {NULL, GONE}
    /\ handle \in Name => disk[handle] # NULL
    /\ stream \in Seq(Unit)
    /\ currentFileName \in Name \cup {NULL}
    /\ currentFileSize \in Nat /\ currentFileSizeFull \in Nat
    /\ buffer \in Seq(Unit) /\ Len(buffer) <= BUFFER_SIZE

TransferTypeOK ==
    /\ statusName \in Name \cup {LONG, NULL} /\ totalSize \in Nat
    /\ pc \in {"idle", "copy", "flush", "last", "close", "trap", "restart"}
    /\ data \in Seq(Unit)
    /\ response \in ErrorCode
    /\ received \in Seq(Unit)
    /\ disturbed \in BOOLEAN

Stations ==
    /\ isOpen => currentFileName \in Name
    /\ pc \in {"copy", "flush", "last", "close"} => isOpen
    /\ pc \notin {"copy", "flush"} => data = <<>>
    /\ stream # <<>> => pc = "close"
    /\ Len(stream) < BUFFER_SIZE
    /\ pc = "flush" => Len(buffer) = BUFFER_SIZE
    /\ pc = "last" => currentFileSize + Len(buffer) = currentFileSizeFull
    /\ pc = "close" => buffer = <<>> /\ currentFileSize = currentFileSizeFull

TransferInv ==
    /\ FilesTypeOK
    /\ TransferTypeOK
    /\ Stations
    /\ NothingLostOnTheWay
    /\ OpenFileHasTotal

-----------------------------------------------------------------------------
(* Sequences. *)

(* A sequence cut after its first n elements. *)
LEMMA Cut ==
    ASSUME NEW S, NEW s \in Seq(S), NEW n \in 0 .. Len(s)
    PROVE  /\ SubSeq(s, 1, n) \in Seq(S) /\ Len(SubSeq(s, 1, n)) = n
           /\ SubSeq(s, n + 1, Len(s)) \in Seq(S)
           /\ Len(SubSeq(s, n + 1, Len(s))) = Len(s) - n
           /\ SubSeq(s, 1, n) \o SubSeq(s, n + 1, Len(s)) = s
<1>1. Len(s) \in Nat /\ \A i \in 1 .. Len(s) : s[i] \in S
  BY LenProperties, ElementOfSeq
<1>2. SubSeq(s, 1, n) \in Seq(S) /\ Len(SubSeq(s, 1, n)) = n
  BY <1>1, SubSeqProperties
<1>3. /\ SubSeq(s, n + 1, Len(s)) \in Seq(S)
      /\ Len(SubSeq(s, n + 1, Len(s))) = Len(s) - n
  BY <1>1, SubSeqProperties
<1>4. SubSeq(s, 1, n) \o SubSeq(s, n + 1, Len(s)) = SubSeq(s, 1, Len(s))
  <2>1. /\ 1 \in 1 .. Len(s) + 1 /\ n \in (1 - 1) .. Len(s)
        /\ Len(s) \in n .. Len(s)
    BY <1>1
  <2>2. QED
    BY <2>1, ConcatAdjacentSubSeq, Zenon
<1>5. QED
  BY <1>2, <1>3, <1>4, SubSeqFull

LEMMA ConcatType ==
    ASSUME NEW S, NEW s \in Seq(S), NEW t \in Seq(S)
    PROVE  s \o t \in Seq(S) /\ Len(s \o t) = Len(s) + Len(t)
BY ConcatProperties

(* Everything on the way to the flash, in its order. *)
Way(file, inStream, inBuffer, left) == ((file \o inStream) \o inBuffer) \o left

LEMMA WayAppend ==
    ASSUME NEW S, NEW file \in Seq(S), NEW b \in Seq(S), NEW new \in Seq(S)
    PROVE  Way(file, <<>>, b, <<>>) \o new = Way(file, <<>>, b, new)
<1>1. /\ file \o b \in Seq(S) /\ file \o <<>> = file
      /\ (file \o b) \o <<>> = file \o b
  BY ConcatType, ConcatEmptySeq
<1>2. QED
  BY <1>1 DEF Way

(* Bytes that are copied to the buffer leave the whole as it is. *)
LEMMA WayOn ==
    ASSUME NEW S, NEW file \in Seq(S), NEW b \in Seq(S), NEW left \in Seq(S)
    PROVE  \A n \in 0 .. Len(left) :
              Way(file, <<>>, b, left)
                = Way(file, <<>>, b \o SubSeq(left, 1, n),
                      SubSeq(left, n + 1, Len(left)))
<1>0. <<>> \in Seq(S)
  BY EmptySeq
<1>1. file \o b \in Seq(S) /\ file \o <<>> = file /\ (file \o b) \o <<>> = file \o b
  BY ConcatType, ConcatEmptySeq
<1>2. ASSUME NEW n \in 0 .. Len(left)
      PROVE  (file \o b) \o left
               = (file \o (b \o SubSeq(left, 1, n))) \o SubSeq(left, n + 1, Len(left))
  <2>1. /\ SubSeq(left, 1, n) \in Seq(S)
        /\ SubSeq(left, n + 1, Len(left)) \in Seq(S)
        /\ SubSeq(left, 1, n) \o SubSeq(left, n + 1, Len(left)) = left
    BY Cut
  <2>2. PICK u, v \in Seq(S) :
          u = SubSeq(left, 1, n) /\ v = SubSeq(left, n + 1, Len(left))
    BY <2>1
  <2>3. (file \o b) \o (u \o v) = (file \o (b \o u)) \o v
    OBVIOUS
  <2>4. QED
    BY <2>1, <2>2, <2>3, Zenon
<1>3. QED
  BY <1>1, <1>2, ConcatEmptySeq DEF Way

-----------------------------------------------------------------------------
(* spiffsfile.h *)

(* What is written to an open file lands behind its content. *)
LEMMA StoredType ==
    ASSUME FilesTypeOK, NEW s \in Seq(Unit)
    PROVE  /\ Stored(handle, s) \in [Name -> Seq(Unit) \cup {NULL}]
           /\ handle \in Name =>
                 /\ Stored(handle, s)[handle] = disk[handle] \o s
                 /\ disk[handle] \in Seq(Unit)
                 /\ Stored(handle, s)[handle] \in Seq(Unit)
<1>1. CASE handle \in Name
  <2>1. disk[handle] \in Seq(Unit)
    BY <1>1 DEF FilesTypeOK
  <2>2. disk[handle] \o s \in Seq(Unit)
    BY <2>1, ConcatType
  <2>3. QED
    BY <1>1, <2>1, <2>2 DEF FilesTypeOK, Stored
<1>2. CASE handle \notin Name
  BY <1>2 DEF FilesTypeOK, Stored
<1>3. QED
  BY <1>1, <1>2

LEMMA Prefix ==
    ASSUME NEW s \in Seq(Unit), NEW n \in 0 .. Len(s)
    PROVE  SubSeq(s, 1, n) \in Seq(Unit) /\ Len(SubSeq(s, 1, n)) = n
BY Cut

(* How much a failing flash writes is never more than it is given. *)
LEMMA ClosedType ==
    ASSUME FilesTypeOK, TransferTypeOK, Close
    PROVE  /\ disk' \in [Name -> Seq(Unit) \cup {NULL}]
           /\ handle' = NULL /\ stream' = <<>>
           /\ \E n \in 0 .. Len(stream) : disk' = Stored(handle, SubSeq(stream, 1, n))
<1>1. Len(stream) \in Nat
  BY LenProperties DEF FilesTypeOK
<1>2. PICK n \in 0 .. Len(stream) : disk' = Stored(handle, SubSeq(stream, 1, n))
  <2>1. CASE FlashMayFail
    BY <2>1 DEF Close
  <2>2. CASE ~FlashMayFail
    BY <1>1, <2>2 DEF Close
  <2>3. QED
    BY <2>1, <2>2
<1>3. SubSeq(stream, 1, n) \in Seq(Unit)
  BY Prefix DEF FilesTypeOK
<1>4. QED
  BY <1>2, <1>3, StoredType DEF Close

(* flushBuffer empties the buffer behind what the file and the stream hold, *)
(* or repeats it, or loses the file.                                        *)
LEMMA FlushKeeps ==
    ASSUME TransferInv, pc \in {"flush", "last"}, flushBuffer
    PROVE  /\ FilesTypeOK'
           /\ disturbed' \in BOOLEAN
           /\ Len(stream') < BUFFER_SIZE
           /\ stream' # <<>> => pc = "last" /\ isOpen'
           /\ isOpen' =>
                 /\ buffer' = <<>>
                 /\ currentFileName' = currentFileName
                 /\ currentFileSizeFull' = currentFileSizeFull
                 /\ currentFileSize' = currentFileSize + Len(buffer)
           /\ isOpen' /\ ~disturbed' =>
                 /\ ~disturbed
                 /\ handle' \in Name
                 /\ disk'[handle'] \o stream' = disk[handle] \o buffer
                 /\ Len(disk'[handle']) + Len(stream') = Len(disk[handle]) + Len(buffer)
<1>1. /\ isOpen /\ handle # NULL /\ stream = <<>> /\ currentFileName \in Name
      /\ FilesTypeOK /\ TransferTypeOK
      /\ buffer \in Seq(Unit) /\ Len(buffer) \in 0 .. BUFFER_SIZE
      /\ BUFFER_SIZE \in Nat \ {0}
      /\ NULL \notin Name /\ GONE # NULL /\ NULL \notin Seq(Unit)
      /\ pc = "flush" => Len(buffer) = BUFFER_SIZE
      /\ ~disturbed => handle \in Name
      /\ currentFileSize \in Nat /\ currentFileSizeFull \in Nat
  BY FileAssumption, NullAssumption, LenProperties
     DEF TransferInv, Stations, FilesTypeOK, NothingLostOnTheWay, isOpen
<1>2. <<>> \in Seq(Unit) /\ Len(<<>>) = 0
  BY EmptySeq
<1>3. ASSUME handle \in Name
      PROVE  /\ disk[handle] \in Seq(Unit) /\ disk[handle] \o buffer \in Seq(Unit)
             /\ Len(disk[handle] \o buffer) = Len(disk[handle]) + Len(buffer)
             /\ disk[handle] \o <<>> = disk[handle]
             /\ (disk[handle] \o buffer) \o <<>> = disk[handle] \o buffer
             /\ Len(disk[handle]) \in Nat
  <2>1. disk[handle] \in Seq(Unit)
    BY <1>1, <1>3 DEF FilesTypeOK
  <2>2. disk[handle] \o buffer \in Seq(Unit)
    BY <1>1, <2>1, ConcatType
  <2>3. QED
    BY <1>1, <2>1, <2>2, ConcatType, ConcatEmptySeq, LenProperties
<1>4. CASE buffer = <<>> /\ UNCHANGED <<fileVars, disturbed>>
  <2>1. /\ disk' = disk /\ handle' = handle /\ stream' = stream
        /\ currentFileName' = currentFileName /\ currentFileSize' = currentFileSize
        /\ currentFileSizeFull' = currentFileSizeFull
        /\ buffer' = buffer /\ disturbed' = disturbed
    BY <1>4 DEF fileVars, openVars, sizeVars
  <2>2. FilesTypeOK'
    BY <1>1, <2>1 DEF FilesTypeOK
  <2>3. QED
    BY <1>1, <1>2, <1>3, <1>4, <2>1, <2>2 DEF isOpen, TransferTypeOK
<1>5. CASE buffer # <<>> /\ WriteReportsAll /\ CountsBuffer /\ UNCHANGED <<handle, disturbed>>
  <2>1. /\ handle' = handle /\ disturbed' = disturbed /\ buffer' = <<>>
        /\ currentFileName' = currentFileName
        /\ currentFileSize' = currentFileSize + Len(buffer)
        /\ currentFileSizeFull' = currentFileSizeFull
    BY <1>5 DEF CountsBuffer
  <2>2. CASE handle \in Name /\ disk' = Stored(handle, buffer) /\ UNCHANGED stream
    <3>1. /\ disk' \in [Name -> Seq(Unit) \cup {NULL}]
          /\ disk'[handle] = disk[handle] \o buffer
      BY <1>1, <2>2, StoredType
    <3>2. disk'[handle] \in Seq(Unit) /\ disk'[handle] # NULL
      BY <1>1, <1>3, <2>2, <3>1
    <3>3. FilesTypeOK'
      BY <1>1, <1>2, <2>1, <2>2, <3>1, <3>2 DEF FilesTypeOK
    <3>4. QED
      BY <1>1, <1>2, <1>3, <2>1, <2>2, <3>1, <3>3 DEF isOpen, TransferTypeOK
  <2>3. CASE Len(buffer) < BUFFER_SIZE /\ stream' = stream \o buffer /\ disk' = disk
    <3>1. stream' = buffer
      BY <1>1, <2>3, ConcatEmptySeq
    <3>2. FilesTypeOK'
      BY <1>1, <1>2, <2>1, <2>3, <3>1 DEF FilesTypeOK
    <3>3. pc = "last"
      BY <1>1, <2>3
    <3>4. QED
      BY <1>1, <1>2, <1>3, <2>1, <2>3, <3>1, <3>2, <3>3 DEF isOpen, TransferTypeOK
  <2>4. QED
    BY <1>5, <2>2, <2>3 DEF WriteReportsAll
<1>6. ASSUME buffer # <<>>, stream' = <<>>, disturbed' = TRUE,
             NEW short \in 0 .. Len(buffer) - 1,
             LET after == Stored(handle, SubSeq(buffer, 1, short))
                 old == IF after[currentFileName] = NULL
                        THEN <<>> ELSE after[currentFileName]
             IN \/ /\ \E n \in StoredOfReported :
                         disk' = [after EXCEPT ![currentFileName] =
                                    old \o SubSeq(buffer, 1, n)]
                   /\ handle' = currentFileName
                   /\ CountsBuffer
                \/ /\ FlashMayFail
                   /\ \/ disk' = after
                      \/ \E again \in 0 .. Len(buffer) - 1 :
                            disk' = [after EXCEPT ![currentFileName] =
                                       old \o SubSeq(buffer, 1, again)]
                   /\ handle' = NULL
                   /\ UNCHANGED <<sizeVars, buffer>>
      PROVE  /\ FilesTypeOK' /\ disturbed' \in BOOLEAN
             /\ isOpen' =>
                   /\ buffer' = <<>>
                   /\ currentFileName' = currentFileName
                   /\ currentFileSizeFull' = currentFileSizeFull
                   /\ currentFileSize' = currentFileSize + Len(buffer)
  <2> DEFINE after == Stored(handle, SubSeq(buffer, 1, short))
             old == IF after[currentFileName] = NULL
                    THEN <<>> ELSE after[currentFileName]
  <2>1. after \in [Name -> Seq(Unit) \cup {NULL}]
    <3>1. short \in 0 .. Len(buffer)
      BY <1>1
    <3>2. SubSeq(buffer, 1, short) \in Seq(Unit)
      BY <1>1, <3>1, Prefix
    <3>3. QED
      BY <1>1, <3>2, StoredType
  <2>2. old \in Seq(Unit)
    BY <1>1, <1>2, <2>1
  <2> HIDE DEF after, old
  <2>3. ASSUME NEW n \in 0 .. Len(buffer)
        PROVE  /\ [after EXCEPT ![currentFileName] = old \o SubSeq(buffer, 1, n)]
                    \in [Name -> Seq(Unit) \cup {NULL}]
               /\ [after EXCEPT ![currentFileName] = old \o SubSeq(buffer, 1, n)]
                    [currentFileName] \in Seq(Unit)
    <3>1. SubSeq(buffer, 1, n) \in Seq(Unit)
      BY <1>1, Prefix
    <3>2. old \o SubSeq(buffer, 1, n) \in Seq(Unit)
      BY <2>2, <3>1, ConcatType
    <3>3. QED
      BY <1>1, <2>1, <3>2
  <2>4. CASE /\ \E n \in StoredOfReported :
                   disk' = [after EXCEPT ![currentFileName] = old \o SubSeq(buffer, 1, n)]
             /\ handle' = currentFileName
             /\ CountsBuffer
    <3>1. PICK n \in StoredOfReported :
             disk' = [after EXCEPT ![currentFileName] = old \o SubSeq(buffer, 1, n)]
      BY <2>4
    <3>2. n \in 0 .. Len(buffer)
      <4>1. CASE FlashMayFail /\ Len(buffer) < BUFFER_SIZE
        BY <4>1 DEF StoredOfReported
      <4>2. CASE ~(FlashMayFail /\ Len(buffer) < BUFFER_SIZE)
        <5>1. n = Len(buffer)
          BY <4>2 DEF StoredOfReported
        <5>2. QED
          BY <1>1, <5>1
      <4>3. QED
        BY <4>1, <4>2
    <3>3. /\ disk' \in [Name -> Seq(Unit) \cup {NULL}]
          /\ disk'[currentFileName] \in Seq(Unit)
      BY <2>3, <3>1, <3>2
    <3>4. /\ handle' \in Name /\ disk'[handle'] # NULL
          /\ stream' = <<>> /\ buffer' = <<>> /\ disturbed' = TRUE
          /\ currentFileName' = currentFileName
          /\ currentFileSizeFull' = currentFileSizeFull
          /\ currentFileSize' = currentFileSize + Len(buffer)
      BY <1>1, <1>6, <2>4, <3>3 DEF CountsBuffer
    <3>5. currentFileSize' \in Nat /\ Len(buffer') = 0 /\ 0 <= BUFFER_SIZE
      BY <1>1, <1>2, <3>4
    <3>6. FilesTypeOK'
      BY <1>1, <1>2, <3>3, <3>4, <3>5 DEF FilesTypeOK
    <3>7. QED
      BY <3>4, <3>6
  <2>5. CASE /\ \/ disk' = after
                \/ \E again \in 0 .. Len(buffer) - 1 :
                      disk' = [after EXCEPT ![currentFileName] =
                                 old \o SubSeq(buffer, 1, again)]
             /\ handle' = NULL
             /\ UNCHANGED <<sizeVars, buffer>>
    <3>1. disk' \in [Name -> Seq(Unit) \cup {NULL}]
      <4>1. ASSUME NEW again \in 0 .. Len(buffer) - 1
            PROVE  again \in 0 .. Len(buffer)
        BY <1>1
      <4>2. QED
        BY <2>1, <2>3, <2>5, <4>1
    <3>2. QED
      BY <1>1, <1>2, <1>6, <2>5, <3>1 DEF FilesTypeOK, sizeVars, isOpen
  <2>6. QED
    BY <1>6, <2>4, <2>5 DEF after, old
<1>7. QED
  <2>1. CASE /\ buffer # <<>>
             /\ stream' = <<>> /\ disturbed' = TRUE
             /\ \E short \in 0 .. Len(buffer) - 1 :
                  LET after == Stored(handle, SubSeq(buffer, 1, short))
                      old == IF after[currentFileName] = NULL
                             THEN <<>> ELSE after[currentFileName]
                  IN \/ /\ \E n \in StoredOfReported :
                              disk' = [after EXCEPT ![currentFileName] =
                                         old \o SubSeq(buffer, 1, n)]
                        /\ handle' = currentFileName
                        /\ CountsBuffer
                     \/ /\ FlashMayFail
                        /\ \/ disk' = after
                           \/ \E again \in 0 .. Len(buffer) - 1 :
                                 disk' = [after EXCEPT ![currentFileName] =
                                            old \o SubSeq(buffer, 1, again)]
                        /\ handle' = NULL
                        /\ UNCHANGED <<sizeVars, buffer>>
    <3>1. /\ FilesTypeOK' /\ disturbed' \in BOOLEAN
          /\ isOpen' =>
                /\ buffer' = <<>>
                /\ currentFileName' = currentFileName
                /\ currentFileSizeFull' = currentFileSizeFull
                /\ currentFileSize' = currentFileSize + Len(buffer)
      BY <1>6, <2>1
    <3>2. QED
      BY <1>1, <1>2, <2>1, <3>1
  <2>2. QED
    BY <1>4, <1>5, <2>1 DEF flushBuffer

(* A transfer whose file is closed promises nothing more. *)
LEMMA ClosedInv ==
    ASSUME FilesTypeOK', TransferTypeOK', handle' = NULL, stream' = <<>>,
           data' = <<>>, pc' \in {"idle", "trap", "restart"}
    PROVE  TransferInv'
<1>1. Len(stream') < BUFFER_SIZE
  BY EmptySeq, FileAssumption
<1>2. QED
  BY <1>1 DEF TransferInv, Stations, NothingLostOnTheWay, OpenFileHasTotal, isOpen

LEMMA CloseKeeps ==
    ASSUME TransferInv, CloseOpenFile
    PROVE  FilesTypeOK' /\ handle' = NULL /\ stream' = <<>>
<1>1. FilesTypeOK /\ TransferTypeOK
  BY DEF TransferInv
<1>2. /\ disk' \in [Name -> Seq(Unit) \cup {NULL}]
      /\ handle' = NULL /\ stream' = <<>> /\ buffer' = buffer
  BY <1>1, ClosedType DEF CloseOpenFile
<1>3. /\ currentFileName' \in Name \cup {NULL}
      /\ currentFileSize' \in Nat /\ currentFileSizeFull' \in Nat
  BY <1>1 DEF FilesTypeOK, CloseOpenFile, sizeVars
<1>4. <<>> \in Seq(Unit) /\ NULL \notin Name
  BY EmptySeq, FileAssumption
<1>5. QED
  BY <1>1, <1>2, <1>3, <1>4 DEF FilesTypeOK

LEMMA AnswerType ==
    ASSUME TransferTypeOK, NEW code \in ErrorCode, Answer(code)
    PROVE  data' = <<>> /\ pc' \in {"idle", "trap"} /\ response' \in ErrorCode
BY DEF Answer, TransferTypeOK

(* What ble_task does leaves the phone its variables. *)
LEMMA PhoneKept ==
    ASSUME PhoneTypeOK, UNCHANGED phoneVars, UNCHANGED blankota,
           \/ UNCHANGED msgota
           \/ msgota # <<>> /\ msgota' = Tail(msgota)
    PROVE  PhoneTypeOK'
<1>1. msgota' \in Seq(Seq(Unit))
  BY HeadTailProperties DEF PhoneTypeOK
<1>2. QED
  BY <1>1 DEF PhoneTypeOK, phoneVars

-----------------------------------------------------------------------------
(* writeFile *)

LEMMA FlushKeepsInv ==
    ASSUME TransferInv, FlushFull \/ FlushLast
    PROVE  TransferInv'
<1>1. /\ FilesTypeOK /\ TransferTypeOK /\ isOpen /\ stream = <<>>
      /\ pc \in {"flush", "last"} /\ flushBuffer
      /\ pc = "last" => data = <<>>
  BY DEF TransferInv, FlushFull, FlushLast, Stations
<1>2. /\ FilesTypeOK'
      /\ disturbed' \in BOOLEAN
      /\ Len(stream') < BUFFER_SIZE
      /\ stream' # <<>> => pc = "last" /\ isOpen'
      /\ isOpen' =>
            /\ buffer' = <<>>
            /\ currentFileName' = currentFileName
            /\ currentFileSizeFull' = currentFileSizeFull
            /\ currentFileSize' = currentFileSize + Len(buffer)
      /\ isOpen' /\ ~disturbed' =>
            /\ ~disturbed
            /\ handle' \in Name
            /\ disk'[handle'] \o stream' = disk[handle] \o buffer
            /\ Len(disk'[handle']) + Len(stream') = Len(disk[handle]) + Len(buffer)
  BY <1>1, FlushKeeps
<1>3. statusName' = statusName /\ totalSize' = totalSize /\ received' = received
  BY DEF FlushFull, FlushLast, fileStatus
<1>4. CASE isOpen'
  <2>1. /\ data' = data /\ response' = response
        /\ pc' = IF pc = "flush" THEN "copy" ELSE "close"
    BY <1>1, <1>4 DEF FlushFull, FlushLast
  <2>2. TransferTypeOK'
    BY <1>1, <1>2, <1>3, <2>1 DEF TransferTypeOK
  <2>3. buffer \in Seq(Unit) /\ Len(buffer) \in Nat /\ currentFileSize \in Nat
        /\ Len(<<>>) = 0
    BY <1>1, LenProperties, EmptySeq DEF FilesTypeOK
  <2>4. Stations'
    <3>1. pc = "last" => currentFileSize' = currentFileSizeFull'
      BY <1>2, <1>4 DEF TransferInv, Stations
    <3>2. currentFileName' \in Name
      BY <1>1, <1>2, <1>4 DEF TransferInv, Stations
    <3>3. QED
      BY <1>1, <1>2, <1>4, <2>1, <3>1, <3>2 DEF Stations
  <2>5. OpenFileHasTotal'
    BY <1>1, <1>2, <1>3 DEF TransferInv, OpenFileHasTotal
  <2>6. Len(received') = currentFileSize' + Len(buffer') + Len(data')
    <3>1. /\ Len(received) = currentFileSize + Len(buffer) + Len(data)
          /\ Len(data) \in Nat
      BY <1>1, LenProperties DEF TransferInv, NothingLostOnTheWay, TransferTypeOK
    <3>2. QED
      BY <1>2, <1>3, <1>4, <2>1, <2>3, <3>1
  <2>7. ASSUME ~disturbed'
        PROVE  /\ handle' \in Name
               /\ received' = disk'[handle'] \o stream' \o buffer' \o data'
               /\ currentFileSize' = Len(disk'[handle']) + Len(stream')
    <3>1. /\ ~disturbed /\ handle \in Name
          /\ received = disk[handle] \o <<>> \o buffer \o data
          /\ currentFileSize = Len(disk[handle]) + 0
      BY <1>1, <1>2, <1>4, <2>7, EmptySeq DEF TransferInv, NothingLostOnTheWay
    <3>2. disk[handle] \in Seq(Unit)
      BY <1>1, <3>1 DEF FilesTypeOK
    <3>3. disk[handle] \o buffer \in Seq(Unit) /\ Len(disk[handle]) \in Nat
      BY <2>3, <3>2, ConcatType, LenProperties
    <3>4. /\ disk[handle] \o <<>> = disk[handle]
          /\ (disk[handle] \o buffer) \o <<>> = disk[handle] \o buffer
      BY <3>2, <3>3, ConcatEmptySeq
    <3>5. received' = disk'[handle'] \o stream' \o buffer' \o data'
      BY <1>2, <1>3, <1>4, <2>1, <2>7, <3>1, <3>4
    <3>6. currentFileSize' = Len(disk'[handle']) + Len(stream')
      BY <1>2, <1>4, <2>7, <3>1, <3>3
    <3>7. QED
      BY <1>2, <1>4, <2>7, <3>5, <3>6
  <2>8. QED
    BY <1>2, <2>2, <2>4, <2>5, <2>6, <2>7 DEF TransferInv, NothingLostOnTheWay
<1>5. CASE ~isOpen'
  <2>1. Answer("FILE_WRITE_FAILED")
    BY <1>5 DEF FlushFull, FlushLast
  <2>2. data' = <<>> /\ pc' \in {"idle", "trap"} /\ response' \in ErrorCode
    BY <1>1, <2>1, AnswerType DEF ErrorCode
  <2>3. TransferTypeOK'
    BY <1>1, <1>2, <1>3, <2>2, EmptySeq DEF TransferTypeOK
  <2>4. handle' = NULL /\ stream' = <<>>
    BY <1>2, <1>5 DEF isOpen
  <2>5. QED
    BY <1>2, <2>2, <2>3, <2>4, ClosedInv
<1>6. QED
  BY <1>4, <1>5

LEMMA ComparesSizeKeeps ==
    ASSUME TransferInv, ComparesSize
    PROVE  TransferInv'
<1>1. /\ FilesTypeOK /\ TransferTypeOK /\ isOpen /\ stream = <<>>
      /\ pc = "copy" /\ data = <<>>
  BY DEF TransferInv, ComparesSize, Stations
<1>2. statusName' = statusName /\ totalSize' = totalSize /\ received' = received /\ disturbed' = disturbed
  BY DEF ComparesSize, ghostVars, fileStatus
<1>3. CASE CloseOpenFile /\ Answer("FILE_SIZE_MISMATCH")
  <2>1. FilesTypeOK' /\ handle' = NULL /\ stream' = <<>>
    BY <1>3, CloseKeeps
  <2>2. data' = <<>> /\ pc' \in {"idle", "trap"} /\ response' \in ErrorCode
    BY <1>1, <1>3, AnswerType DEF ErrorCode
  <2>3. TransferTypeOK'
    BY <1>1, <1>2, <2>2, EmptySeq DEF TransferTypeOK
  <2>4. QED
    BY <2>1, <2>2, <2>3, ClosedInv
<1>4. ASSUME UNCHANGED fileVars, data' = <<>>, response' \in ErrorCode,
             \/ pc' \in {"idle", "trap"}
             \/ pc' = "last" /\ currentFileSize + Len(buffer) = currentFileSizeFull
      PROVE  TransferInv'
  <2>1. /\ disk' = disk /\ handle' = handle /\ stream' = stream /\ buffer' = buffer
        /\ currentFileName' = currentFileName /\ currentFileSize' = currentFileSize
        /\ currentFileSizeFull' = currentFileSizeFull
    BY <1>4 DEF fileVars, openVars, sizeVars
  <2>2. FilesTypeOK' /\ TransferTypeOK'
    BY <1>1, <1>2, <1>4, <2>1 DEF FilesTypeOK, TransferTypeOK
  <2>3. Stations'
    BY <1>1, <1>4, <2>1 DEF TransferInv, Stations, isOpen
  <2>4. NothingLostOnTheWay' /\ OpenFileHasTotal'
    BY <1>1, <1>2, <1>4, <2>1
       DEF TransferInv, NothingLostOnTheWay, OpenFileHasTotal, isOpen
  <2>5. QED
    BY <2>2, <2>3, <2>4 DEF TransferInv
<1>5. CASE Answer("FILE_OK") /\ UNCHANGED fileVars
  <2>1. data' = <<>> /\ pc' \in {"idle", "trap"} /\ response' \in ErrorCode
    BY <1>1, <1>5, AnswerType DEF ErrorCode
  <2>2. QED
    BY <1>4, <1>5, <2>1
<1>6. CASE /\ currentFileSize + Len(buffer) = currentFileSizeFull
           /\ pc' = "last" /\ UNCHANGED <<fileVars, data, response>>
  <2>1. UNCHANGED fileVars /\ data' = <<>> /\ response' \in ErrorCode
    BY <1>1, <1>6 DEF TransferTypeOK
  <2>2. QED
    BY <1>4, <1>6, <2>1
<1>7. QED
  BY <1>3, <1>5, <1>6 DEF ComparesSize

LEMMA CompletesFileKeeps ==
    ASSUME TransferInv, CompletesFile
    PROVE  TransferInv'
<1>1. TransferTypeOK /\ statusName' = statusName /\ totalSize' = totalSize /\ received' = received
      /\ disturbed' = disturbed
  BY DEF TransferInv, CompletesFile, ghostVars, fileStatus
<1>2. FilesTypeOK' /\ handle' = NULL /\ stream' = <<>>
  BY CloseKeeps DEF CompletesFile
<1>3. data' = <<>> /\ pc' \in {"idle", "trap"} /\ response' \in ErrorCode
  BY <1>1, AnswerType DEF ErrorCode, CompletesFile
<1>4. TransferTypeOK'
  BY <1>1, <1>3, EmptySeq DEF TransferTypeOK
<1>5. QED
  BY <1>2, <1>3, <1>4, ClosedInv

LEMMA TakesDataKeeps ==
    ASSUME PhoneTypeOK, TransferInv, TakesData
    PROVE  TransferInv'
<1>1. /\ FilesTypeOK /\ TransferTypeOK /\ Stations
      /\ data = <<>> /\ stream = <<>> /\ pc = "idle"
  BY DEF TransferInv, TakesData, Stations
<1>2. /\ disk' = disk /\ handle' = handle /\ stream' = stream /\ buffer' = buffer
      /\ currentFileName' = currentFileName /\ currentFileSize' = currentFileSize
      /\ currentFileSizeFull' = currentFileSizeFull
      /\ statusName' = statusName /\ totalSize' = totalSize /\ disturbed' = disturbed
  BY DEF TakesData, fileVars, openVars, sizeVars, fileStatus
<1>3. FilesTypeOK'
  BY <1>1, <1>2 DEF FilesTypeOK
<1>4. CASE isOpen
  <2> DEFINE new == Tail(Head(msgota))
  <2>1. new \in Seq(Unit)
    <3>1. Head(msgota) \in Seq(Unit)
      BY HeadTailProperties DEF PhoneTypeOK, TakesData
    <3>2. QED
      BY <3>1, HeadTailProperties DEF TakesData
  <2> HIDE DEF new
  <2>2. pc' = "copy" /\ data' = new /\ received' = received \o new /\ response' = response
    BY <1>4 DEF TakesData, new
  <2>3. received \in Seq(Unit) /\ received' \in Seq(Unit)
        /\ Len(received') = Len(received) + Len(new)
    BY <1>1, <2>1, <2>2, ConcatType DEF TransferTypeOK
  <2>4. TransferTypeOK'
    BY <1>1, <1>2, <2>1, <2>2, <2>3 DEF TransferTypeOK
  <2>5. Stations'
    BY <1>1, <1>2, <1>4, <2>2 DEF Stations, isOpen
  <2>6. OpenFileHasTotal'
    BY <1>2 DEF TransferInv, OpenFileHasTotal, isOpen
  <2>7. Len(received') = currentFileSize' + Len(buffer') + Len(data')
    <3>1. Len(received) = currentFileSize + Len(buffer) + Len(data) /\ Len(data) = 0
      BY <1>1, <1>4, EmptySeq DEF TransferInv, NothingLostOnTheWay
    <3>2. Len(buffer) \in Nat /\ Len(new) \in Nat /\ currentFileSize \in Nat
      BY <1>1, <2>1, LenProperties DEF FilesTypeOK
    <3>3. QED
      BY <1>2, <2>2, <2>3, <3>1, <3>2
  <2>8. ASSUME ~disturbed'
        PROVE  /\ handle' \in Name
               /\ received' = disk'[handle'] \o stream' \o buffer' \o data'
               /\ currentFileSize' = Len(disk'[handle']) + Len(stream')
    <3>1. /\ handle \in Name
          /\ received = Way(disk[handle], <<>>, buffer, <<>>)
          /\ currentFileSize = Len(disk[handle]) + Len(stream)
      BY <1>1, <1>2, <1>4, <2>8 DEF TransferInv, NothingLostOnTheWay, Way
    <3>2. disk[handle] \in Seq(Unit) /\ buffer \in Seq(Unit)
      BY <1>1, <3>1 DEF FilesTypeOK
    <3>3. Way(disk[handle], <<>>, buffer, <<>>) \o new
            = Way(disk[handle], <<>>, buffer, new)
      BY <2>1, <3>2, WayAppend
    <3>4. QED
      BY <1>1, <1>2, <2>2, <3>1, <3>3 DEF Way
  <2>9. QED
    BY <1>3, <2>4, <2>5, <2>6, <2>7, <2>8 DEF TransferInv, NothingLostOnTheWay
<1>5. CASE ~isOpen
  <2>1. data' = <<>> /\ pc' \in {"idle", "trap"} /\ response' \in ErrorCode
    BY <1>1, <1>5, AnswerType DEF TakesData, ErrorCode
  <2>2. received' = received
    BY <1>5 DEF TakesData
  <2>3. TransferTypeOK'
    BY <1>1, <1>2, <2>1, <2>2, EmptySeq DEF TransferTypeOK
  <2>4. QED
    BY <1>1, <1>2, <1>3, <1>5, <2>1, <2>3, ClosedInv DEF isOpen
<1>6. QED
  BY <1>4, <1>5

LEMMA CopyBytesKeeps ==
    ASSUME TransferInv, CopyBytes
    PROVE  TransferInv'
<1> DEFINE fits == BUFFER_SIZE - Len(buffer)
           n == IF Len(data) < fits THEN Len(data) ELSE fits
           part == SubSeq(data, 1, n)
           rest == SubSeq(data, n + 1, Len(data))
<1>1. /\ FilesTypeOK /\ TransferTypeOK /\ isOpen /\ stream = <<>>
      /\ pc = "copy" /\ data # <<>>
  BY DEF TransferInv, CopyBytes, Stations
<1>2. /\ disk' = disk /\ handle' = handle /\ stream' = stream
      /\ currentFileName' = currentFileName /\ currentFileSize' = currentFileSize
      /\ currentFileSizeFull' = currentFileSizeFull
      /\ statusName' = statusName /\ totalSize' = totalSize /\ disturbed' = disturbed
      /\ response' = response /\ received' = received
  BY DEF CopyBytes, openVars, sizeVars, ghostVars, fileStatus
<1>3. /\ buffer' = buffer \o part /\ data' = rest
      /\ pc' = IF n = fits THEN "flush" ELSE "copy"
  BY DEF CopyBytes
<1>4. /\ buffer \in Seq(Unit) /\ data \in Seq(Unit)
      /\ Len(buffer) \in Nat /\ Len(buffer) <= BUFFER_SIZE /\ Len(data) \in Nat
      /\ BUFFER_SIZE \in Nat
  BY <1>1, LenProperties, FileAssumption DEF FilesTypeOK, TransferTypeOK
<1>5. n \in 0 .. Len(data) /\ n \in 0 .. fits
  BY <1>4
<1> HIDE DEF n
<1>6. /\ part \in Seq(Unit) /\ Len(part) = n
      /\ rest \in Seq(Unit) /\ Len(rest) = Len(data) - n
  BY <1>4, <1>5, Cut
<1>7. buffer \o part \in Seq(Unit) /\ Len(buffer \o part) = Len(buffer) + n
  BY <1>4, <1>6, ConcatType
<1> HIDE DEF part, rest
<1>8. FilesTypeOK'
  <2>1. Len(buffer') <= BUFFER_SIZE
    BY <1>3, <1>4, <1>5, <1>7
  <2>2. QED
    BY <1>1, <1>2, <1>3, <1>7, <2>1 DEF FilesTypeOK
<1>9. TransferTypeOK'
  BY <1>1, <1>2, <1>3, <1>6 DEF TransferTypeOK
<1>10. Stations'
  <2>1. pc' = "flush" => Len(buffer') = BUFFER_SIZE
    BY <1>3, <1>4, <1>5, <1>7
  <2>2. QED
    BY <1>1, <1>2, <1>3, <2>1 DEF TransferInv, Stations, isOpen
<1>11. NothingLostOnTheWay'
  <2>1. Len(received') = currentFileSize' + Len(buffer') + Len(data')
    <3>1. Len(received) = currentFileSize + Len(buffer) + Len(data)
      BY <1>1 DEF TransferInv, NothingLostOnTheWay
    <3>2. currentFileSize \in Nat
      BY <1>1 DEF FilesTypeOK
    <3>3. QED
      BY <1>2, <1>3, <1>4, <1>5, <1>6, <1>7, <3>1, <3>2
  <2>2. ASSUME ~disturbed'
        PROVE  /\ handle' \in Name
               /\ received' = disk'[handle'] \o stream' \o buffer' \o data'
               /\ currentFileSize' = Len(disk'[handle']) + Len(stream')
    <3>1. /\ handle \in Name
          /\ received = Way(disk[handle], <<>>, buffer, data)
          /\ currentFileSize = Len(disk[handle]) + Len(stream)
      BY <1>1, <1>2, <2>2 DEF TransferInv, NothingLostOnTheWay, Way
    <3>2. disk[handle] \in Seq(Unit)
      <4>1. disk[handle] \in Seq(Unit) \cup {NULL} /\ disk[handle] # NULL
        BY <1>1, <3>1 DEF FilesTypeOK
      <4>2. QED
        BY <4>1
    <3>3. Way(disk[handle], <<>>, buffer, data)
             = Way(disk[handle], <<>>, buffer \o part, rest)
      BY <1>4, <1>5, <3>2, WayOn DEF part, rest
    <3>4. QED
      BY <1>1, <1>2, <1>3, <3>1, <3>3 DEF Way
  <2>3. QED
    BY <2>1, <2>2 DEF NothingLostOnTheWay
<1>12. OpenFileHasTotal'
  BY <1>2 DEF TransferInv, OpenFileHasTotal, isOpen
<1>13. QED
  BY <1>8, <1>9, <1>10, <1>11, <1>12 DEF TransferInv

-----------------------------------------------------------------------------
(* The requests. *)

LEMMA Idle ==
    ASSUME TransferInv, TakesDoc
    PROVE  /\ pc = "idle" /\ data = <<>> /\ data' = <<>> /\ stream = <<>>
           /\ FilesTypeOK /\ TransferTypeOK /\ Stations
           /\ NULL \notin Name /\ GONE \notin Name /\ NULL # GONE
           /\ NULL \notin Seq(Unit) /\ <<>> \in Seq(Unit) /\ Len(<<>>) = 0
           /\ 0 < BUFFER_SIZE /\ BUFFER_SIZE \in Nat
BY EmptySeq, FileAssumption, NullAssumption DEF TransferInv, Stations, TakesDoc

(* What may happen to the files under an open one: it keeps its content, or *)
(* its removal is remembered.                                               *)
LEMMA FilesChange ==
    ASSUME TransferInv, TakesDoc,
           pc' \in {"idle", "restart"}, response' \in ErrorCode,
           UNCHANGED <<stream, sizeVars, buffer, fileStatus>>, received' = received,
           disturbed' \in BOOLEAN,
           disk' \in [Name -> Seq(Unit) \cup {NULL}],
           handle' \in Name \cup {NULL, GONE},
           handle' = NULL <=> handle = NULL,
           handle' \in Name => disk'[handle'] # NULL,
           ~disturbed' /\ handle \in Name =>
             ~disturbed /\ handle' \in Name /\ disk'[handle'] = disk[handle],
           ~disturbed' => ~disturbed
    PROVE  TransferInv'
<1>1. /\ currentFileName' = currentFileName /\ currentFileSize' = currentFileSize
      /\ currentFileSizeFull' = currentFileSizeFull
      /\ stream' = stream /\ buffer' = buffer /\ statusName' = statusName /\ totalSize' = totalSize
  BY DEF sizeVars, fileStatus
<1>2. FilesTypeOK' /\ TransferTypeOK'
  BY <1>1, Idle DEF FilesTypeOK, TransferTypeOK
<1>3. Stations'
  BY <1>1, Idle DEF Stations, isOpen
<1>4. NothingLostOnTheWay' /\ OpenFileHasTotal'
  BY <1>1, Idle DEF TransferInv, NothingLostOnTheWay, OpenFileHasTotal, isOpen
<1>5. QED
  BY <1>2, <1>3, <1>4 DEF TransferInv

LEMMA NothingChanges ==
    ASSUME TransferInv, TakesDoc, response' \in ErrorCode,
           UNCHANGED <<fileVars, fileStatus, pc, ghostVars>>
    PROVE  TransferInv'
<1>1. /\ disk' = disk /\ handle' = handle
      /\ UNCHANGED <<stream, sizeVars, buffer, fileStatus>> /\ pc' = pc
      /\ received' = received /\ disturbed' = disturbed
  BY DEF fileVars, openVars, ghostVars
<1>2. QED
  BY <1>1, Idle, FilesChange DEF FilesTypeOK, TransferTypeOK

LEMMA RemovalKeeps ==
    ASSUME TransferInv, TakesDoc,
           pc' \in {"idle", "restart"}, response' \in ErrorCode,
           UNCHANGED <<sizeVars, buffer, fileStatus>>,
           \/ UNCHANGED <<disk, openVars, ghostVars>>
           \/ \E Names \in SUBSET Name : RemoveAll(Names)
    PROVE  TransferInv'
<1>1. CASE UNCHANGED <<disk, openVars, ghostVars>>
  <2>1. /\ disk' = disk /\ handle' = handle
        /\ UNCHANGED <<stream, sizeVars, buffer, fileStatus>>
        /\ received' = received /\ disturbed' = disturbed
    BY <1>1 DEF openVars, ghostVars
  <2>2. QED
    BY <2>1, Idle, FilesChange DEF FilesTypeOK, TransferTypeOK
<1>2. ASSUME NEW Names \in SUBSET Name, RemoveAll(Names)
      PROVE  TransferInv'
  <2>1. /\ disk' = [n \in Name |-> IF n \in Names THEN NULL ELSE disk[n]]
        /\ handle' = IF handle \in Names THEN GONE ELSE handle
        /\ disturbed' = (disturbed \/ handle \in Names)
        /\ UNCHANGED <<stream, sizeVars, buffer, fileStatus>>
        /\ received' = received
    BY <1>2 DEF RemoveAll
  <2>2. disk' \in [Name -> Seq(Unit) \cup {NULL}]
    BY <2>1, Idle DEF FilesTypeOK
  <2>3. disturbed' \in BOOLEAN /\ (~disturbed' => ~disturbed /\ handle \notin Names)
    BY <2>1, Idle, Zenon DEF TransferTypeOK
  <2>4. /\ handle' \in Name \cup {NULL, GONE}
        /\ handle' = NULL <=> handle = NULL
        /\ handle' \in Name => disk'[handle'] # NULL
    BY <2>1, Idle DEF FilesTypeOK
  <2>5. handle \in Name /\ handle \notin Names
          => handle' \in Name /\ disk'[handle'] = disk[handle]
    BY <2>1
  <2>6. QED
    BY <2>1, <2>2, <2>3, <2>4, <2>5, FilesChange
<1>3. QED
  BY <1>1, <1>2

LEMMA RenameKeeps ==
    ASSUME TransferInv, TakesDoc, NEW old \in Name, NEW new \in Name,
           renameFile(old, new),
           UNCHANGED <<stream, sizeVars, buffer, fileStatus, pc, ghostVars>>
    PROVE  TransferInv'
<1>1. /\ UNCHANGED <<stream, sizeVars, buffer, fileStatus>> /\ pc' = pc
      /\ received' = received /\ disturbed' = disturbed
  BY DEF ghostVars
<1>2. response' \in ErrorCode
  BY DEF renameFile, ErrorCode
<1>3. CASE UNCHANGED <<disk, handle>>
  BY <1>1, <1>2, <1>3, Idle, FilesChange DEF FilesTypeOK, TransferTypeOK
<1>4. CASE /\ disk[old] # NULL /\ disk[new] = NULL
           /\ disk' = [disk EXCEPT ![old] = NULL, ![new] = disk[old]]
           /\ handle' = IF handle = old THEN new ELSE handle
  <2>1. old # new
    BY <1>4
  <2>2. disk[old] \in Seq(Unit) \cup {NULL}
    BY Idle DEF FilesTypeOK
  <2>3. disk' \in [Name -> Seq(Unit) \cup {NULL}]
    BY <1>4, <2>2, Idle DEF FilesTypeOK
  <2>4. /\ disk'[new] = disk[old]
        /\ \A n \in Name \ {old, new} : disk'[n] = disk[n]
    BY <1>4, <2>1, Idle DEF FilesTypeOK
  <2>5. /\ handle' \in Name \cup {NULL, GONE}
        /\ handle' = NULL <=> handle = NULL
    BY <1>4, Idle DEF FilesTypeOK
  <2>6. handle \in Name => handle' \in Name /\ disk'[handle'] = disk[handle]
    BY <1>4, <2>4, Idle DEF FilesTypeOK
  <2>7. handle' \in Name => disk'[handle'] # NULL
    BY <1>4, <2>4, <2>6, Idle DEF FilesTypeOK
  <2>8. QED
    BY <1>1, <1>2, <2>3, <2>5, <2>6, <2>7, Idle, FilesChange DEF TransferTypeOK
<1>5. QED
  BY <1>3, <1>4 DEF renameFile

LEMMA CreateKeeps ==
    ASSUME TransferInv, TakesDoc, NEW name \in Name \cup {LONG}, NEW size \in Nat,
           createFile(name, size), statusName' = name, totalSize' = size, pc' = pc
    PROVE  TransferInv'
<1>0. CASE name = LONG /\ response' = "FILE_OPEN_FAILED" /\ UNCHANGED <<fileVars, ghostVars>>
  <2>1. /\ disk' = disk /\ handle' = handle /\ stream' = stream /\ buffer' = buffer
        /\ currentFileName' = currentFileName /\ currentFileSize' = currentFileSize
        /\ currentFileSizeFull' = currentFileSizeFull
        /\ received' = received /\ disturbed' = disturbed
    BY <1>0 DEF fileVars, openVars, sizeVars, ghostVars
  <2>2. FilesTypeOK' /\ TransferTypeOK'
    BY <1>0, <2>1, Idle DEF FilesTypeOK, TransferTypeOK, ErrorCode
  <2>3. Stations' /\ NothingLostOnTheWay'
    BY <2>1, Idle DEF TransferInv, Stations, NothingLostOnTheWay, isOpen
  <2>4. LONG \notin Name
    BY FileAssumption
  <2>5. OpenFileHasTotal'
    BY <1>0, <2>1, <2>4, Idle DEF Stations, OpenFileHasTotal, isOpen
  <2>6. QED
    BY <2>2, <2>3, <2>5 DEF TransferInv
<1>1. CASE /\ name # LONG
           /\ disk' = [disk EXCEPT ![name] = <<>>]
           /\ handle' = name /\ stream' = <<>>
           /\ currentFileName' = name
           /\ currentFileSize' = 0 /\ currentFileSizeFull' = size
           /\ buffer' = <<>>
           /\ response' = "FILE_OK"
           /\ received' = <<>> /\ disturbed' = FALSE
  <2>1. disk' \in [Name -> Seq(Unit) \cup {NULL}] /\ disk'[name] = <<>>
    BY <1>1, Idle DEF FilesTypeOK
  <2>2. FilesTypeOK'
    <3>0. \A s \in Seq(Unit) : s # NULL
      BY Idle
    <3>1. /\ <<>> \in Seq(Unit) /\ Len(<<>>) <= BUFFER_SIZE /\ <<>> # NULL
      <4>1. <<>> \in Seq(Unit) /\ Len(<<>>) = 0
        BY Idle
      <4>2. 0 <= BUFFER_SIZE
        BY Idle
      <4>3. QED
        BY <3>0, <4>1, <4>2
    <3>2. handle' \in Name /\ disk'[handle'] # NULL
      BY <1>1, <2>1, <3>1
    <3>3. QED
      BY <1>1, <2>1, <3>1, <3>2 DEF FilesTypeOK
  <2>3. TransferTypeOK'
    BY <1>1, Idle DEF TransferTypeOK, ErrorCode
  <2>4. Stations'
    BY <1>1, Idle DEF Stations
  <2>5. <<>> \o <<>> = <<>>
    BY Idle, ConcatEmptySeq
  <2>6. NothingLostOnTheWay' /\ OpenFileHasTotal'
    BY <1>1, <2>1, <2>5, Idle DEF NothingLostOnTheWay, OpenFileHasTotal
  <2>7. QED
    BY <2>2, <2>3, <2>4, <2>6 DEF TransferInv
<1>2. CASE /\ disk' \in {disk, [disk EXCEPT ![name] = NULL]}
           /\ handle' = NULL /\ stream' = <<>>
           /\ response' = "FILE_OPEN_FAILED"
           /\ UNCHANGED <<sizeVars, buffer, ghostVars>>
  <2>1. disk' \in [Name -> Seq(Unit) \cup {NULL}]
    BY <1>2, Idle DEF FilesTypeOK
  <2>2. FilesTypeOK'
    BY <1>2, <2>1, Idle DEF FilesTypeOK, sizeVars
  <2>3. TransferTypeOK'
    BY <1>2, Idle DEF TransferTypeOK, ErrorCode, ghostVars
  <2>4. QED
    BY <1>2, <2>2, <2>3, Idle, ClosedInv
<1>3. QED
  BY <1>0, <1>1, <1>2 DEF createFile

LEMMA CloseRequestKeeps ==
    ASSUME TransferInv, TakesDoc, closeFile, statusName' = NULL, totalSize' = 0,
           UNCHANGED <<pc, ghostVars>>
    PROVE  TransferInv'
<1>1. /\ response' \in ErrorCode /\ handle' = NULL /\ stream' = <<>>
      /\ FilesTypeOK'
  <2>1. CASE ~isOpen /\ response' = "FILE_CLOSE_FAILED" /\ UNCHANGED fileVars
    BY <2>1, Idle DEF isOpen, fileVars, openVars, sizeVars, FilesTypeOK, ErrorCode
  <2>2. CASE CloseOpenFile /\ response' \in {"FILE_OK", "FILE_SIZE_MISMATCH"}
    BY <2>2, CloseKeeps DEF ErrorCode
  <2>3. QED
    BY <2>1, <2>2 DEF closeFile
<1>2. TransferTypeOK'
  BY <1>1, Idle DEF TransferTypeOK, ghostVars
<1>3. QED
  BY <1>1, <1>2, Idle, ClosedInv

LEMMA TakesDocKeeps ==
    ASSUME TransferInv, TakesDoc
    PROVE  TransferInv'
<1>1. ASSUME NEW r \in Request, HandlesRequest(r)
      PROVE  TransferInv'
  <2>1. r \in AnyRequest
    BY FileAssumption
  <2>2. CASE r.type = "fileopen"
    <3>1. r.name \in Name \cup {LONG} /\ r.size \in Nat
      BY <2>1, <2>2 DEF AnyRequest
    <3>2. createFile(r.name, r.size) /\ statusName' = r.name /\ totalSize' = r.size /\ pc' = pc
      BY <1>1, <2>2 DEF HandlesRequest
    <3>3. QED
      BY <3>1, <3>2, CreateKeeps
  <2>3. CASE r.type = "fileclose"
    <3>1. closeFile /\ statusName' = NULL /\ totalSize' = 0 /\ UNCHANGED <<pc, ghostVars>>
      BY <1>1, <2>3 DEF HandlesRequest
    <3>2. QED
      BY <3>1, CloseRequestKeeps
  <2>4. CASE r.type = "filedelete"
    <3>1. r.name \in Name
      BY <2>1, <2>4 DEF AnyRequest
    <3>2. deleteFile(r.name) /\ UNCHANGED <<sizeVars, buffer, fileStatus, pc>>
      BY <1>1, <2>4 DEF HandlesRequest
    <3>3. \/ UNCHANGED <<disk, openVars, ghostVars>>
          \/ RemoveAll({r.name})
      BY <3>2 DEF deleteFile
    <3>4. response' \in ErrorCode
      BY <3>2 DEF deleteFile, ErrorCode
    <3>5. QED
      BY <3>1, <3>2, <3>3, <3>4, RemovalKeeps, Idle
  <2>5. CASE r.type = "filerename"
    <3>1. r.name \in Name /\ r.new \in Name
      BY <2>1, <2>5 DEF AnyRequest
    <3>2. /\ renameFile(r.name, r.new)
          /\ UNCHANGED <<stream, sizeVars, buffer, fileStatus, pc, ghostVars>>
      BY <1>1, <2>5 DEF HandlesRequest
    <3>3. QED
      BY <3>1, <3>2, RenameKeeps
  <2>6. CASE r.type = "formatspiffs"
    <3>1. formatSPIFFS /\ UNCHANGED <<sizeVars, buffer, fileStatus, pc>>
      BY <1>1, <2>6 DEF HandlesRequest
    <3>2. \/ UNCHANGED <<disk, openVars, ghostVars>>
          \/ RemoveAll(Name)
      BY <3>1 DEF formatSPIFFS
    <3>3. response' \in ErrorCode
      BY <3>1 DEF formatSPIFFS, ErrorCode
    <3>4. QED
      BY <3>1, <3>2, <3>3, RemovalKeeps, Idle
  <2>7. CASE r.type = "otaupdate"
    <3>1. r.name \in Name
      BY <2>1, <2>7 DEF AnyRequest
    <3>2. updateFromFS(r.name) /\ UNCHANGED <<sizeVars, buffer, fileStatus>>
      BY <1>1, <2>7 DEF HandlesRequest
    <3>3. \/ UNCHANGED <<disk, openVars, ghostVars>>
          \/ RemoveAll({r.name})
      BY <3>2 DEF updateFromFS
    <3>4. response' \in ErrorCode /\ pc' \in {"idle", "restart"}
      BY <3>2, Idle DEF updateFromFS, ErrorCode
    <3>5. QED
      BY <3>1, <3>2, <3>3, <3>4, RemovalKeeps
  <2>8. CASE r.type = "filelist"
    <3>1. /\ response' \in ErrorCode
          /\ UNCHANGED <<fileVars, fileStatus, pc, ghostVars>>
      BY <1>1, <2>8 DEF HandlesRequest, ErrorCode
    <3>2. QED
      BY <3>1, NothingChanges
  <2>9. QED
    BY <1>1, <2>2, <2>3, <2>4, <2>5, <2>6, <2>7, <2>8 DEF HandlesRequest
<1>2. CASE response' = "JSON_ERROR" /\ UNCHANGED <<fileVars, fileStatus, pc, ghostVars>>
  BY <1>2, NothingChanges DEF ErrorCode
<1>3. QED
  BY <1>1, <1>2 DEF TakesDoc

-----------------------------------------------------------------------------
(* The phone. *)

LEMMA TransferKept ==
    ASSUME TransferInv, UNCHANGED taskVars
    PROVE  TransferInv'
<1>1. /\ disk' = disk /\ handle' = handle /\ stream' = stream
      /\ currentFileName' = currentFileName /\ currentFileSize' = currentFileSize
      /\ currentFileSizeFull' = currentFileSizeFull /\ buffer' = buffer
      /\ statusName' = statusName /\ totalSize' = totalSize /\ pc' = pc /\ data' = data
      /\ response' = response /\ received' = received /\ disturbed' = disturbed
  BY DEF taskVars, fileVars, openVars, sizeVars, ghostVars, fileStatus
<1>2. FilesTypeOK' /\ TransferTypeOK'
  BY <1>1 DEF TransferInv, FilesTypeOK, TransferTypeOK
<1>3. Stations' /\ NothingLostOnTheWay' /\ OpenFileHasTotal'
  BY <1>1 DEF TransferInv, Stations, NothingLostOnTheWay, OpenFileHasTotal, isOpen
<1>4. QED
  BY <1>2, <1>3 DEF TransferInv

(* A frame is made of units and ends with the end mark. *)
LEMMA BeginFrameKeeps ==
    ASSUME PhoneTypeOK, NEW frame \in Seq(Unit), NEW n \in Nat, BeginFrame(frame, n)
    PROVE  PhoneTypeOK'
<1>1. frame \in Seq(Unit \cup {EndOfFrame}) /\ Len(frame) \in Nat
      /\ \A i \in 1 .. Len(frame) : frame[i] \in Unit
  BY LenProperties, ElementOfSeq
<1>2. /\ wire' = Append(frame, EndOfFrame)
      /\ wire' \in Seq(Unit \cup {EndOfFrame}) /\ Len(wire') = Len(frame) + 1
      /\ \A i \in 1 .. Len(frame) : wire'[i] = frame[i]
  BY <1>1, AppendProperties DEF BeginFrame
<1>3. frames' \in 0 .. MaxFrames /\ bytes' \in 0 .. MaxBytes
  BY FileAssumption DEF BeginFrame, PhoneTypeOK
<1>4. QED
  BY <1>1, <1>2, <1>3 DEF PhoneTypeOK, BeginFrame, frameVars

LEMMA DocType ==
    ASSUME NEW r \in Request
    PROVE  Doc(r) \in Seq(Unit)
<1>1. <<"doc", r, 1>> \in Unit /\ <<"doc", r, 2>> \in Unit
  BY DEF Unit
<1>2. QED
  BY <1>1 DEF Doc

LEMMA DataType ==
    ASSUME PhoneTypeOK, NEW n \in Nat, bytes + n <= MaxBytes
    PROVE  <<DataHeader>> \o NewBytes(n) \in Seq(Unit)
<1>1. DataHeader \in Unit
  BY DEF Unit
<1>2. <<DataHeader>> \in Seq(Unit)
  BY <1>1
<1>3. \A k \in 1 .. n : bytes + k \in 1 .. MaxBytes
  BY FileAssumption DEF PhoneTypeOK
<1>4. \A k \in 1 .. n : Byte(bytes + k) \in Unit
  BY <1>3 DEF Unit
<1>5. NewBytes(n) \in Seq(Unit)
  BY <1>4, IsASeq DEF NewBytes
<1>6. QED
  BY <1>2, <1>5, ConcatType

LEMMA ReceiveKeeps ==
    ASSUME PhoneTypeOK, NEW k \in 1 .. Len(wire), receiveOTA(k)
    PROVE  PhoneTypeOK'
<1>1. /\ wire \in Seq(Unit \cup {EndOfFrame}) /\ Len(wire) \in Nat
      /\ blankota \in Seq(Unit) /\ msgota \in Seq(Seq(Unit))
      /\ \A i \in 1 .. Len(wire) : wire[i] \in Unit \cup {EndOfFrame}
      /\ \A i \in 1 .. Len(wire) - 1 : wire[i] \in Unit
  BY LenProperties, ElementOfSeq DEF PhoneTypeOK
<1>2. ASSUME NEW j \in 0 .. Len(wire), \A i \in 1 .. j : wire[i] \in Unit
      PROVE  SubSeq(wire, 1, j) \in Seq(Unit)
  <2>1. /\ Len(SubSeq(wire, 1, j)) = j
        /\ \A i \in 1 .. j : SubSeq(wire, 1, j)[i] = wire[i]
        /\ SubSeq(wire, 1, j) \in Seq(Unit \cup {EndOfFrame})
    BY <1>1, SubSeqProperties
  <2>2. QED
    BY <1>2, <2>1, SeqDef
<1>3. /\ SubSeq(wire, k + 1, Len(wire)) \in Seq(Unit \cup {EndOfFrame})
      /\ Len(SubSeq(wire, k + 1, Len(wire))) = Len(wire) - k
      /\ \A i \in 1 .. Len(wire) - k :
            SubSeq(wire, k + 1, Len(wire))[i] = wire[k + i]
  BY <1>1, SubSeqProperties
<1>4. /\ wire' \in Seq(Unit \cup {EndOfFrame})
      /\ \A i \in 1 .. Len(wire') - 1 : wire'[i] \in Unit
  <2>1. wire' = SubSeq(wire, k + 1, Len(wire))
    BY DEF receiveOTA
  <2>2. \A i \in 1 .. Len(wire) - k - 1 : k + i \in 1 .. Len(wire) - 1
    BY <1>1
  <2>3. QED
    BY <1>1, <1>3, <2>1, <2>2
<1>5. SubSeq(wire, 1, k)[k] = wire[k] /\ 1 <= k - 1 + 1 /\ k - 1 \in 0 .. Len(wire)
  BY <1>1, SubSeqProperties
<1>6. CASE \E i \in 1 .. k : SubSeq(wire, 1, k)[i] = EndOfFrame
  <2>1. SubSeq(SubSeq(wire, 1, k), 1, k - 1) = SubSeq(wire, 1, k - 1)
    BY <1>1, <1>5, SubSeqOfSubSeq
  <2>2. SubSeq(wire, 1, k - 1) \in Seq(Unit)
    BY <1>1, <1>2, <1>5
  <2>3. blankota \o SubSeq(SubSeq(wire, 1, k), 1, k - 1) \in Seq(Unit)
    BY <1>1, <2>1, <2>2, ConcatType
  <2>4. msgota' \in Seq(Seq(Unit)) /\ blankota' = <<>>
    <3>1. /\ msgota' = Append(msgota, blankota \o SubSeq(SubSeq(wire, 1, k), 1, k - 1))
          /\ blankota' = <<>>
      BY <1>5, <1>6 DEF receiveOTA
    <3>2. QED
      BY <1>1, <2>3, <3>1, AppendProperties
  <2>5. QED
    BY <1>4, <2>4, EmptySeq DEF PhoneTypeOK, receiveOTA
<1>7. CASE ~\E i \in 1 .. k : SubSeq(wire, 1, k)[i] = EndOfFrame
  <2>1. \A i \in 1 .. k : wire[i] \in Unit
    BY <1>1, <1>7
  <2>2. SubSeq(wire, 1, k) \in Seq(Unit)
    BY <1>1, <1>2, <2>1
  <2>3. blankota \o SubSeq(wire, 1, k) \in Seq(Unit)
    BY <1>1, <2>2, ConcatType
  <2>4. msgota' = msgota /\ blankota' \in Seq(Unit)
    BY <1>5, <1>7, <2>3 DEF receiveOTA
  <2>5. QED
    BY <1>1, <1>4, <2>4 DEF PhoneTypeOK, receiveOTA
<1>8. QED
  BY <1>6, <1>7

-----------------------------------------------------------------------------
(* The invariant. *)

FileInv == PhoneTypeOK /\ TransferInv

LEMMA FileInvInit == FileInit => FileInv
<1> SUFFICES ASSUME FileInit PROVE FileInv
  OBVIOUS
<1>1. /\ <<>> \in Seq(Unit) /\ <<>> \in Seq(Unit \cup {EndOfFrame})
      /\ <<>> \in Seq(Seq(Unit)) /\ Len(<<>>) = 0
  BY EmptySeq
<1>2. FilesTypeOK
  BY <1>1, FileAssumption DEF FileInit, FilesTypeOK
<1>3. TransferTypeOK
  BY <1>1 DEF FileInit, TransferTypeOK, ErrorCode
<1>4. Stations /\ NothingLostOnTheWay /\ OpenFileHasTotal
  BY <1>1, FileAssumption
     DEF FileInit, Stations, NothingLostOnTheWay, OpenFileHasTotal, isOpen
<1>5. PhoneTypeOK
  BY <1>1, FileAssumption DEF FileInit, PhoneTypeOK
<1>6. QED
  BY <1>2, <1>3, <1>4, <1>5 DEF FileInv, TransferInv

LEMMA FileInvNext == FileInv /\ [FileNext]_bleFileVars => FileInv'
<1> SUFFICES ASSUME FileInv, [FileNext]_bleFileVars PROVE FileInv'
  OBVIOUS
<1>1. PhoneTypeOK /\ TransferInv
  BY DEF FileInv
<1>2. ASSUME NEW r \in Request, BeginFrame(Doc(r), 0) PROVE FileInv'
  BY <1>1, <1>2, DocType, BeginFrameKeeps, TransferKept DEF FileInv, BeginFrame
<1>3. ASSUME NEW n \in Length, BeginFrame(<<DataHeader>> \o NewBytes(n), n)
      PROVE  FileInv'
  <2>1. n \in Nat /\ bytes + n <= MaxBytes
    BY <1>3, FileAssumption DEF BeginFrame
  <2>2. <<DataHeader>> \o NewBytes(n) \in Seq(Unit)
    BY <1>1, <2>1, DataType
  <2>3. PhoneTypeOK'
    BY <1>1, <1>3, <2>1, <2>2, BeginFrameKeeps
  <2>4. QED
    BY <1>1, <1>3, <2>3, TransferKept DEF FileInv, BeginFrame
<1>4. ASSUME NEW k \in 1 .. Len(wire), receiveOTA(k) PROVE FileInv'
  BY <1>1, <1>4, ReceiveKeeps, TransferKept DEF FileInv, receiveOTA
<1>5. CASE Disconnect
  <2>1. PhoneTypeOK'
    BY <1>1, <1>5, EmptySeq DEF Disconnect, PhoneTypeOK, frameVars
  <2>2. QED
    BY <1>1, <1>5, <2>1, TransferKept DEF FileInv, Disconnect
<1>6. CASE TakesDoc
  BY <1>1, <1>6, TakesDocKeeps, PhoneKept DEF FileInv, TakesDoc
<1>7. CASE TakesData
  BY <1>1, <1>7, TakesDataKeeps, PhoneKept DEF FileInv, TakesData
<1>8. CASE CopyBytes
  BY <1>1, <1>8, CopyBytesKeeps, PhoneKept DEF FileInv, CopyBytes, frameVars
<1>9. CASE FlushFull \/ FlushLast
  BY <1>1, <1>9, FlushKeepsInv, PhoneKept DEF FileInv, FlushFull, FlushLast, frameVars
<1>10. CASE ComparesSize
  BY <1>1, <1>10, ComparesSizeKeeps, PhoneKept DEF FileInv, ComparesSize, frameVars
<1>11. CASE CompletesFile
  BY <1>1, <1>11, CompletesFileKeeps, PhoneKept DEF FileInv, CompletesFile, frameVars
<1>12. CASE Reset
  <2>1. FilesTypeOK'
    BY <1>1, <1>12, EmptySeq, FileAssumption DEF TransferInv, FilesTypeOK, Reset
  <2>2. TransferTypeOK'
    BY <1>12, EmptySeq DEF TransferTypeOK, Reset, ErrorCode
  <2>3. TransferInv'
    BY <1>12, <2>1, <2>2, ClosedInv DEF Reset
  <2>4. PhoneTypeOK'
    BY <1>1, <1>12, EmptySeq DEF PhoneTypeOK, Reset
  <2>5. QED
    BY <2>3, <2>4 DEF FileInv
<1>13. CASE UNCHANGED bleFileVars
  BY <1>1, <1>13, TransferKept, PhoneKept
     DEF FileInv, bleFileVars, frameVars
<1>14. QED
  BY <1>2, <1>3, <1>4, <1>5, <1>6, <1>7, <1>8, <1>9, <1>10, <1>11, <1>12, <1>13
     DEF FileNext, Phone, BleTask

(* FileInv holds in every state that can be reached. *)
THEOREM FileInvariant == FileSpec => []FileInv
BY FileInvInit, FileInvNext, PTL DEF FileSpec

(* The variables of ble_controller.cpp and spiffsfile.h have their types,    *)
(* for any files, requests, buffer and flash.                                *)
THEOREM FilesTyped == FileSpec => []FileTypeOK
<1>1. FileInv => FileTypeOK
  BY DEF FileInv, PhoneTypeOK, TransferInv, FilesTypeOK, TransferTypeOK, FileTypeOK
<1>2. QED
  BY <1>1, FileInvariant, PTL

(* Between the frames and the flash writeFile loses, doubles and reorders    *)
(* nothing, also when other requests remove, rename or format under it.      *)
THEOREM NothingLost == FileSpec => []NothingLostOnTheWay
<1>1. FileInv => NothingLostOnTheWay
  BY DEF FileInv, TransferInv
<1>2. QED
  BY <1>1, FileInvariant, PTL

(* While a file is open the progress is divided by that file's size. *)
THEOREM OpenTotal == FileSpec => []OpenFileHasTotal
<1>1. FileInv => OpenFileHasTotal
  BY DEF FileInv, TransferInv
<1>2. QED
  BY <1>1, FileInvariant, PTL

Stores ==
    /\ Len(received) = currentFileSizeFull
    /\ ~disturbed =>
          /\ disk'[handle] = SubSeq(received, 1, Len(disk'[handle]))
          /\ Len(received) - Len(disk'[handle]) < BUFFER_SIZE

(* Before the last close the file and the stream hold what was received. *)
LEMMA AtClose ==
    ASSUME FileInv, pc = "close"
    PROVE  /\ FilesTypeOK /\ stream \in Seq(Unit)
           /\ Len(stream) \in 0 .. BUFFER_SIZE - 1
           /\ Len(received) = currentFileSizeFull
           /\ ~disturbed => /\ handle \in Name /\ disk[handle] \in Seq(Unit)
                            /\ received = disk[handle] \o stream
<1>1. /\ FilesTypeOK /\ TransferTypeOK /\ isOpen /\ stream \in Seq(Unit)
      /\ buffer = <<>> /\ data = <<>> /\ currentFileSize = currentFileSizeFull
      /\ Len(<<>>) = 0 /\ currentFileSize \in Nat
  BY EmptySeq DEF FileInv, TransferInv, FilesTypeOK, Stations
<1>2. Len(stream) \in 0 .. BUFFER_SIZE - 1
  BY <1>1, LenProperties, FileAssumption DEF FileInv, TransferInv, Stations
<1>3. Len(received) = currentFileSizeFull
  BY <1>1 DEF FileInv, TransferInv, NothingLostOnTheWay, OpenFileHasTotal
<1>4. ASSUME ~disturbed
      PROVE  /\ handle \in Name /\ disk[handle] \in Seq(Unit)
             /\ received = disk[handle] \o stream
  <2>1. handle \in Name /\ received = ((disk[handle] \o stream) \o <<>>) \o <<>>
    BY <1>1, <1>4 DEF FileInv, TransferInv, NothingLostOnTheWay
  <2>2. disk[handle] \in Seq(Unit)
    BY <1>1, <2>1 DEF FilesTypeOK
  <2>3. disk[handle] \o stream \in Seq(Unit)
    BY <1>1, <2>2, ConcatType
  <2>4. QED
    BY <2>1, <2>2, <2>3, ConcatEmptySeq
<1>5. QED
  BY <1>1, <1>2, <1>3, <1>4

LEMMA CompletesStores ==
    ASSUME FileInv, pc = "close",
           \/ disk' = disk
           \/ \E n \in 0 .. Len(stream) : disk' = Stored(handle, SubSeq(stream, 1, n))
    PROVE  Stores
<1>1. CASE disturbed
  BY <1>1, AtClose DEF Stores
<1>2. ASSUME ~disturbed, NEW part \in Seq(Unit), NEW rest \in Seq(Unit),
             part \o rest = stream, disk'[handle] = disk[handle] \o part
      PROVE  Stores
  <2>1. /\ Len(received) = currentFileSizeFull /\ disk[handle] \in Seq(Unit)
        /\ received = disk[handle] \o stream /\ Len(stream) \in 0 .. BUFFER_SIZE - 1
    BY <1>2, AtClose
  <2> DEFINE file == disk[handle] \o part
  <2>2. file \in Seq(Unit) /\ Len(file) \in Nat
    BY <1>2, <2>1, ConcatType, LenProperties
  <2>3. received = file \o rest
    <3>1. PICK stored \in Seq(Unit) : stored = disk[handle]
      BY <2>1
    <3>2. (stored \o part) \o rest = stored \o (part \o rest)
      OBVIOUS
    <3>3. QED
      BY <1>2, <2>1, <3>1, <3>2, Zenon
  <2> HIDE DEF file
  <2>4. /\ Len(received) = Len(file) + Len(rest)
        /\ SubSeq(received, 1, Len(file)) = file
    <3>1. CASE Len(file) = 0
      <4>1. SubSeq(received, 1, 0) = <<>> /\ file = <<>>
        BY <2>2, <3>1, EmptySeq
      <4>2. QED
        BY <1>2, <2>2, <2>3, <3>1, <4>1, ConcatType
    <3>2. CASE Len(file) # 0
      <4>1. 1 \in 1 .. Len(file) /\ Len(file) \in 1 .. Len(file)
        BY <2>2, <3>2
      <4>2. SubSeq(file \o rest, 1, Len(file)) = SubSeq(file, 1, Len(file))
        BY <1>2, <2>2, <4>1, SubSeqOfConcat1
      <4>3. QED
        BY <1>2, <2>2, <2>3, <4>2, ConcatType, SubSeqFull
    <3>3. QED
      BY <3>1, <3>2
  <2>5. /\ Len(stream) = Len(part) + Len(rest)
        /\ Len(part) \in Nat /\ Len(rest) \in Nat
    BY <1>2, ConcatType, LenProperties
  <2>6. Len(received) - Len(file) < BUFFER_SIZE
    BY <2>1, <2>2, <2>4, <2>5, FileAssumption
  <2>7. QED
    BY <1>2, <2>1, <2>4, <2>6 DEF Stores, file
<1>3. CASE ~disturbed /\ disk' = disk
  <2>1. /\ disk[handle] \in Seq(Unit) /\ stream \in Seq(Unit)
        /\ <<>> \in Seq(Unit) /\ <<>> \o stream = stream
        /\ disk[handle] \o <<>> = disk[handle]
    BY <1>3, AtClose, EmptySeq, ConcatEmptySeq
  <2>2. QED
    BY <1>2, <1>3, <2>1
<1>4. ASSUME ~disturbed, NEW n \in 0 .. Len(stream),
             disk' = Stored(handle, SubSeq(stream, 1, n))
      PROVE  Stores
  <2>1. /\ SubSeq(stream, 1, n) \in Seq(Unit)
        /\ SubSeq(stream, n + 1, Len(stream)) \in Seq(Unit)
        /\ SubSeq(stream, 1, n) \o SubSeq(stream, n + 1, Len(stream)) = stream
    BY AtClose, Cut
  <2>2. disk'[handle] = disk[handle] \o SubSeq(stream, 1, n)
    BY <1>4, <2>1, AtClose, StoredType
  <2>3. QED
    BY <1>2, <1>4, <2>1, <2>2
<1>5. QED
  BY <1>1, <1>3, <1>4

(* FILE_WRITE_COMPLETE is answered when the file has the announced size and  *)
(* all its bytes but less than one buffer are on the flash.                  *)
THEOREM Complete == FileSpec => CompleteMeansStored
<1>1. ASSUME FileInv, [FileNext]_bleFileVars, pc = "close"
      PROVE  Stores
  <2>1. CASE disk' = disk
    BY <1>1, <2>1, CompletesStores
  <2>2. CASE CompletesFile
    <3>1. FilesTypeOK /\ TransferTypeOK /\ Close
      BY <1>1, <2>2 DEF FileInv, TransferInv, CompletesFile, CloseOpenFile
    <3>2. QED
      BY <1>1, <3>1, ClosedType, CompletesStores
  <2>3. disk' = disk \/ CompletesFile
    BY <1>1 DEF FileNext, Phone, BleTask, BeginFrame, receiveOTA, Disconnect, taskVars,
                fileVars, TakesDoc, TakesData, CopyBytes, FlushFull, ComparesSize,
                FlushLast, Reset, bleFileVars
  <2>4. QED
    BY <2>1, <2>2, <2>3
<1>2. FileInv /\ [FileNext]_bleFileVars
        => [pc = "close" /\ response' = "FILE_WRITE_COMPLETE" => Stores]_bleFileVars
  BY <1>1
<1>3. QED
  BY <1>2, FileInvariant, PTL DEF FileSpec, CompleteMeansStored, Stores
=============================================================================
