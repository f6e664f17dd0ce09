----------------------------- MODULE FskvProofs -----------------------------
(***************************************************************************)
(* Fskv implements KeyValue: for any keys and values, with a flash that     *)
(* fails or does not, a call of the key-value store takes effect once or    *)
(* not at all, but for a clear that is cut short, which may bring back what *)
(* the directory held before.  An iteration lists what its comment promises.*)
(***************************************************************************)
EXTENDS Fskv, TLAPS, FiniteSetTheorems

(* What the value that luat_fskv_set writes was made from: a table that was *)
(* read, or not, is still what get would find.                              *)
Old == {Visible[op.key]} \cup (IF MayFail THEN {None} ELSE {})

DataOfCall ==
    pc \in {"open", "write", "close"} =>
        IF op \in SetCall THEN data = op.value
        ELSE \E old \in Old : data = KV!WithField(old, op.field, op.value)

(* Only a failed format unmounts the file system, and a file is only open   *)
(* while it is mounted.                                                     *)
Mounted ==
    /\ fs = "lost" => MayFail
    /\ pc \in {"write", "close"} => fs = "mounted"

FskvInv == FskvTypeOK /\ DataOfCall /\ Mounted

-----------------------------------------------------------------------------
(* What the files show. *)

LEMMA VisibleType == ASSUME FskvTypeOK PROVE Visible \in [Key -> Value \cup {None}]
  BY DEF Visible, Shown, FskvTypeOK

(* What luat_fskv_get reads is what the files show, or nothing. *)
LEMMA ReadsVisible ==
    ASSUME FskvTypeOK, Mounted, fs # "off", NEW k \in Key, NEW v \in Reads(k)
    PROVE  v \in {Visible[k]} \cup (IF MayFail THEN {None} ELSE {})
  BY DEF Reads, Visible, Shown, FskvTypeOK, Mounted, Content

LEMMA FieldType ==
    ASSUME NEW old, NEW f \in Field, NEW x \in Scalar \cup {None}
    PROVE  KV!WithField(old, f, x) \in Table
  BY DEF KV!WithField, KV!Table, KV!NoFields, Table

(* A file that changes shows its new content, and the others what they did. *)
LEMMA VisibleChange ==
    ASSUME FskvTypeOK, NEW k \in Key, NEW c \in Content,
           disk' = [disk EXCEPT ![k] = c]
    PROVE  Visible' = [Visible EXCEPT ![k] = IF c \in Value \ {Empty} THEN c ELSE None]
  BY DEF Visible, Shown, FskvTypeOK

LEMMA NothingVisible ==
    ASSUME disk' = NoFiles
    PROVE  Visible' = [k \in Key |-> None]
  BY ValueAssumption DEF Visible, Shown, NoFiles

LEMMA SameVisible == ASSUME UNCHANGED disk PROVE Visible' = Visible
  BY DEF Visible, Shown

LEMMA SameOlder == ASSUME UNCHANGED spare PROVE Shown(spare)' = Shown(spare)
  BY DEF Shown

(* What the other block shows is what the store was. *)
LEMMA SpareAges ==
    ASSUME UNCHANGED spare \/ Commits \/ FormatStops \/ FormatDone
    PROVE  KV!Ages
  BY DEF Commits, FormatStops, FormatDone, KV!Ages, Visible, Shown

(* What comes back when block 0 is erased is what KeyValue allows. *)
LEMMA FallenShows ==
    ASSUME FskvTypeOK, disk' \in Fallen
    PROVE  Visible' \in KV!Restored
  <1>1. disk' \in [Key -> Content]
    BY DEF Fallen
  <1>2. Visible' = [k \in Key |-> IF disk'[k] \in Value \ {Empty} THEN disk'[k] ELSE None]
    BY DEF Visible, Shown
  <1>3. Visible' \in [Key -> Value \cup {None}]
    BY <1>2
  <1>4. ASSUME NEW k \in Key
        PROVE  Visible'[k] \in {Visible[k], Shown(spare)[k]}
                 \cup (IF Shown(spare)[k] \in Long THEN Value \cup {None} ELSE {})
    <2>1. /\ Visible'[k] = IF disk'[k] \in Value \ {Empty} THEN disk'[k] ELSE None
          /\ Visible[k] = IF disk[k] \in Value \ {Empty} THEN disk[k] ELSE None
          /\ Shown(spare)[k] = IF spare[k] \in Value \ {Empty} THEN spare[k] ELSE None
      BY <1>2 DEF Visible, Shown
    <2>2. CASE disk'[k] \in {disk[k], spare[k]}
      BY <2>1, <2>2
    <2>3. CASE spare[k] \in Long
      <3>1. Shown(spare)[k] \in Long
        BY <2>1, <2>3, ValueAssumption
      <3> QED BY <1>3, <3>1
    <2> QED BY <2>2, <2>3 DEF Fallen
  <1> QED BY <1>3, <1>4, Zenon DEF KV!Restored, KV!Value, KV!Table, Value, Table

(* Making the entry of a new file shows nothing. *)
LEMMA EntryShowsNothing ==
    ASSUME FskvTypeOK, NEW k \in Key, disk[k] = NoFile,
           disk' = [disk EXCEPT ![k] = Blank]
    PROVE  Visible' = Visible
  <1>1. Blank \notin Value /\ NoFile \notin Value
    BY ValueAssumption
  <1>2. Visible' = [Visible EXCEPT ![k] = None]
    BY <1>1, VisibleChange DEF Content
  <1>3. Visible[k] = None
    BY <1>1 DEF Visible, Shown
  <1> QED BY <1>2, <1>3, VisibleType

-----------------------------------------------------------------------------
(* The type invariant. *)

LEMMA IteratorType == ASSUME FskvTypeOK, IteratorSees PROVE iter' \in Iterator \cup {None}
  BY DEF FskvTypeOK, IteratorSees, Iterator

LEMMA InitType == FskvInit => FskvTypeOK
  BY DEF FskvInit, FskvTypeOK, Content, NoFiles

LEMMA ScriptType == ASSUME FskvInv, Script PROVE FskvTypeOK'
  <1>1. CASE \E k \in Key, v \in Value : fskv_set(k, v)
    BY <1>1 DEF FskvInv, fskv_set, Begins, Ready, FskvTypeOK, SetCall
  <1>2. CASE \E k \in Key, f \in Field, x \in Scalar \cup {None} : fskv_sett(k, f, x)
    <2>1. PICK k \in Key, f \in Field, x \in Scalar \cup {None} : fskv_sett(k, f, x)
      BY <1>2
    <2>2. data' \in Table
      BY <2>1, FieldType DEF fskv_sett, NoFields, KV!WithField, KV!Table, KV!NoFields, Table
    <2>3. data' \in Value
      BY <2>2 DEF Value
    <2> QED BY <2>1, <2>3 DEF FskvInv, fskv_sett, Begins, Ready, FskvTypeOK, SettCall
  <1>3. CASE \E k \in Key : fskv_del(k)
    BY <1>3 DEF FskvInv, fskv_del, Begins, Ready, FskvTypeOK, DelCall
  <1>4. CASE Refused
    BY <1>4 DEF FskvInv, Refused, Ready, FskvTypeOK
  <1>5. CASE \E k \in Key, f \in Field \cup {None} : fskv_get(k, f)
    <2>1. PICK k \in Key, f \in Field \cup {None} : fskv_get(k, f)
      BY <1>5
    <2>2. PICK v \in Reads(k) : got' = IF v \in Table /\ f \in Field THEN v[f] ELSE v
      BY <2>1 DEF fskv_get
    <2>3. v \in Value \cup {None}
      BY <2>1, <2>2, ReadsVisible, VisibleType DEF FskvInv, fskv_get, Ready
    <2>4. got' \in Value \cup {None}
      BY <2>2, <2>3 DEF Table, Value
    <2> QED BY <2>1, <2>4 DEF FskvInv, fskv_get, FskvTypeOK
  <1>6. CASE fskv_clr
    BY <1>6 DEF FskvInv, fskv_clr, Begins, Ready, FskvTypeOK, ClearCall
  <1>7. CASE fskv_iter
    BY <1>7 DEF FskvInv, fskv_iter, FskvTypeOK, Iterator, Present
  <1>8. CASE fskv_next
    <2>1. PICK k \in Key :
            iter' = [iter EXCEPT !.offset = @ + 1, !.listed = @ \cup {k},
                                 !.repeated = @ \/ k \in iter.listed]
      BY <1>8 DEF fskv_next, Present
    <2>2. iter \in Iterator
      BY <1>8 DEF FskvInv, FskvTypeOK, fskv_next
    <2>3. iter.offset + 1 \in Nat /\ iter.listed \cup {k} \in SUBSET Key
      BY <2>2 DEF Iterator
    <2>4. (iter.repeated \/ k \in iter.listed) \in BOOLEAN
      OBVIOUS
    <2>5. iter' \in Iterator
      BY <2>1, <2>2, <2>3, <2>4, Zenon DEF Iterator
    <2> QED BY <1>8, <2>5 DEF FskvInv, FskvTypeOK, fskv_next
  <1> QED BY <1>1, <1>2, <1>3, <1>4, <1>5, <1>6, <1>7, <1>8 DEF Script

LEMMA FormatType ==
    ASSUME FskvTypeOK, FormatStops \/ FormatDone
    PROVE  disk' \in [Key -> Content] /\ spare' \in [Key -> Content]
  <1>1. disk' \in [Key -> Content]
    BY DEF FormatStops, FormatDone, Fallen, NoFiles, Content
  <1> QED BY <1>1 DEF FormatStops, FormatDone, FskvTypeOK

LEMMA StoreType == ASSUME FskvInv, Store PROVE FskvTypeOK'
  <1> USE DEF FskvInv, FskvTypeOK, Content, Returns, Stays
  <1>1. CASE Opens
    BY <1>1, IteratorType DEF Opens, Commits, SetCall, SettCall
  <1>2. CASE OpenFails
    BY <1>2, IteratorType DEF OpenFails, Commits, SetCall, SettCall
  <1>3. CASE Writes
    BY <1>3 DEF Writes
  <1>4. CASE WriteFails
    BY <1>4 DEF WriteFails
  <1>5. CASE Closes
    BY <1>5, IteratorType DEF Closes, Commits, SetCall, SettCall
  <1>6. CASE CloseFails
    BY <1>6 DEF CloseFails
  <1>7. CASE Removes
    BY <1>7, IteratorType DEF Removes, Commits, DelCall
  <1>8. CASE Formats
    BY <1>8, FormatType, IteratorType DEF Formats
  <1> QED BY <1>1, <1>2, <1>3, <1>4, <1>5, <1>6, <1>7, <1>8 DEF Store

LEMMA TypeNext == ASSUME FskvInv, [FskvNext]_fskvVars PROVE FskvTypeOK'
  <1>1. CASE fskvdb_init
    BY <1>1, FormatType DEF FskvInv, fskvdb_init, FskvTypeOK
  <1>2. CASE PowerFails
    BY <1>2, FormatType DEF FskvInv, PowerFails, FskvTypeOK
  <1>3. CASE UNCHANGED fskvVars
    BY <1>3 DEF FskvInv, FskvTypeOK, fskvVars
  <1> QED BY <1>1, <1>2, <1>3, ScriptType, StoreType DEF FskvNext

-----------------------------------------------------------------------------
(* The rest of the invariant. *)

LEMMA SameData ==
    ASSUME DataOfCall, Visible' = Visible, UNCHANGED <<op, data>>,
           pc \in {"open", "write", "close"}
    PROVE  DataOfCall'
  BY DEF DataOfCall, Old

LEMMA NotWriting == ASSUME pc' \notin {"open", "write", "close"} PROVE DataOfCall'
  BY DEF DataOfCall

LEMMA DataNext == ASSUME FskvInv, [FskvNext]_fskvVars PROVE DataOfCall'
  <1>1. CASE \E k \in Key, v \in Value : fskv_set(k, v)
    BY <1>1 DEF fskv_set, Begins, DataOfCall, SetCall
  <1>2. CASE \E k \in Key, f \in Field, x \in Scalar \cup {None} : fskv_sett(k, f, x)
    <2>1. PICK k \in Key, f \in Field, x \in Scalar \cup {None} : fskv_sett(k, f, x)
      BY <1>2
    <2>2. PICK v \in Reads(k) :
            data' = [(IF v \in Table THEN v ELSE NoFields) EXCEPT ![f] = x]
      BY <2>1 DEF fskv_sett
    <2>3. v \in {Visible[k]} \cup (IF MayFail THEN {None} ELSE {})
      BY <2>1, <2>2, ReadsVisible DEF FskvInv, fskv_sett, Ready
    <2>4. data' = KV!WithField(v, f, x)
      BY <2>2 DEF KV!WithField, KV!Table, KV!NoFields, Table, NoFields
    <2>5. Visible' = Visible
      BY <2>1, SameVisible DEF fskv_sett
    <2>6. op' = [type |-> "sett", key |-> k, field |-> f, value |-> x]
      BY <2>1 DEF fskv_sett, Begins
    <2>7. v \in Old'
      BY <2>3, <2>5, <2>6 DEF Old
    <2>8. op' \notin SetCall
      BY <2>6 DEF SetCall
    <2> QED BY <2>4, <2>6, <2>7, <2>8 DEF DataOfCall
  <1>3. CASE \/ \E k \in Key : fskv_del(k)
             \/ Refused
             \/ \E k \in Key, f \in Field \cup {None} : fskv_get(k, f)
             \/ fskv_clr \/ fskv_iter \/ fskv_next
    BY <1>3, NotWriting
       DEF Ready, Begins, fskv_del, Refused, fskv_get, fskv_clr, fskv_iter, fskv_next
  <1>4. CASE Opens
    <2>1. Visible' = Visible
      BY <1>4, EntryShowsNothing, SameVisible
         DEF FskvInv, FskvTypeOK, Opens, SetCall, SettCall
    <2> QED BY <1>4, <2>1, SameData DEF FskvInv, Opens, Stays
  <1>5. CASE Writes
    BY <1>5, SameData, SameVisible DEF FskvInv, Writes, Stays
  <1>6. CASE OpenFails \/ WriteFails \/ Closes \/ CloseFails \/ Removes \/ Formats
    BY <1>6, NotWriting
       DEF Returns, OpenFails, WriteFails, Closes, CloseFails, Removes, Formats
  <1>7. CASE fskvdb_init
    BY <1>7, NotWriting DEF FskvInv, FskvTypeOK, fskvdb_init
  <1>8. CASE PowerFails
    BY <1>8, NotWriting DEF PowerFails
  <1>9. CASE UNCHANGED fskvVars
    BY <1>9, SameVisible DEF FskvInv, DataOfCall, Old, fskvVars
  <1> QED
    BY <1>1, <1>2, <1>3, <1>4, <1>5, <1>6, <1>7, <1>8, <1>9 DEF FskvNext, Script, Store

LEMMA MountedNext == ASSUME FskvInv, [FskvNext]_fskvVars PROVE Mounted'
  <1> USE DEF FskvInv, Mounted
  <1>1. CASE Script
    BY <1>1 DEF Script, Ready, Begins, fskv_set, fskv_sett, fskv_del, Refused,
                fskv_get, fskv_clr, fskv_iter, fskv_next
  <1>2. CASE Store
    BY <1>2 DEF Store, Opens, OpenFails, Writes, WriteFails, Closes, CloseFails,
                Removes, Formats, Returns, Stays
  <1>3. CASE fskvdb_init \/ PowerFails \/ UNCHANGED fskvVars
    BY <1>3 DEF fskvdb_init, PowerFails, fskvVars
  <1> QED BY <1>1, <1>2, <1>3 DEF FskvNext

THEOREM Invariant == FskvSpec => []FskvInv
  <1>1. FskvInit => FskvInv
    BY InitType DEF FskvInv, FskvInit, DataOfCall, Mounted
  <1>2. FskvInv /\ [FskvNext]_fskvVars => FskvInv'
    BY TypeNext, DataNext, MountedNext DEF FskvInv
  <1> QED BY <1>1, <1>2, PTL DEF FskvSpec

(* Each file holds a value or nothing, and a call has the arguments it was  *)
(* given, wherever the power fails.                                         *)
THEOREM TypeCorrect == FskvSpec => []FskvTypeOK
  BY Invariant, PTL DEF FskvInv

-----------------------------------------------------------------------------
(* Every step is one of KeyValue, or none. *)

(* The effect of a set that is committed. *)
LEMMA ClosesServes == ASSUME FskvInv, Closes PROVE KV!Done
  <1>1. op.key \in Key /\ op \in SetCall \cup SettCall /\ data \in Value
    BY DEF FskvInv, FskvTypeOK, Closes, SetCall, SettCall
  <1>2. Visible' = [Visible EXCEPT ![op.key] = KV!Seen(data)]
    <2>1. Visible' = [Visible EXCEPT ![op.key] =
                        IF data \in Value \ {Empty} THEN data ELSE None]
      BY <1>1, VisibleChange DEF FskvInv, Closes, Content
    <2> QED BY <1>1, <2>1 DEF KV!Seen
  <1>3. Visible' \in KV!Effects(op)
    <2>1. CASE op \in SetCall
      <3>1. op.type = "set" /\ data = op.value
        BY <2>1 DEF SetCall, FskvInv, DataOfCall, Closes
      <3> QED BY <1>2, <3>1 DEF KV!Effects
    <2>2. CASE op \in SettCall
      <3>1. op.type = "sett" /\ op \notin SetCall
        BY <2>2 DEF SettCall, SetCall
      <3>2. op.field \in Field /\ op.value \in Scalar \cup {None}
        BY <2>2 DEF SettCall
      <3>3. PICK old \in Old : data = KV!WithField(old, op.field, op.value)
        BY <3>1 DEF FskvInv, DataOfCall, Closes
      <3>4. data # Empty
        BY <3>2, <3>3, FieldType, ValueAssumption
      <3>5. Visible' = [Visible EXCEPT ![op.key] = KV!WithField(old, op.field, op.value)]
        BY <1>2, <3>3, <3>4 DEF KV!Seen
      <3>6. old \in {Visible[op.key]} \cup (IF MayFail THEN {None} ELSE {})
        BY <3>3 DEF Old
      <3>7. KV!Effects(op) =
              {[Visible EXCEPT ![op.key] = KV!WithField(o, op.field, op.value)] :
                 o \in {Visible[op.key]} \cup (IF MayFail THEN {None} ELSE {})}
        BY <3>1 DEF KV!Effects
      <3> QED BY <3>5, <3>6, <3>7
    <2> QED BY <1>1, <2>1, <2>2
  <1> QED BY <1>1, <1>3, SpareAges, ValueAssumption DEF KV!Done, Closes, Returns

LEMMA RemovesServes == ASSUME FskvInv, Removes PROVE KV!StoreNext
  <1>1. op.key \in Key /\ op.type = "del" /\ op # None
    BY ValueAssumption DEF FskvInv, FskvTypeOK, Removes, DelCall
  <1>2. CASE disk' = [disk EXCEPT ![op.key] = NoFile]
    <2>1. NoFile \notin Value
      BY ValueAssumption
    <2>2. Visible' = [Visible EXCEPT ![op.key] = None]
      BY <1>1, <1>2, <2>1, VisibleChange DEF FskvInv, Content
    <2>3. Visible' \in KV!Effects(op)
      BY <1>1, <2>2 DEF KV!Effects
    <2> QED BY <1>1, <2>3, SpareAges DEF KV!Done, KV!StoreNext, Removes, Returns
  <1>3. CASE UNCHANGED disk /\ (MayFail \/ fs # "mounted")
    <2>1. MayFail
      BY <1>3 DEF FskvInv, FskvTypeOK, Mounted, Removes
    <2>2. Visible' \in KV!Leaves(op)
      BY <1>1, <1>3, SameVisible DEF KV!Leaves
    <2> QED BY <1>1, <2>1, <2>2, SpareAges DEF KV!Fails, KV!StoreNext, Removes, Returns
  <1> QED BY <1>2, <1>3 DEF Removes

LEMMA FormatsServes == ASSUME FskvInv, Formats PROVE KV!StoreNext
  <1>1. op.type = "clear" /\ op # None
    BY ValueAssumption DEF FskvInv, FskvTypeOK, Formats, ClearCall
  <1>2. KV!Ages
    BY SpareAges DEF Formats
  <1>3. CASE disk' = NoFiles /\ (Returns(TRUE) \/ (MayFail /\ Returns(FALSE)))
    <2>1. Visible' \in KV!Effects(op)
      BY <1>1, <1>3, NothingVisible DEF KV!Effects
    <2> QED BY <1>1, <1>2, <1>3, <2>1 DEF KV!Done, KV!StoreNext, Returns
  <1>4. CASE disk' \in Fallen /\ MayFail /\ Returns(FALSE)
    <2>1. Visible' \in KV!Leaves(op)
      BY <1>1, <1>4, FallenShows DEF FskvInv, KV!Leaves
    <2> QED BY <1>1, <1>2, <1>4, <2>1 DEF KV!Fails, KV!StoreNext, Returns
  <1>5. \/ disk' = NoFiles /\ Returns(TRUE)
        \/ disk' \in Fallen \cup {NoFiles} /\ MayFail /\ Returns(FALSE)
    BY Zenon DEF Formats, FormatDone, FormatStops
  <1> QED BY <1>3, <1>4, <1>5

LEMMA SetFailsServes ==
    ASSUME FskvInv, OpenFails \/ WriteFails \/ CloseFails
    PROVE  KV!StoreNext
  <1>1. op # None
    BY ValueAssumption DEF FskvInv, FskvTypeOK, OpenFails, WriteFails, CloseFails
  <1>2. MayFail
    BY DEF FskvInv, FskvTypeOK, Mounted, OpenFails, WriteFails, CloseFails
  <1>3. Visible' = Visible
    BY SameVisible, EntryShowsNothing
       DEF FskvInv, FskvTypeOK, OpenFails, WriteFails, CloseFails, SetCall, SettCall
  <1>4. op.type # "clear"
    BY DEF FskvInv, FskvTypeOK, OpenFails, WriteFails, CloseFails, SetCall, SettCall
  <1>5. Visible' \in KV!Leaves(op)
    BY <1>3, <1>4 DEF KV!Leaves
  <1>6. KV!Ages
    BY SpareAges DEF OpenFails, WriteFails, CloseFails
  <1> QED BY <1>1, <1>2, <1>5, <1>6
          DEF KV!Fails, KV!StoreNext, OpenFails, WriteFails, CloseFails, Returns

LEMMA PowerServes == ASSUME FskvInv, PowerFails PROVE KV!PowerFails
  <1>1. CASE UNCHANGED <<disk, spare>>
    BY <1>1, SameVisible, SameOlder DEF KV!PowerFails, PowerFails
  <1>2. CASE pc = "format" /\ FormatStops
    <2>1. op.type = "clear" /\ op # None
      BY <1>2, ValueAssumption DEF FskvInv, FskvTypeOK, ClearCall
    <2>2. Visible' \in KV!Effects(op) \cup KV!Leaves(op)
      <3>1. disk' = NoFiles => Visible' \in KV!Effects(op)
        BY <2>1, NothingVisible DEF KV!Effects
      <3>2. disk' \in Fallen => Visible' \in KV!Leaves(op)
        BY <2>1, FallenShows DEF FskvInv, KV!Leaves
      <3> QED BY <1>2, <3>1, <3>2 DEF FormatStops
    <2> QED BY <1>2, <2>1, <2>2, SpareAges DEF KV!PowerFails, PowerFails
  <1> QED BY <1>1, <1>2 DEF PowerFails

LEMMA GetServes ==
    ASSUME FskvInv, NEW k \in Key, NEW f \in Field \cup {None}, fskv_get(k, f)
    PROVE  KV!Get(k, f)
  <1>1. PICK v \in Reads(k) : got' = IF v \in Table /\ f \in Field THEN v[f] ELSE v
    BY DEF fskv_get
  <1>2. v = Visible[k] \/ (MayFail /\ v = None)
    BY <1>1, ReadsVisible DEF FskvInv, fskv_get, Ready
  <1>3. None \notin Table
    BY ValueAssumption DEF Value
  <1>4. op = None
    BY DEF FskvInv, FskvTypeOK, fskv_get, Ready
  <1> QED BY <1>1, <1>2, <1>3, <1>4, SameVisible, SameOlder
          DEF KV!Get, KV!Table, Table, fskv_get

LEMMA ScriptServes == ASSUME FskvInv, Script PROVE [KV!StoreNext]_(KV!storeVars)
  <1>1. Visible' = Visible /\ Shown(spare)' = Shown(spare)
    BY SameVisible, SameOlder
       DEF Script, fskv_set, fskv_sett, fskv_del, Refused,
           fskv_get, fskv_clr, fskv_iter, fskv_next
  <1>2. pc = "idle" => op = None
    BY DEF FskvInv, FskvTypeOK
  <1>3. CASE \/ \E k \in Key, v \in Value : fskv_set(k, v)
             \/ \E k \in Key, f \in Field, x \in Scalar \cup {None} : fskv_sett(k, f, x)
             \/ \E k \in Key : fskv_del(k)
             \/ fskv_clr
    <2>1. op' \in KV!Calls
      BY <1>3 DEF KV!Calls, KV!Value, KV!Table, Value, Table,
                  Begins, fskv_set, fskv_sett, fskv_del, fskv_clr
    <2>2. KV!Begin(op')
      BY <1>1, <1>2, <1>3 DEF KV!Begin, Begins, Ready, fskv_set, fskv_sett, fskv_del, fskv_clr
    <2> QED BY <2>1, <2>2 DEF KV!StoreNext
  <1>4. CASE Refused
    BY <1>1, <1>2, <1>4 DEF KV!Refuse, KV!StoreNext, Ready, Refused
  <1>6. CASE \E k \in Key, f \in Field \cup {None} : fskv_get(k, f)
    BY <1>6, GetServes DEF KV!StoreNext
  <1>7. CASE fskv_iter \/ fskv_next
    BY <1>1, <1>7 DEF KV!storeVars, fskv_iter, fskv_next
  <1> QED BY <1>3, <1>4, <1>6, <1>7 DEF Script

LEMMA NextServes ==
    ASSUME FskvInv, [FskvNext]_fskvVars PROVE [KV!StoreNext]_(KV!storeVars)
  <1>1. CASE fskvdb_init
    <2>1. CASE UNCHANGED <<disk, spare>>
      BY <1>1, <2>1, SameVisible, SameOlder DEF fskvdb_init, KV!storeVars
    <2>2. CASE MayFail /\ (FormatDone \/ FormatStops)
      <3>1. op = None
        BY <1>1 DEF FskvInv, FskvTypeOK, fskvdb_init
      <3>2. disk' = NoFiles \/ disk' \in Fallen
        BY <2>2 DEF FormatDone, FormatStops
      <3>3. Visible' \in KV!Restored \cup {[k \in Key |-> None]}
        BY <3>2, NothingVisible, FallenShows DEF FskvInv
      <3> QED BY <1>1, <2>2, <3>1, <3>3, SpareAges
              DEF fskvdb_init, KV!LosesAll, KV!StoreNext
    <2> QED BY <1>1, <2>1, <2>2 DEF fskvdb_init
  <1>2. CASE Opens
    <2>1. Visible' = Visible
      BY <1>2, EntryShowsNothing, SameVisible
         DEF FskvInv, FskvTypeOK, Opens, SetCall, SettCall
    <2>2. KV!AgesOnly
      BY <1>2, <2>1, SpareAges DEF Opens, Stays, KV!AgesOnly
    <2> QED BY <2>2 DEF KV!StoreNext
  <1>3. CASE Writes
    BY <1>3, SameVisible, SameOlder DEF Writes, Stays, KV!storeVars
  <1>4. CASE Closes
    BY <1>4, ClosesServes DEF KV!StoreNext
  <1>5. CASE OpenFails \/ WriteFails \/ CloseFails
    BY <1>5, SetFailsServes
  <1>6. CASE Removes
    BY <1>6, RemovesServes
  <1>7. CASE Formats
    BY <1>7, FormatsServes
  <1>8. CASE PowerFails
    BY <1>8, PowerServes DEF KV!StoreNext
  <1>9. CASE UNCHANGED fskvVars
    BY <1>9, SameVisible, SameOlder DEF fskvVars, KV!storeVars
  <1> QED
    BY <1>1, <1>2, <1>3, <1>4, <1>5, <1>6, <1>7, <1>8, <1>9, ScriptServes
       DEF FskvNext, Store

(* A call takes effect on its own key once or not at all, wherever the power *)
(* fails and whatever fails in the file system; of a clear that does not     *)
(* succeed, what it may bring back is what the other block has.              *)
THEOREM Implements == FskvSpec => ImplementsKeyValue
  <1>1. FskvInit => KV!StoreInit
    BY ValueAssumption DEF FskvInit, KV!StoreInit, Visible, Shown, NoFiles
  <1>2. FskvInv /\ [FskvNext]_fskvVars => [KV!StoreNext]_(KV!storeVars)
    BY NextServes
  <1> QED BY <1>1, <1>2, Invariant, PTL DEF FskvSpec, ImplementsKeyValue, KV!StoreSpec

-----------------------------------------------------------------------------
(* The iterator.  What it knows of the files it has passed stays true while *)
(* files only come, or only go.                                             *)

(* A file that was there from the beginning and lies before the iterator has *)
(* been returned, if none went; what was returned lies before the iterator, *)
(* if none came.                                                            *)
IterationInv ==
    /\ fs = "off" => iter = None
    /\ iter # None =>
          /\ iter.repeated => iter.added
          /\ ~iter.added =>
                \A k \in Present(disk) \cap iter.listed : FilesBefore(k) < iter.offset
          /\ ~iter.removed =>
                /\ iter.began \subseteq Present(disk)
                /\ \A k \in iter.began : FilesBefore(k) < iter.offset => k \in iter.listed

(* The files of which FilesBefore(k) is the number. *)
Before(files, k) == {j \in files : j < k}

LEMMA BeforeFinite ==
    ASSUME NEW files \in SUBSET Key, NEW k \in Key
    PROVE  /\ IsFiniteSet(files) /\ IsFiniteSet(Before(files, k))
           /\ Cardinality(files) \in Nat /\ Cardinality(Before(files, k)) \in Nat
  <1>1. IsFiniteSet(files)
    BY KeyAssumption, FS_Subset
  <1>2. Before(files, k) \in SUBSET files
    BY DEF Before
  <1>3. IsFiniteSet(Before(files, k))
    BY <1>1, <1>2, FS_Subset
  <1> QED BY <1>1, <1>3, FS_CardinalityType

LEMMA FilesBeforeType == ASSUME NEW k \in Key PROVE FilesBefore(k) \in Nat
  BY BeforeFinite DEF FilesBefore, Before, Present

(* With more files, more come before a key. *)
LEMMA BeforeMonotone ==
    ASSUME NEW more \in SUBSET Key, NEW files \in SUBSET more, NEW k \in Key
    PROVE  Cardinality(Before(files, k)) <= Cardinality(Before(more, k))
  <1>1. Before(files, k) \in SUBSET Before(more, k)
    BY DEF Before
  <1> QED BY <1>1, BeforeFinite, FS_Subset

(* The files are numbered in the order of the directory. *)
LEMMA BeforeIncreases ==
    ASSUME NEW files \in SUBSET Key, NEW j \in files, NEW k \in Key, j < k
    PROVE  Cardinality(Before(files, j)) < Cardinality(Before(files, k))
  <1>1. j \in Nat /\ k \in Nat /\ files \subseteq Nat
    BY KeyAssumption
  <1>2. ASSUME NEW i \in files, i < j
        PROVE  i < k
    BY <1>1, <1>2
  <1>3. /\ Before(files, j) \in SUBSET Before(files, k)
        /\ j \in Before(files, k) /\ j \notin Before(files, j)
    <2>1. Before(files, j) \in SUBSET Before(files, k)
      BY <1>2 DEF Before
    <2>2. j \in Before(files, k)
      BY DEF Before
    <2>3. ~(j < j)
      BY <1>1
    <2>4. j \notin Before(files, j)
      BY <2>3 DEF Before
    <2> QED BY <2>1, <2>2, <2>4
  <1>4. /\ Cardinality(Before(files, j)) <= Cardinality(Before(files, k))
        /\ Cardinality(Before(files, j)) # Cardinality(Before(files, k))
    BY <1>3, BeforeFinite, FS_Subset
  <1> QED BY <1>4, BeforeFinite

LEMMA OneFileAtOffset ==
    ASSUME NEW j \in Present(disk), NEW k \in Present(disk), FilesBefore(j) = FilesBefore(k)
    PROVE  j = k
  <1>1. j \in Nat /\ k \in Nat /\ Present(disk) \in SUBSET Key
    BY KeyAssumption DEF Present
  <1>2. /\ FilesBefore(j) = Cardinality(Before(Present(disk), j))
        /\ FilesBefore(k) = Cardinality(Before(Present(disk), k))
    BY DEF FilesBefore, Before
  <1>3. FilesBefore(j) \in Nat /\ FilesBefore(k) \in Nat
    BY <1>1, FilesBeforeType
  <1>4. /\ j < k => FilesBefore(j) < FilesBefore(k)
        /\ k < j => FilesBefore(k) < FilesBefore(j)
    <2> DEFINE files == Present(disk)
    <2>1. files \in SUBSET Key /\ j \in files /\ k \in files /\ j \in Key /\ k \in Key
      BY <1>1
    <2> HIDE DEF files
    <2>2. /\ j < k => Cardinality(Before(files, j)) < Cardinality(Before(files, k))
          /\ k < j => Cardinality(Before(files, k)) < Cardinality(Before(files, j))
      BY <2>1, BeforeIncreases
    <2> QED BY <1>2, <2>2 DEF files
  <1> QED BY <1>1, <1>3, <1>4

(* The numbers have no gap: where no file is, none comes after. *)
LEMMA NoFileBeyond ==
    ASSUME NEW n \in Nat, \A k \in Present(disk) : FilesBefore(k) # n,
           NEW k \in Present(disk)
    PROVE  FilesBefore(k) < n
  <1> DEFINE files == Present(disk)
             size == Cardinality(files)
             number == [j \in files |-> FilesBefore(j)]
  <1>1. files \in SUBSET Key /\ IsFiniteSet(files) /\ size \in Nat
    BY BeforeFinite DEF Present
  <1>2. ASSUME NEW j \in files
        PROVE  FilesBefore(j) \in 0 .. size - 1
    <2>1. Before(files, j) \in SUBSET files
      BY DEF Before
    <2>2. j \in files /\ j \notin Before(files, j)
      <3>1. j \in Nat
        BY <1>1, KeyAssumption
      <3> QED BY <3>1 DEF Before
    <2>3. /\ Cardinality(Before(files, j)) <= size
          /\ Cardinality(Before(files, j)) # size
      BY <1>1, <2>1, <2>2, FS_Subset
    <2>4. FilesBefore(j) \in Nat /\ FilesBefore(j) = Cardinality(Before(files, j))
      BY <1>1, FilesBeforeType DEF FilesBefore, Before
    <2> HIDE DEF files, size
    <2> QED BY <1>1, <2>3, <2>4
  <1>3. IsFiniteSet(0 .. size - 1) /\ Cardinality(0 .. size - 1) = size
    <2> HIDE DEF size
    <2>1. 0 \in Int /\ size - 1 \in Int
      BY <1>1
    <2> QED BY <1>1, <2>1, FS_Interval
  <1>4. number \in Injection(files, 0 .. size - 1)
    <2>1. number \in [files -> 0 .. size - 1]
      BY <1>2
    <2>2. \A i, j \in files : number[i] = number[j] => i = j
      BY OneFileAtOffset
    <2> HIDE DEF number, files, size
    <2> QED BY <2>1, <2>2 DEF Injection, IsInjective
  <1>5. number \in Surjection(files, 0 .. size - 1)
    <2>1. Cardinality(files) = Cardinality(0 .. size - 1)
      BY <1>3
    <2> HIDE DEF number, files, size
    <2> QED BY <1>3, <1>4, <2>1, FS_Injection
  <1>6. n \notin 0 .. size - 1
    BY <1>5 DEF Surjection
  <1>7. FilesBefore(k) \in 0 .. size - 1
    BY <1>2
  <1> HIDE DEF size
  <1> QED BY <1>1, <1>6, <1>7

(* The files change under the iterator, which sees whether one came or went. *)
LEMMA IteratorKeeps ==
    ASSUME FskvTypeOK, IterationInv, IteratorSees, fs # "off", fs' # "off",
           disk' \in [Key -> Content]
    PROVE  IterationInv'
  <1>1. CASE iter = None
    BY <1>1 DEF IteratorSees, IterationInv
  <1>2. CASE iter # None
    <2>1. iter \in Iterator
      BY <1>2 DEF FskvTypeOK
    <2>2. iter' = [iter EXCEPT !.removed = @ \/ ~(Present(disk) \subseteq Present(disk')),
                              !.added = @ \/ ~(Present(disk') \subseteq Present(disk))]
      BY <1>2 DEF IteratorSees
    <2>3. /\ iter'.offset = iter.offset /\ iter.offset \in Nat
          /\ iter'.listed = iter.listed /\ iter'.began = iter.began
          /\ iter.listed \subseteq Key /\ iter.began \subseteq Key
          /\ iter'.repeated = iter.repeated
          /\ iter.added => iter'.added
          /\ ~iter'.added => ~iter.added /\ Present(disk') \subseteq Present(disk)
          /\ ~iter'.removed => ~iter.removed /\ Present(disk) \subseteq Present(disk')
      BY <2>1, <2>2 DEF Iterator
    <2>4. Present(disk) \in SUBSET Key /\ Present(disk') \in SUBSET Key
      BY DEF Present
    <2>5. \A k \in Key : /\ FilesBefore(k) = Cardinality(Before(Present(disk), k))
                         /\ FilesBefore(k)' = Cardinality(Before(Present(disk'), k))
                         /\ FilesBefore(k) \in Nat /\ FilesBefore(k)' \in Nat
      BY <2>4, BeforeFinite DEF FilesBefore, Before
    <2>6. ASSUME ~iter'.added, NEW k \in Present(disk') \cap iter'.listed
          PROVE  FilesBefore(k)' < iter'.offset
      <3>1. k \in Present(disk) \cap iter.listed /\ k \in Key
        BY <2>3, <2>4, <2>6
      <3>2. FilesBefore(k)' <= FilesBefore(k)
        BY <2>3, <2>4, <2>5, <2>6, <3>1, BeforeMonotone
      <3>3. FilesBefore(k) < iter.offset
        BY <1>2, <2>3, <2>6, <3>1 DEF IterationInv
      <3> QED BY <2>3, <2>5, <3>1, <3>2, <3>3
    <2>7. ASSUME ~iter'.removed
          PROVE  /\ iter'.began \subseteq Present(disk')
                 /\ \A k \in iter'.began : FilesBefore(k)' < iter'.offset => k \in iter'.listed
      <3>1. iter'.began \subseteq Present(disk')
        BY <1>2, <2>3, <2>7 DEF IterationInv
      <3>2. ASSUME NEW k \in iter'.began, FilesBefore(k)' < iter'.offset
            PROVE  k \in iter'.listed
        <4>1. k \in Key /\ FilesBefore(k) <= FilesBefore(k)'
          BY <2>3, <2>4, <2>5, <2>7, <3>2, BeforeMonotone
        <4>2. FilesBefore(k) < iter.offset
          BY <2>3, <2>5, <3>2, <4>1
        <4> QED BY <1>2, <2>3, <2>7, <3>2, <4>2 DEF IterationInv
      <3> QED BY <3>1, <3>2
    <2> QED BY <1>2, <2>3, <2>6, <2>7 DEF IterationInv
  <1> QED BY <1>1, <1>2

(* next returns the file at its offset, which is behind all it has returned. *)
LEMMA NextKeeps == ASSUME FskvTypeOK, IterationInv, fskv_next PROVE IterationInv'
  <1>1. PICK k \in Present(disk) :
          /\ FilesBefore(k) = iter.offset
          /\ iter' = [iter EXCEPT !.offset = @ + 1, !.listed = @ \cup {k},
                                  !.repeated = @ \/ k \in iter.listed]
    BY DEF fskv_next
  <1>2. iter # None /\ iter \in Iterator /\ UNCHANGED <<disk, fs>> /\ fs # "off"
    BY DEF fskv_next, FskvTypeOK, Ready
  <1>3. /\ iter'.offset = iter.offset + 1 /\ iter.offset \in Nat
        /\ iter'.listed = iter.listed \cup {k}
        /\ iter'.repeated = (iter.repeated \/ k \in iter.listed)
        /\ iter'.began = iter.began /\ iter'.added = iter.added
        /\ iter'.removed = iter.removed
    BY <1>1, <1>2 DEF Iterator
  <1>4. \A j \in Present(disk) : FilesBefore(j) \in Nat /\ FilesBefore(j)' = FilesBefore(j)
    BY <1>2, FilesBeforeType DEF FilesBefore, Present
  <1>5. ASSUME iter'.repeated, ~iter'.added
        PROVE  FALSE
    <2>1. ~iter.added /\ ~iter.repeated
      BY <1>2, <1>3, <1>5 DEF IterationInv
    <2>2. k \in iter.listed
      BY <1>3, <1>5, <2>1
    <2>3. FilesBefore(k) < iter.offset
      BY <1>2, <2>1, <2>2 DEF IterationInv
    <2> QED BY <1>1, <1>3, <2>3
  <1>6. ASSUME ~iter'.added, NEW j \in Present(disk') \cap iter'.listed
        PROVE  FilesBefore(j)' < iter'.offset
    <2>1. j = k \/ FilesBefore(j) < iter.offset
      BY <1>2, <1>3, <1>6 DEF IterationInv
    <2> QED BY <1>1, <1>2, <1>3, <1>4, <1>6, <2>1
  <1>7. ASSUME ~iter'.removed
        PROVE  /\ iter'.began \subseteq Present(disk')
               /\ \A j \in iter'.began : FilesBefore(j)' < iter'.offset => j \in iter'.listed
    <2>1. iter.began \subseteq Present(disk)
      BY <1>2, <1>3, <1>7 DEF IterationInv
    <2>2. ASSUME NEW j \in iter.began, FilesBefore(j) < iter.offset + 1
          PROVE  j \in iter'.listed
      <3>1. j \in Present(disk) /\ FilesBefore(j) \in Nat
        BY <1>4, <2>1
      <3>2. FilesBefore(j) < iter.offset \/ FilesBefore(j) = iter.offset
        BY <1>3, <2>2, <3>1
      <3>3. CASE FilesBefore(j) < iter.offset
        BY <1>2, <1>3, <1>7, <3>3 DEF IterationInv
      <3>4. CASE FilesBefore(j) = iter.offset
        BY <1>1, <1>3, <3>1, <3>4, OneFileAtOffset
      <3> QED BY <3>2, <3>3, <3>4
    <2> QED BY <1>2, <1>3, <1>4, <2>1, <2>2
  <1> QED BY <1>2, <1>5, <1>6, <1>7 DEF IterationInv

LEMMA IterationNext == ASSUME FskvInv, IterationInv, [FskvNext]_fskvVars PROVE IterationInv'
  <1>1. FskvTypeOK /\ FskvTypeOK'
    BY TypeNext DEF FskvInv
  <1>2. disk' \in [Key -> Content]
    BY <1>1 DEF FskvTypeOK
  <1>3. CASE UNCHANGED <<disk, iter>> /\ (fs' = "off" => fs = "off" \/ iter = None)
    BY <1>3 DEF IterationInv, FilesBefore
  <1>4. CASE Script
    <2>1. CASE fskv_iter
      <3>1. /\ iter' # None => /\ ~iter'.repeated /\ iter'.listed = {}
                               /\ iter'.began = Present(disk) /\ iter'.offset = 0
            /\ UNCHANGED <<disk, fs>> /\ fs # "off"
        BY <2>1 DEF fskv_iter, Ready
      <3>2. \A k \in Present(disk') : FilesBefore(k)' \in Nat
        BY <3>1, FilesBeforeType DEF FilesBefore, Present
      <3>3. iter' # None => \A k \in iter'.began : ~(FilesBefore(k)' < iter'.offset)
        BY <3>1, <3>2
      <3> QED BY <3>1, <3>3 DEF IterationInv
    <2>2. CASE fskv_next
      BY <1>1, <2>2, NextKeeps
    <2>3. CASE ~fskv_iter /\ ~fskv_next
      BY <1>3, <1>4, <2>3
         DEF Script, fskv_set, fskv_sett, fskv_del, Refused, fskv_get, fskv_clr
    <2> QED BY <2>1, <2>2, <2>3
  <1>5. CASE Store
    <2>1. CASE Writes \/ WriteFails \/ CloseFails
      BY <1>3, <2>1 DEF Writes, WriteFails, CloseFails
    <2>2. CASE Opens \/ OpenFails \/ Closes \/ Removes \/ Formats
      <3>1. fs # "off"
        BY <1>1, <2>2 DEF FskvTypeOK, Opens, OpenFails, Closes, Removes, Formats
      <3>2. IteratorSees /\ fs' # "off"
        BY <2>2, <3>1 DEF Opens, OpenFails, Closes, Removes, Formats
      <3> QED BY <1>1, <1>2, <3>1, <3>2, IteratorKeeps
    <2> QED BY <1>5, <2>1, <2>2 DEF Store
  <1>6. CASE fskvdb_init
    BY <1>6 DEF fskvdb_init, IterationInv
  <1>7. CASE PowerFails
    BY <1>7 DEF PowerFails, IterationInv
  <1>8. CASE UNCHANGED fskvVars
    BY <1>3, <1>8 DEF fskvVars
  <1> QED BY <1>4, <1>5, <1>6, <1>7, <1>8 DEF FskvNext

(* An iteration that ends has returned every key that was there all along,  *)
(* unless one was removed, and none twice, unless one was added: whatever   *)
(* the script does between its calls of next, and for any number of keys.   *)
THEOREM Lists == FskvSpec => []IterationLists
  <1>1. FskvInit => IterationInv
    BY DEF FskvInit, IterationInv
  <1>2. FskvTypeOK /\ IterationInv => IterationLists
    <2> SUFFICES ASSUME FskvTypeOK, IterationInv, iter # None
                 PROVE  /\ iter.repeated => iter.added
                        /\ (\A k \in Present(disk) : FilesBefore(k) # iter.offset)
                              /\ ~iter.removed => iter.began \subseteq iter.listed
      BY DEF IterationLists
    <2>1. iter.offset \in Nat
      BY DEF FskvTypeOK, Iterator
    <2>2. ASSUME \A k \in Present(disk) : FilesBefore(k) # iter.offset, ~iter.removed,
                 NEW k \in iter.began
          PROVE  k \in iter.listed
      <3>1. k \in Present(disk)
        BY <2>2 DEF IterationInv
      <3>2. FilesBefore(k) < iter.offset
        BY <2>1, <2>2, <3>1, NoFileBeyond
      <3> QED BY <2>2, <3>2 DEF IterationInv
    <2> QED BY <2>2 DEF IterationInv
  <1>3. FskvInv => FskvTypeOK
    BY DEF FskvInv
  <1> QED BY <1>1, <1>2, <1>3, Invariant, IterationNext, PTL DEF FskvSpec
=============================================================================
