-------------------------------- MODULE Fskv --------------------------------
(***************************************************************************)
(* The key-value store of scripts: luat_lib_fskv.c over luat_fskv_sfd.c,    *)
(* which keeps each key in a file of its own, over littlefs (lfs.c), whose  *)
(* root directory lists the files in the order of their names.              *)
(*                                                                          *)
(* The Lua task makes one call at a time.  set opens, writes and closes the *)
(* key's file; what littlefs commits to the flash, and when, is what a loss *)
(* of power shows.  Opening creates the file of a new key empty; all else   *)
(* waits for the commit at the close.                                       *)
(*                                                                          *)
(* The directory is a log on one of two blocks, 0 and 1, of which the one   *)
(* with the newer revision counts.  A full log is written anew to the other *)
(* block; the block it leaves keeps it as it was (spare).  Nobody sees that *)
(* but lfs_format, which erases block 0, the newer one or not, before all   *)
(* else.                                                                    *)
(*                                                                          *)
(* What is called before fskv.init is left out here: every call but next    *)
(* then returns at once, and next reads through a null pointer.             *)
(*                                                                          *)
(* With MayFail the flash fails or is full at any time.                     *)
(***************************************************************************)
EXTENDS Integers, FiniteSets

CONSTANTS
    Key,       \* key names, as numbers: their order is that of the directory
    Scalar, Empty, Field, None, Long, MayFail,   \* see KeyValue
    NoFile,    \* no file of that name
    Blank      \* a file of size 0

ASSUME KeyAssumption == Key \subseteq Nat /\ IsFiniteSet(Key)
ASSUME FailAssumption == MayFail \in BOOLEAN

VARIABLES
    disk,      \* the file of each key
    spare,     \* the files in the directory of the other block
    fs,        \* "off" before fskv.init, then "mounted"; "lost" after a failed clear
    pc,        \* where the Lua task is: "idle" or within a call
    op,        \* the call, or None
    data,      \* the value luat_fskv_set writes, or None
    answer,    \* what the call that has ended returned, if that is a Boolean
    got,       \* what it returned if it is a get
    iter       \* the iterator of fskv.iter, or None

fskvVars == <<disk, spare, fs, pc, op, data, answer, got, iter>>

Table == [Field -> Scalar \cup {None}]
Value == Scalar \cup Table

SetCall == [type : {"set"}, key : Key, value : Value]
SettCall == [type : {"sett"}, key : Key, field : Field, value : Scalar \cup {None}]
DelCall == [type : {"del"}, key : Key]
ClearCall == [type : {"clear"}]

(* offset is the iterator; the rest is history: the keys present when it    *)
(* began, those it has returned, and whether a key came or went, or one     *)
(* came twice.                                                              *)
Iterator == [offset : Nat, began : SUBSET Key, listed : SUBSET Key,
             removed : BOOLEAN, added : BOOLEAN, repeated : BOOLEAN]

ASSUME ValueAssumption ==
    /\ {None, NoFile, Blank} \cap (Value \cup BOOLEAN) = {}
    /\ Cardinality({None, NoFile, Blank}) = 3
    /\ None \notin SetCall \cup SettCall \cup DelCall \cup ClearCall \cup Iterator
    /\ Empty \notin Table
    /\ Long \subseteq Value \ {Empty}

Content == {NoFile, Blank} \cup Value

FskvTypeOK ==
    /\ disk \in [Key -> Content]
    /\ spare \in [Key -> Content]
    /\ fs \in {"off", "mounted", "lost"}
    /\ pc \in {"idle", "open", "write", "close", "remove", "format"}
    /\ pc # "idle" => fs # "off"
    /\ \/ pc = "idle" /\ op = None
       \/ pc \in {"open", "write", "close"} /\ op \in SetCall \cup SettCall
       \/ pc = "remove" /\ op \in DelCall
       \/ pc = "format" /\ op \in ClearCall
    /\ data \in Value \cup {None}
    /\ pc \in {"open", "write", "close"} => data \in Value
    /\ answer \in BOOLEAN \cup {None}
    /\ got \in Value \cup {None}
    /\ iter \in Iterator \cup {None}

NoFiles == [k \in Key |-> NoFile]

Present(files) == {k \in Key : files[k] # NoFile}

(* The iterator, when the files change from disk to disk'. *)
IteratorSees ==
    iter' = IF iter = None THEN None
            ELSE [iter EXCEPT !.removed = @ \/ ~(Present(disk) \subseteq Present(disk')),
                              !.added = @ \/ ~(Present(disk') \subseteq Present(disk))]

Returns(x) ==
    /\ pc' = "idle" /\ op' = None /\ data' = None
    /\ answer' = x
    /\ UNCHANGED got

Begins(c, first) ==
    /\ op' = c /\ pc' = first
    /\ answer' = None /\ got' = None

Stays(next) == pc' = next /\ UNCHANGED <<op, data, answer, got>>

-----------------------------------------------------------------------------
(* The two blocks of the directory. *)

(* A commit is appended to the log, or goes to the other block. *)
Commits == spare' \in {spare, disk}

(* The files once block 0 is erased: they are in block 1 or, if the newer   *)
(* revision was in block 0, they are what they were before.  A directory    *)
(* that has outgrown its blocks goes on in others, which keep their files;  *)
(* and a long value lies in blocks outside of the directory, which may have *)
(* been used for others since.                                              *)
Fallen ==
    {files \in [Key -> Content] : \A k \in Key :
       files[k] \in {disk[k], spare[k]}
                     \cup (IF spare[k] \in Long THEN Value \cup {Blank} ELSE {})}

(* lfs_format erases and writes block 0, then block 1, and stops somewhere. *)
FormatStops ==
    /\ disk' \in Fallen \cup {NoFiles}
    /\ spare' \in {spare, disk, disk'}

FormatDone == disk' = NoFiles /\ spare' = NoFiles

-----------------------------------------------------------------------------
(* fskv.init: a file system that does not mount, for whatever reason, is    *)
(* formatted.                                                               *)
fskvdb_init ==
    /\ fs = "off"
    /\ \/ fs' = "mounted" /\ UNCHANGED <<disk, spare>>
       \/ MayFail /\ fs' = "mounted" /\ FormatDone
       \/ MayFail /\ fs' = "off" /\ FormatStops
    /\ UNCHANGED <<pc, op, data, answer, got, iter>>

Ready == fs # "off" /\ pc = "idle"

(* Mutant: a size below 2 is not taken for nothing. *)
ReadsAnyFile(k) ==
    IF fs = "mounted" /\ disk[k] # NoFile THEN {disk[k]} ELSE {None}

(* What luat_fskv_size and luat_fskv_get read: nothing of a file of size 0, *)
(* and of the empty string, which is one byte, only the size.               *)
Reads(k) ==
    IF fs = "mounted" /\ disk[k] \in Value \ {Empty}
    THEN {disk[k]} \cup (IF MayFail THEN {None} ELSE {})
    ELSE {None}

(* fskv.get, with a field or with None. *)
fskv_get(k, field) ==
    /\ Ready
    /\ \E v \in Reads(k) :
          got' = IF v \in Table /\ field \in Field THEN v[field] ELSE v
    /\ answer' = None
    /\ UNCHANGED <<disk, spare, fs, pc, op, data, iter>>

(* fskv.set: what cannot be stored is refused before the flash is touched. *)
fskv_set(k, v) ==
    /\ Ready
    /\ Begins([type |-> "set", key |-> k, value |-> v], "open")
    /\ data' = v
    /\ UNCHANGED <<disk, spare, fs, iter>>

Refused ==
    /\ Ready
    /\ answer' = FALSE /\ got' = None
    /\ UNCHANGED <<disk, spare, fs, pc, op, data, iter>>

NoFields == [f \in Field |-> None]

(* fskv.sett: the table that is read, or a new one, with the field set, is  *)
(* given to fskv.set.  A read that fails may also end the call with nothing *)
(* done, by a return or by an error.                                        *)
fskv_sett(k, field, x) ==
    /\ Ready
    /\ \E v \in Reads(k) :
          data' = [(IF v \in Table THEN v ELSE NoFields) EXCEPT ![field] = x]
    /\ Begins([type |-> "sett", key |-> k, field |-> field, value |-> x], "open")
    /\ UNCHANGED <<disk, spare, fs, iter>>

fskv_del(k) ==
    /\ Ready
    /\ Begins([type |-> "del", key |-> k], "remove")
    /\ UNCHANGED <<disk, spare, fs, data, iter>>

fskv_clr ==
    /\ Ready
    /\ Begins([type |-> "clear"], "format")
    /\ UNCHANGED <<disk, spare, fs, data, iter>>

-----------------------------------------------------------------------------
(* luat_fskv_set *)

(* Mutant: opening an existing file commits its truncation. *)
OpensTruncated ==
    /\ pc = "open" /\ fs = "mounted"
    /\ disk' = [disk EXCEPT ![op.key] = Blank]
    /\ Stays("write")
    /\ Commits
    /\ IteratorSees
    /\ UNCHANGED fs

(* lfs_file_open with CREAT and TRUNC: the entry of a new file is committed, *)
(* a truncation is only remembered.                                          *)
Opens ==
    /\ pc = "open" /\ fs = "mounted"
    /\ disk' = IF disk[op.key] = NoFile THEN [disk EXCEPT ![op.key] = Blank] ELSE disk
    /\ Stays("write")
    /\ Commits
    /\ IteratorSees
    /\ UNCHANGED fs

(* It fails before the entry is made or, for want of memory, after. *)
OpenFails ==
    /\ pc = "open"
    /\ MayFail \/ fs # "mounted"
    /\ \/ UNCHANGED disk
       \/ /\ fs = "mounted" /\ disk[op.key] = NoFile
          /\ disk' = [disk EXCEPT ![op.key] = Blank]
    /\ Returns(FALSE)
    /\ Commits
    /\ IteratorSees
    /\ UNCHANGED fs

Writes ==
    /\ pc = "write"
    /\ Stays("close")
    /\ UNCHANGED <<disk, spare, fs, iter>>

(* After a write that failed the close commits nothing. *)
WriteFails ==
    /\ pc = "write"
    /\ MayFail
    /\ Returns(FALSE)
    /\ UNCHANGED <<disk, spare, fs, iter>>

(* The close commits the size and the content in one step. *)
Closes ==
    /\ pc = "close"
    /\ disk' = [disk EXCEPT ![op.key] = data]
    /\ Returns(TRUE)
    /\ Commits
    /\ IteratorSees
    /\ UNCHANGED fs

(* What a failed close returns is not looked at. *)
CloseFails ==
    /\ pc = "close"
    /\ MayFail
    /\ Returns(TRUE)
    /\ UNCHANGED <<disk, spare, fs, iter>>

-----------------------------------------------------------------------------
(* luat_fskv_del reports success whatever lfs_remove returns. *)
Removes ==
    /\ pc = "remove"
    /\ \/ /\ fs = "mounted"
          /\ disk' = [disk EXCEPT ![op.key] = NoFile]
       \/ /\ MayFail \/ fs # "mounted"
          /\ UNCHANGED disk
    /\ Returns(TRUE)
    /\ Commits
    /\ IteratorSees
    /\ UNCHANGED fs

(* luat_fskv_clear: lfs_format and lfs_mount.  Formatting unmounts; a file  *)
(* system that was not mounted again answers every later call with an error,*)
(* and the next start finds what the format has left.                       *)
Formats ==
    /\ pc = "format"
    /\ \/ FormatDone /\ fs' = "mounted" /\ Returns(TRUE)
       \/ MayFail /\ FormatStops /\ fs' = "lost" /\ Returns(FALSE)
    /\ IteratorSees

-----------------------------------------------------------------------------
(* fskv.iter and fskv.next.  An iterator is the number of files it has      *)
(* passed: next counts them from the first.                                 *)

fskv_iter ==
    /\ Ready
    /\ iter' = [offset |-> 0, began |-> Present(disk), listed |-> {},
                removed |-> FALSE, added |-> FALSE, repeated |-> FALSE]
    /\ UNCHANGED <<disk, spare, fs, pc, op, data, answer, got>>

(* Mutant: the count begins behind the first file. *)
FilesBeforeOrAt(k) == Cardinality({j \in Present(disk) : j <= k})

(* lfs_dir_seek and lfs_dir_read: how many files come before that of k. *)
FilesBefore(k) == Cardinality({j \in Present(disk) : j < k})

fskv_next ==
    /\ Ready
    /\ iter # None /\ fs = "mounted"
    /\ \E k \in Present(disk) :
          /\ FilesBefore(k) = iter.offset
          /\ iter' = [iter EXCEPT !.offset = @ + 1, !.listed = @ \cup {k},
                                  !.repeated = @ \/ k \in iter.listed]
    /\ UNCHANGED <<disk, spare, fs, pc, op, data, answer, got>>

-----------------------------------------------------------------------------
(* The power fails: what is committed stays, but in the middle of a format. *)
PowerFails ==
    /\ IF pc = "format" THEN FormatStops ELSE UNCHANGED <<disk, spare>>
    /\ fs' = "off"
    /\ pc' = "idle" /\ op' = None /\ data' = None
    /\ answer' = None /\ got' = None
    /\ iter' = None

FskvInit ==
    /\ disk = NoFiles /\ spare = NoFiles
    /\ fs = "off"
    /\ pc = "idle" /\ op = None /\ data = None
    /\ answer = None /\ got = None
    /\ iter = None

Script ==
    \/ \E k \in Key, v \in Value : fskv_set(k, v)
    \/ \E k \in Key, field \in Field, x \in Scalar \cup {None} : fskv_sett(k, field, x)
    \/ \E k \in Key : fskv_del(k)
    \/ Refused
    \/ \E k \in Key, field \in Field \cup {None} : fskv_get(k, field)
    \/ fskv_clr
    \/ fskv_iter
    \/ fskv_next

Store ==
    \/ Opens
    \/ OpenFails
    \/ Writes
    \/ WriteFails
    \/ Closes
    \/ CloseFails
    \/ Removes
    \/ Formats

FskvNext == fskvdb_init \/ Script \/ Store \/ PowerFails

FskvSpec == FskvInit /\ [][FskvNext]_fskvVars

-----------------------------------------------------------------------------
(* Properties. *)

(* What get finds in each file. *)
Shown(files) ==
    [k \in Key |-> IF files[k] \in Value \ {Empty} THEN files[k] ELSE None]

Visible == Shown(disk)

KV == INSTANCE KeyValue WITH store <- Visible, older <- Shown(spare), call <- op

(* A call takes effect on its own key, once or not at all, whatever the     *)
(* file system does and wherever the power fails: a set never leaves the    *)
(* old value half replaced, or another key changed, and a get returns what  *)
(* was set.  Only a clear that is cut short, or fails, may leave something  *)
(* else: for each key its value, none, or what the directory of the other   *)
(* block has for it, which an earlier call had replaced or deleted.         *)
ImplementsKeyValue == KV!StoreSpec

(* An iteration that ends has returned every key that was there all along,  *)
(* unless a key was removed meanwhile, which moves the later ones before    *)
(* the iterator; and none twice, unless one was added.                      *)
IterationLists ==
    iter # None =>
        /\ iter.repeated => iter.added
        /\ (\A k \in Present(disk) : FilesBefore(k) # iter.offset) /\ ~iter.removed =>
              iter.began \subseteq iter.listed
=============================================================================
