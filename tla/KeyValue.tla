------------------------------ MODULE KeyValue ------------------------------
(***************************************************************************)
(* What the fskv calls promise a script: a store that is changed by one     *)
(* call at a time, and in which a call takes effect once or not at all,     *)
(* also when the power fails in the middle.  A clear is the exception: when *)
(* it does not succeed, what the store held earlier may come back.  Fskv    *)
(* implements it with files.                                                *)
(***************************************************************************)
EXTENDS Integers

CONSTANTS
    Key,
    Scalar,    \* strings, numbers and booleans
    Empty,     \* the empty string
    Field,     \* keys of tables
    None,      \* nil
    Long,      \* values too long to be kept in the directory
    MayFail    \* can the flash fail, or be full?

VARIABLES
    store,     \* what get returns for each key
    older,     \* what it once returned, and may return again
    call,      \* the call that is running, or None
    answer,    \* what the call that has ended returned, if that is a Boolean
    got        \* what it returned if it is a get

storeVars == <<store, older, call, answer, got>>

Table == [Field -> Scalar \cup {None}]
Value == Scalar \cup Table

Calls ==
    [type : {"set"}, key : Key, value : Value]
      \cup [type : {"sett"}, key : Key, field : Field, value : Scalar \cup {None}]
      \cup [type : {"del"}, key : Key]
      \cup [type : {"clear"}]

NoFields == [f \in Field |-> None]

(* What sett stores under a key that holds old. *)
WithField(old, field, x) ==
    [(IF old \in Table THEN old ELSE NoFields) EXCEPT ![field] = x]

(* An empty string cannot be told from nothing. *)
Seen(v) == IF v = Empty THEN None ELSE v

(* The stores a call may lead to when it takes effect.  A table that cannot *)
(* be read is replaced by one that has only the new field.                  *)
Effects(c) ==
    CASE c.type = "set" -> {[store EXCEPT ![c.key] = Seen(c.value)]}
      [] c.type = "sett" ->
           {[store EXCEPT ![c.key] = WithField(old, c.field, c.value)] :
              old \in {store[c.key]} \cup (IF MayFail THEN {None} ELSE {})}
      [] c.type = "del" -> {[store EXCEPT ![c.key] = None]}
      [] c.type = "clear" -> {[k \in Key |-> None]}

(* The stores a clear may lead to when it does not take effect.  A long     *)
(* value that comes back may read as anything.                              *)
Restored ==
    {s \in [Key -> Value \cup {None}] : \A k \in Key :
       s[k] \in {store[k], older[k]}
                 \cup (IF older[k] \in Long THEN Value \cup {None} ELSE {})}

Leaves(c) == IF c.type = "clear" THEN Restored ELSE {store}

StoreInit ==
    /\ store = [k \in Key |-> None]
    /\ older = store
    /\ call = None
    /\ answer = None /\ got = None

Begin(c) ==
    /\ call = None
    /\ call' = c
    /\ answer' = None /\ got' = None
    /\ UNCHANGED <<store, older>>

(* What the store is becomes what it was. *)
Ages == older' \in {older, store, store'}

(* The call takes effect and returns true, or a failure if there was one. *)
Done ==
    /\ call # None
    /\ store' \in Effects(call)
    /\ answer' \in {TRUE} \cup (IF MayFail THEN {FALSE} ELSE {})
    /\ call' = None
    /\ Ages
    /\ UNCHANGED got

(* The call fails, which may be returned as success. *)
Fails ==
    /\ call # None
    /\ MayFail
    /\ store' \in Leaves(call)
    /\ answer' \in BOOLEAN
    /\ call' = None
    /\ Ages
    /\ UNCHANGED got

(* Within a call. *)
AgesOnly == Ages /\ UNCHANGED <<store, call, answer, got>>

(* A value of a kind, or of a length, that cannot be stored. *)
Refuse ==
    /\ call = None
    /\ answer' = FALSE /\ got' = None
    /\ UNCHANGED <<store, older, call>>

Get(k, field) ==
    /\ call = None
    /\ got' \in {IF store[k] \in Table /\ field \in Field
                 THEN store[k][field] ELSE store[k]}
                  \cup (IF MayFail THEN {None} ELSE {})
    /\ answer' = None
    /\ UNCHANGED <<store, older, call>>

(* The power fails, before or after the effect of the running call. *)
PowerFails ==
    /\ \/ UNCHANGED <<store, older>>
       \/ call # None /\ store' \in Effects(call) \cup Leaves(call) /\ Ages
    /\ call' = None
    /\ answer' = None /\ got' = None

(* A file system that cannot be read at start-up is formatted, which may    *)
(* fail as well.                                                            *)
LosesAll ==
    /\ MayFail /\ call = None
    /\ store' \in Restored \cup {[k \in Key |-> None]}
    /\ Ages
    /\ UNCHANGED <<call, answer, got>>

StoreNext ==
    \/ \E c \in Calls : Begin(c)
    \/ Done
    \/ Fails
    \/ AgesOnly
    \/ Refuse
    \/ \E k \in Key, field \in Field \cup {None} : Get(k, field)
    \/ PowerFails
    \/ LosesAll

StoreSpec == StoreInit /\ [][StoreNext]_storeVars
=============================================================================
