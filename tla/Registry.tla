------------------------------ MODULE Registry ------------------------------
(***************************************************************************)
(* EB::Windows::Registry (win/registry.cpp): threads that read a string    *)
(* from the registry.  The type and the size of the value are queried      *)
(* first and its data then, and any process may change it in between.  All *)
(* threads leave their error in the same variable.                         *)
(*                                                                         *)
(* A value is a type and data, a sequence of characters; the data of a     *)
(* string may or may not end with a NUL, and may hold others.              *)
(***************************************************************************)
EXTENDS Integers, Sequences

NUL == "NUL"

CONSTANTS Readers,
          Characters,   \* of the texts, NUL among them
          Values,       \* what the value may be
          NoValue,      \* there is none
          MaxChanges,   \* bound on the changes other processes make
          MaxReads      \* bound on the calls

ASSUME RegistryAssumption ==
    /\ MaxChanges \in Nat /\ MaxReads \in Nat
    /\ NUL \in Characters
    /\ Values \subseteq [type : STRING, data : Seq(Characters)]
    /\ NoValue \notin Values

VARIABLES
    value,             \* the value now, or NoValue
    changes,           \* changes made so far
    read_pc,           \* where each thread is
    hkeys,             \* the keys that are open, by the threads that opened them
    data_size,         \* the size each has been told
    result,            \* what the last call of each returned
    last_error_code,   \* _last_error_code
    reads,             \* calls made so far
    seen,              \* history: the values the present call may have read
    error_disturbed    \* history: whether another thread has left its error
                       \* since this thread has left its own

registry_vars == <<value, changes, read_pc, hkeys, data_size, result, last_error_code, reads,
                   seen, error_disturbed>>

RegistryInit ==
    /\ value \in Values \cup {NoValue} /\ changes = 0
    /\ read_pc = [t \in Readers |-> "idle"]
    /\ hkeys = {}
    /\ data_size = [t \in Readers |-> 0]
    /\ result = [t \in Readers |-> [code |-> "NONE", text |-> <<>>]]
    /\ last_error_code = "NONE" /\ reads = 0
    /\ seen = [t \in Readers |-> {}]
    /\ error_disturbed = [t \in Readers |-> FALSE]

ReadGoto(t, from, to) ==
    /\ read_pc[t] = from
    /\ read_pc' = [read_pc EXCEPT ![t] = to]

(* Another process sets the value, or deletes it.                          *)
Change ==
    /\ changes < MaxChanges
    /\ changes' = changes + 1
    /\ value' \in (Values \cup {NoValue}) \ {value}
    /\ seen' = [t \in Readers |-> IF read_pc[t] = "idle" THEN {} ELSE seen[t] \cup {value'}]
    /\ UNCHANGED <<read_pc, hkeys, data_size, result, last_error_code, reads, error_disturbed>>

-----------------------------------------------------------------------------
(* Each return but the first closes the key and leaves an error.           *)
closed_never(keys, t) == keys
closed(keys, t) == keys \ {t}

error_left_if_any(code) == IF code = "NONE" THEN last_error_code ELSE code
error_left(code) == code

ReturnFrom(t, from, code, text) ==
    /\ ReadGoto(t, from, "idle")
    /\ hkeys' = closed(hkeys, t)
    /\ result' = [result EXCEPT ![t] = [code |-> code, text |-> text]]
    /\ last_error_code' = error_left(code)
    /\ error_disturbed' = [u \in Readers |-> u # t]
    /\ UNCHANGED <<value, changes, data_size, reads, seen>>

OpenKey(t) ==
    /\ ReadGoto(t, "idle", "query") /\ reads < MaxReads
    /\ reads' = reads + 1
    /\ hkeys' = hkeys \cup {t}
    /\ seen' = [seen EXCEPT ![t] = {value}]
    /\ UNCHANGED <<value, changes, data_size, result, last_error_code, error_disturbed>>

OpenKeyFails(t) ==
    /\ ReadGoto(t, "idle", "idle") /\ reads < MaxReads
    /\ reads' = reads + 1
    /\ result' = [result EXCEPT ![t] = [code |-> "READ_ERROR", text |-> <<>>]]
    /\ last_error_code' = "READ_ERROR"
    /\ error_disturbed' = [u \in Readers |-> u # t]
    /\ seen' = [seen EXCEPT ![t] = {value}]
    /\ UNCHANGED <<value, changes, hkeys, data_size>>

QuerySize(t) ==
    \/ value = NoValue /\ ReturnFrom(t, "query", "READ_ERROR", <<>>)
    \/ /\ value # NoValue /\ value.type # "REG_SZ"
       /\ ReturnFrom(t, "query", "INCORRECT_VALUE_TYPE_ERROR", <<>>)
    \/ /\ value # NoValue /\ value.type = "REG_SZ"
       /\ ReadGoto(t, "query", "read")
       /\ data_size' = [data_size EXCEPT ![t] = Len(value.data)]
       /\ UNCHANGED <<value, changes, hkeys, result, last_error_code, reads, seen,
                      error_disturbed>>

(* The characters before the first NUL.                                    *)
up_to_last_null(text) ==
    LET nulls == {i \in 1..Len(text) : text[i] = NUL}
    IN  IF Len(text) \in nulls THEN SubSeq(text, 1, Len(text) - 1) ELSE text

up_to_null(text) ==
    LET nulls == {i \in 1..Len(text) : text[i] = NUL}
    IN  IF nulls = {} THEN text
        ELSE SubSeq(text, 1, (CHOOSE i \in nulls : \A k \in nulls : i <= k) - 1)

(***************************************************************************)
(* Data that has grown does not fit and is not read.  Data that has shrunk *)
(* is followed by the NULs the string was made of.  Its type is not looked *)
(* at again.                                                               *)
(***************************************************************************)
ReadData(t) ==
    LET size == data_size[t]
    IN  \/ /\ value = NoValue \/ (value # NoValue /\ Len(value.data) > size)
           /\ ReturnFrom(t, "read", "READ_ERROR", <<>>)
        \/ /\ value # NoValue /\ Len(value.data) <= size
           /\ ReturnFrom(t, "read", "NONE", up_to_null(
                  [i \in 1..size |-> IF i <= Len(value.data) THEN value.data[i] ELSE NUL]))

RegistryNext ==
    \/ Change
    \/ \E t \in Readers : OpenKey(t) \/ OpenKeyFails(t) \/ QuerySize(t) \/ ReadData(t)

RegistrySpec == RegistryInit /\ [][RegistryNext]_registry_vars

-----------------------------------------------------------------------------
(* Properties.                                                             *)

Codes == {"NONE", "READ_ERROR", "INCORRECT_VALUE_TYPE_ERROR"}

(* Every variable has its type; an error comes with no text, and no text   *)
(* holds a NUL.                                                            *)
RegistryTypeOK ==
    /\ value \in Values \cup {NoValue}
    /\ changes \in 0..MaxChanges /\ reads \in 0..MaxReads
    /\ read_pc \in [Readers -> {"idle", "query", "read"}]
    /\ hkeys \subseteq Readers /\ data_size \in [Readers -> Nat]
    /\ last_error_code \in Codes
    /\ error_disturbed \in [Readers -> BOOLEAN]
    /\ seen \in [Readers -> SUBSET (Values \cup {NoValue})]
    /\ result \in [Readers -> [code : Codes, text : Seq(Characters)]]
    /\ \A t \in Readers : /\ result[t].code # "NONE" => result[t].text = <<>>
                          /\ \A i \in 1..Len(result[t].text) : result[t].text[i] # NUL

(* A key is open exactly while a call uses it, on every way out of it.     *)
KeysAreClosed == hkeys = {t \in Readers : read_pc[t] # "idle"}

IsCString(text, data) ==
    /\ Len(text) <= Len(data)
    /\ \A i \in 1..Len(text) : text[i] # NUL /\ text[i] = data[i]
    /\ Len(text) < Len(data) => data[Len(text) + 1] = NUL

(***************************************************************************)
(* A text that is returned is that of one value the key held during the    *)
(* call: never a mixture of two, never more than the part before the first *)
(* NUL, and never of a value that was no string, unless it became one of   *)
(* another type between the two queries.                                   *)
(***************************************************************************)
TextIsOfOneValue ==
    \A t \in Readers :
        read_pc[t] = "idle" /\ seen[t] # {} /\ result[t].code = "NONE" =>
            /\ \E v \in seen[t] \ {NoValue} : IsCString(result[t].text, v.data)
            /\ \E v \in seen[t] \ {NoValue} : v.type = "REG_SZ"

(***************************************************************************)
(* The error a caller asks for after a call is that call's, unless another *)
(* thread's call has returned in between.                                  *)
(***************************************************************************)
ErrorIsOwn ==
    \A t \in Readers :
        ~ error_disturbed[t] /\ read_pc[t] = "idle" => last_error_code = result[t].code

(***************************************************************************)
(* Every way out of a call closes the key it opened, and leaves its error. *)
(***************************************************************************)
ReturnsAreClean == KeysAreClosed /\ ErrorIsOwn

=============================================================================
