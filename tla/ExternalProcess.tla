--------------------------- MODULE ExternalProcess --------------------------
(***************************************************************************)
(* EB::Windows::Process::ExternalProcess (win/process.h, win/process.cpp): *)
(* an object for another process, found by its id or its name, and the     *)
(* lists of its modules and threads, while processes end, start, and are   *)
(* given ids that were in use before.  One snapshot is one look at the     *)
(* system; load_thread_list by NtQuerySystemInformation looks twice.       *)
(*                                                                         *)
(* A process is a number that is never used again, in the order of their   *)
(* start.  Its modules are one entry of the list.                          *)
(***************************************************************************)
EXTENDS Integers, SequencesExt

CONSTANTS Ids,           \* process ids
          IdleId,        \* the id 0 of Windows: its process never ends, and a snapshot
                         \* of the modules of 0 is one of the caller's
          Names,         \* names of executables
          MaxProcesses,  \* bound on the processes that are ever started
          MaxThreads,    \* bound on the threads a process ever starts
          MaxUnwritten,  \* bound on the threads read from a buffer nobody wrote
          MaxOperations  \* bound on the operations on objects

None == 0

(* The process that uses the object, and what is pushed for a thread that  *)
(* was read from a buffer nobody wrote.                                    *)
Caller == MaxProcesses + 1
Unwritten == <<None, None>>

ASSUME ProcessAssumption ==
    /\ None \notin Ids
    /\ MaxProcesses \in Nat /\ MaxThreads \in Nat \ {0} /\ MaxOperations \in Nat
    /\ MaxUnwritten \in Nat

VARIABLES
    running,       \* the process that has each id, or None
    name_of,       \* the name of each process started
    threads,       \* the threads of each that run, by number
    spawned,       \* the threads each has started
    object,        \* whether there is an ExternalProcess
    process_info,  \* the id it has found, or None for a null pointer
    module_list,   \* the process whose modules each entry names
    thread_list,   \* the threads in the list, as <<process, number>>
    buffer_len,    \* the length NtQuerySystemInformation asked for, or -1
    operations,    \* operations so far
    entries,       \* PROCESSENTRY32W objects that have not been deleted
    lost,          \* history: searches that found nothing
    found,         \* history: the process that was found
    reused,        \* history: its id has been given to another process
    appended,      \* history: a list was added to one that was there
    unwritten,     \* history: threads in the list were read from a buffer nobody wrote
    wild           \* the null pointer or unwritten buffer that ended the program

system_vars == <<running, name_of, threads, spawned>>
object_vars == <<object, process_info, module_list, thread_list>>
find_vars   == <<entries, lost, found>>
process_vars == <<system_vars, object_vars, buffer_len, operations, find_vars, reused,
                  appended, unwritten, wild>>

ProcessInit ==
    /\ running = [i \in Ids |-> None]
    /\ name_of = <<>> /\ threads = <<>> /\ spawned = <<>>
    /\ object = FALSE /\ process_info = None
    /\ module_list = <<>> /\ thread_list = <<>>
    /\ buffer_len = -1 /\ operations = 0
    /\ entries = 0 /\ lost = 0 /\ found = None
    /\ reused = FALSE /\ appended = FALSE /\ unwritten = FALSE /\ wild = "no"

-----------------------------------------------------------------------------
(* The system.                                                             *)

StartProcess(i, name) ==
    /\ running[i] = None /\ Len(name_of) < MaxProcesses
    /\ running' = [running EXCEPT ![i] = Len(name_of) + 1]
    /\ name_of' = Append(name_of, name)
    /\ threads' = Append(threads, {1})
    /\ spawned' = Append(spawned, 1)
    /\ reused' = (reused \/ (object /\ process_info = i))
    /\ UNCHANGED <<object_vars, buffer_len, operations, find_vars, appended, unwritten, wild>>

EndProcess(i) ==
    /\ running[i] # None /\ i # IdleId
    /\ threads' = [threads EXCEPT ![running[i]] = {}]
    /\ running' = [running EXCEPT ![i] = None]
    /\ UNCHANGED <<name_of, spawned, object_vars, buffer_len, operations, find_vars, reused,
                   appended, unwritten, wild>>

StartThread(i) ==
    /\ running[i] # None
    /\ LET p == running[i]
       IN  /\ spawned[p] < MaxThreads
           /\ spawned' = [spawned EXCEPT ![p] = @ + 1]
           /\ threads' = [threads EXCEPT ![p] = @ \cup {spawned[p] + 1}]
    /\ UNCHANGED <<running, name_of, object_vars, buffer_len, operations, find_vars, reused,
                   appended, unwritten, wild>>

EndThread(i, k) ==
    /\ running[i] # None /\ k \in threads[running[i]] /\ threads[running[i]] # {k}
    /\ threads' = [threads EXCEPT ![running[i]] = @ \ {k}]
    /\ UNCHANGED <<running, name_of, spawned, object_vars, buffer_len, operations, find_vars,
                   reused, appended, unwritten, wild>>

System ==
    \E i \in Ids :
        \/ \E name \in Names : StartProcess(i, name)
        \/ EndProcess(i) \/ StartThread(i)
        \/ \E k \in 1..MaxThreads : EndThread(i, k)

-----------------------------------------------------------------------------
(* The object.                                                             *)

Operate == wild = "no" /\ buffer_len = -1 /\ operations < MaxOperations
           /\ operations' = operations + 1

(* The entry the search fills is kept by the object if it holds what was   *)
(* searched for, and is not deleted otherwise, or without a snapshot.      *)
Find(matches) ==
    /\ ~ object /\ Operate
    /\ object' = TRUE
    /\ entries' = entries + 1
    /\ \/ \E i \in matches : process_info' = i /\ found' = running[i] /\ UNCHANGED lost
       \/ process_info' = None /\ found' = None /\ lost' = lost + 1
    /\ matches # {} \/ process_info' = None
    /\ module_list' = <<>> /\ thread_list' = <<>>
    /\ reused' = FALSE /\ appended' = FALSE /\ unwritten' = FALSE
    /\ UNCHANGED <<system_vars, buffer_len, wild>>

FindById(id) == Find({i \in Ids : i = id /\ running[i] # None})

FindByName(name) == Find({i \in Ids : running[i] # None /\ name_of[running[i]] = name})

entries_after_delete_kept == entries
entries_after_delete == IF process_info = None THEN entries ELSE entries - 1

Delete ==
    /\ object /\ Operate
    /\ object' = FALSE
    /\ entries' = entries_after_delete
    /\ process_info' = None /\ module_list' = <<>> /\ thread_list' = <<>>
    /\ found' = None /\ reused' = FALSE /\ appended' = FALSE
    /\ unwritten' = FALSE
    /\ UNCHANGED <<system_vars, buffer_len, lost, wild>>

MayLoad_unchecked == object
MayLoad == object /\ process_info # None

(* Every look at process_info through the id it holds.                     *)
Id == IF process_info = None THEN CHOOSE i \in Ids : TRUE ELSE process_info

(* A snapshot of the modules of a process that has ended fails, and leaves *)
(* the list alone; a walk that cannot begin leaves an empty one.           *)
listed(id) == IF id = IdleId THEN Caller ELSE running[id]

LoadModules ==
    /\ MayLoad /\ Operate
    /\ wild' = IF process_info = None THEN "load" ELSE "no"
    /\ \/ running[Id] # None /\ module_list' \in {<<>>, <<listed(Id)>>}
       \/ UNCHANGED module_list
    /\ UNCHANGED <<system_vars, object, process_info, thread_list, buffer_len, find_vars,
                   reused, appended, unwritten>>

(* The threads of the system, as <<process, number>>, and those that the   *)
(* process with the id of the object has, in the order of the snapshot,    *)
(* about which nothing is promised.                                        *)
AllThreads == UNION {{p} \X threads[p] : p \in DOMAIN threads}

owned_by_any == SetToSeq(AllThreads)
owned == SetToSeq({th \in AllThreads : th[1] = running[Id]})

kept_before_load(list) == list
cleared(list) == <<>>

LoadThreads ==
    /\ MayLoad /\ Operate
    /\ wild' = IF process_info = None THEN "load" ELSE "no"
    /\ \/ /\ \/ thread_list' = cleared(thread_list) \o owned
             \/ thread_list' = cleared(thread_list)
          /\ appended' = FALSE /\ unwritten' = FALSE
       \/ UNCHANGED <<thread_list, appended, unwritten>>
    /\ UNCHANGED <<system_vars, object, process_info, module_list, buffer_len, find_vars,
                   reused>>

(* NtQuerySystemInformation is first asked how long its answer is,         *)
QueryLength ==
    /\ MayLoad /\ Operate
    /\ wild' = IF process_info = None THEN "load" ELSE "no"
    /\ buffer_len' = Cardinality(AllThreads)
    /\ UNCHANGED <<system_vars, object_vars, find_vars, reused, appended, unwritten>>

(* and then for the answer, which may have outgrown the buffer meanwhile;  *)
(* the result is not looked at, and what the buffer holds is read all the  *)
(* same: entries are made of it, or it leads out of the buffer.  The list  *)
(* is not cleared.                                                         *)
QueryThreads ==
    /\ buffer_len # -1 /\ wild = "no"
    /\ \/ /\ Cardinality(AllThreads) <= buffer_len
          /\ thread_list' = thread_list \o owned
          /\ UNCHANGED <<unwritten, wild>>
       \/ \E n \in 0..MaxUnwritten :
              /\ thread_list' = thread_list \o [k \in 1..n |-> Unwritten]
              /\ unwritten' = (unwritten \/ n > 0)
              /\ UNCHANGED wild
       \/ wild' = "buffer" /\ UNCHANGED <<thread_list, unwritten>>
    /\ appended' = (appended \/ thread_list # <<>>)
    /\ buffer_len' = -1
    /\ UNCHANGED <<system_vars, object, process_info, module_list, operations, find_vars,
                   reused>>

(* get_process_handle does not ask whether there is an id.                 *)
GetProcessHandle ==
    /\ object /\ Operate
    /\ wild' = IF process_info = None THEN "handle" ELSE "no"
    /\ UNCHANGED <<system_vars, object_vars, buffer_len, find_vars, reused, appended,
                   unwritten>>

Object ==
    \/ \E id \in Ids : FindById(id)
    \/ \E name \in Names : FindByName(name)
    \/ Delete \/ LoadModules \/ LoadThreads \/ QueryLength \/ QueryThreads \/ GetProcessHandle

ProcessNext == System \/ Object

ProcessSpec == ProcessInit /\ [][ProcessNext]_process_vars

-----------------------------------------------------------------------------
(* Properties.                                                             *)

(* Every variable has its type.                                            *)
ProcessTypeOK ==
    /\ Len(name_of) <= MaxProcesses
    /\ running \in [Ids -> 0..Len(name_of)]
    /\ DOMAIN threads = DOMAIN name_of /\ DOMAIN spawned = DOMAIN name_of
    /\ \A p \in DOMAIN threads : threads[p] \subseteq 1..spawned[p] /\ spawned[p] <= MaxThreads
    /\ object \in BOOLEAN /\ process_info \in Ids \cup {None}
    /\ buffer_len \in Int /\ buffer_len >= -1 /\ operations \in 0..MaxOperations
    /\ lost \in 0..MaxOperations /\ found \in 0..Len(name_of)
    /\ reused \in BOOLEAN /\ appended \in BOOLEAN /\ unwritten \in BOOLEAN
    /\ wild \in {"no", "load", "buffer", "handle"}

(***************************************************************************)
(* The lists name modules and threads of the process that was found, and   *)
(* of no other, as long as its id has not been given to another process:   *)
(* also after it has ended, and however often they are loaded.  No thread  *)
(* is in the list twice unless NtQuerySystemInformation has added to it.   *)
(* Nothing is said of the modules of the process with the id 0, nor of the *)
(* threads that an answer too long for its buffer has left in the list,    *)
(* until a snapshot clears it.                                             *)
(***************************************************************************)
ListsAreOfTheProcess ==
    /\ ~ reused =>
        /\ process_info # IdleId => \A i \in DOMAIN module_list : module_list[i] = found
        /\ ~ unwritten => \A i \in DOMAIN thread_list : thread_list[i][1] = found
    /\ ~ appended /\ ~ unwritten =>
        \A i, j \in DOMAIN thread_list : thread_list[i] = thread_list[j] => i = j

(***************************************************************************)
(* An entry is kept for as long as the object that found its process, and  *)
(* every other one is that of a search that found nothing.  An object of   *)
(* such a search refuses to load its lists; get_process_handle is the only *)
(* operation that reads its null pointer.                                  *)
(***************************************************************************)
OnlyFailedSearchesLeak ==
    /\ entries = lost + (IF object /\ process_info # None THEN 1 ELSE 0)
    /\ wild # "load"
    /\ wild = "handle" => object /\ process_info = None

=============================================================================
