------------------------------- MODULE Memory -------------------------------
(***************************************************************************)
(* The writes of EB::Windows::Memory (win/memory.cpp), of this process or, *)
(* through a handle, of another one.  write makes the pages it touches     *)
(* writable, stores, and gives all of them the protection the first one    *)
(* had; nothing keeps a second thread from doing the same in between, and  *)
(* of no system call is it looked at whether it failed.                    *)
(*                                                                         *)
(* A cell stands for the bytes of one instruction, or of an operand.  The  *)
(* first CodeSize cells are code that was there before; the others are     *)
(* pages that VirtualAlloc returns, which always may be written.  What a   *)
(* thread has yet to do is a sequence of operations.                       *)
(***************************************************************************)
EXTENDS Integers, Sequences, FiniteSets

CONSTANTS Threads,
          CodeSize,      \* the cells of code
          Cells,         \* all cells
          PageSize,      \* cells of a page
          Protections    \* protections the pages of the code may have

Pages == 1..((CodeSize + PageSize - 1) \div PageSize)

ASSUME MemoryAssumption ==
    /\ IsFiniteSet(Threads)
    /\ CodeSize \in Nat /\ Cells \in Nat /\ CodeSize <= Cells /\ PageSize \in Nat \ {0}
    /\ Protections \subseteq [Pages -> {"rx", "rwx"}]

VARIABLES
    memory,        \* the cells
    protect,       \* protection of each page of the code
    first_protect, \* history: the one it had in the beginning
    internal,      \* whether it is the memory of this process
    todo,          \* what each thread has yet to do
    stored,        \* cells its present write has stored
    old_protect,   \* its local of that name
    buffer,        \* the bytes it has read (stolenBytes)
    crashed,       \* a store faulted and ended the process
    mixed,         \* history: pages a write has given another page's protection
    disturbed      \* history: two threads used the same page, function or jump
                   \* bytes at once, or a system call has failed

page_vars == <<protect, old_protect, mixed>>

PagesOf(addr, size) == {((a - 1) \div PageSize) + 1 : a \in addr..(addr + size - 1)} \cap Pages

Op(op, addr, size, arg) == [op |-> op, addr |-> addr, size |-> size, arg |-> arg]

Nop_int3 == <<"int3", 0>>
Nop == <<"nop", 0>>

write_unrestored(addr, source, size) ==
    << Op("protect", addr, size, ""), Op("store", addr, size, source) >>

write_unprotected(addr, source, size) ==
    << Op("store", addr, size, source), Op("restore", addr, size, "") >>

write(addr, source, size) ==
    << Op("protect", addr, size, ""), Op("store", addr, size, source), Op("restore", addr, size, "") >>

fill_with_nop(addr, size) == write(addr, "nop", size)

MemoryInit ==
    /\ protect \in Protections /\ first_protect = protect
    /\ internal \in BOOLEAN
    /\ todo = [t \in Threads |-> <<>>]
    /\ stored = [t \in Threads |-> 0]
    /\ old_protect = [t \in Threads |-> "rwx"]
    /\ buffer = [t \in Threads |-> <<>>]
    /\ crashed = FALSE /\ mixed = {} /\ disturbed = FALSE

Does(t, op) == ~ crashed /\ todo[t] # <<>> /\ Head(todo[t]).op = op
Done(t) == todo' = [todo EXCEPT ![t] = Tail(@)]

-----------------------------------------------------------------------------
(* The pages a thread has made writable and not yet given back.            *)
Unprotected(t) ==
    LET open == {i \in 1..Len(todo[t]) : todo[t][i].op = "restore"
                     /\ \A k \in 1..i : todo[t][k].op # "protect"}
    IN  UNION {PagesOf(todo[t][i].addr, todo[t][i].size) : i \in open}

Protect(t) ==
    /\ Does(t, "protect")
    /\ LET op    == Head(todo[t])
           pages == PagesOf(op.addr, op.size)
           first == CHOOSE p \in pages : \A q \in pages : p <= q
       IN  /\ protect' = [p \in Pages |-> IF p \in pages THEN "rwx" ELSE protect[p]]
           /\ old_protect' = [old_protect EXCEPT ![t] =
                                  IF pages = {} THEN "rwx" ELSE protect[first]]
           /\ mixed' = mixed \cup {p \in pages : protect[p] # protect[first]}
           /\ disturbed' = (disturbed \/ \E u \in Threads \ {t} : pages \cap Unprotected(u) # {})
    /\ Done(t)
    /\ UNCHANGED <<memory, first_protect, internal, stored, buffer, crashed>>

Restore(t) ==
    /\ Does(t, "restore")
    /\ protect' = [p \in Pages |-> IF p \in PagesOf(Head(todo[t]).addr, Head(todo[t]).size)
                                   THEN old_protect[t] ELSE protect[p]]
    /\ old_protect' = [old_protect EXCEPT ![t] = "rwx"]
    /\ Done(t)
    /\ UNCHANGED <<memory, first_protect, internal, stored, buffer, crashed, mixed, disturbed>>

(* After a failed VirtualProtect old_protect is what it was: never set, or *)
(* no longer needed.                                                       *)
ProtectFails(t) ==
    /\ Does(t, "protect") \/ Does(t, "restore")
    /\ \E unset \in {"rx", "rwx"} :
          old_protect' = [old_protect EXCEPT ![t] =
                             IF Head(todo[t]).op = "protect" THEN unset ELSE "rwx"]
    /\ disturbed' = TRUE
    /\ Done(t)
    /\ UNCHANGED <<memory, protect, mixed, first_protect, internal, stored, buffer, crashed>>

Writable(addr, size) == \A p \in PagesOf(addr, size) : protect[p] = "rwx"

(* A thread of the process itself stores cell by cell, or faults.          *)
Store(t, bytes) ==
    /\ Does(t, "store") /\ internal
    /\ LET op == Head(todo[t])
           addr == op.addr + stored[t]
       IN  \/ /\ Writable(addr, 1)
              /\ memory' = [memory EXCEPT ![addr] = bytes[stored[t] + 1]]
              /\ IF stored[t] + 1 < op.size
                 THEN stored' = [stored EXCEPT ![t] = @ + 1] /\ UNCHANGED todo
                 ELSE stored' = [stored EXCEPT ![t] = 0] /\ Done(t)
              /\ UNCHANGED crashed
           \/ /\ ~ Writable(addr, 1)
              /\ crashed' = TRUE
              /\ UNCHANGED <<memory, stored, todo>>
    /\ UNCHANGED <<page_vars, first_protect, internal, buffer, disturbed>>

(* WriteProcessMemory stores all of it, or fails on the way.               *)
StoreExternal(t, bytes) ==
    /\ Does(t, "store") /\ ~ internal
    /\ LET op == Head(todo[t])
       IN  \E n \in 0..op.size :
              /\ Writable(op.addr, n)
              /\ memory' = [a \in 1..Cells |-> IF a \in op.addr..(op.addr + n - 1)
                                               THEN bytes[a - op.addr + 1] ELSE memory[a]]
              /\ disturbed' = (disturbed \/ n < op.size)
    /\ Done(t)
    /\ UNCHANGED <<page_vars, first_protect, internal, stored, buffer, crashed>>

(* So does ReadProcessMemory, and leaves the other bytes of the buffer as  *)
(* the allocator gave them.                                                *)
Unset == <<"none", 0>>

Read(t) ==
    /\ Does(t, "read")
    /\ LET op == Head(todo[t])
       IN  \E n \in 0..op.size :
              /\ internal => n = op.size
              /\ buffer' = [buffer EXCEPT ![t] =
                     [i \in 1..op.size |-> IF i <= n THEN memory[op.addr + i - 1] ELSE Unset]]
              /\ disturbed' = (disturbed \/ n < op.size)
    /\ Done(t)
    /\ UNCHANGED <<memory, page_vars, first_protect, internal, stored, crashed>>

=============================================================================
