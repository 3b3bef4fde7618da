-------------------------------- MODULE Hook --------------------------------
(***************************************************************************)
(* EB::Windows::Hook (win/hook.cpp): functions that are made to go         *)
(* elsewhere by a jump written over their first bytes.  The jump is made   *)
(* up in an array that all threads share, whose operand absolute_jmp (or,  *)
(* in a 32-bit build, relative_jmp) overwrites before each write.          *)
(* trampoline keeps the bytes it overwrites, puts them into new memory     *)
(* and a jump back behind them: the function that was hooked.              *)
(***************************************************************************)
EXTENDS Memory

CONSTANTS Functions,   \* where the functions begin in the code
          Sizes,       \* the sizes hooks are called with
          MaxCalls,    \* bound on the calls
          Kinds        \* kinds of jumps: {"absolute"} in a 64-bit build,
                       \* {"absolute", "relative"} in a 32-bit one

(* The bytes a hook overwrites are there.                                  *)
ASSUME HookAssumption ==
    /\ Functions \subseteq Nat \ {0} /\ Sizes \subseteq Nat /\ MaxCalls \in Nat
    /\ \A function \in Functions, size \in Sizes : function + size - 1 <= Cells
    /\ Kinds \subseteq {"absolute", "relative"}

(* The caller says how many bytes a hook overwrites: they are bytes of the *)
(* function, and of no other one.                                          *)
ASSUME FunctionsAreApart ==
    /\ \A function \in Functions, size \in Sizes : function + size - 1 <= CodeSize
    /\ \A function, other \in Functions, size \in Sizes :
          function < other => function + size <= other

JUMP_HOOK_SIZE == 2    \* cells of a jump: its instruction and its operand

VARIABLES
    operand,   \* what is in ABSOLUTE_ and RELATIVE_JUMP_HOOK_BYTES
    call,      \* the call each thread is in, or NoCall
    calls,     \* number of calls so far
    before,    \* history: what the function did when its bytes were stolen
    log        \* history: the calls that have returned

hook_vars == <<operand, call, calls, before, log>>
hooking_vars == <<memory, page_vars, first_protect, internal, todo, stored, buffer, crashed, disturbed,
          hook_vars>>

NoCall == [function |-> 0, size |-> 0, target |-> 0, kind |-> "absolute", original |-> 0,
           movable |-> TRUE, before |-> <<>>]

(* Functions are straight code that ends with a return: no branches.       *)
HookInit ==
    /\ memory = [a \in 1..Cells |->
          IF a > CodeSize THEN <<"none", 0>>
          ELSE IF a = CodeSize \/ a + 1 \in Functions THEN <<"ret", 0>> ELSE <<"code", a>>]
    /\ MemoryInit
    /\ operand = [k \in Kinds |-> 0]
    /\ call = [t \in Threads |-> NoCall] /\ calls = 0
    /\ before = [t \in Threads |-> <<>>]
    /\ log = <<>>

(* An absolute jump loads its target into a register (edi, or r10 in a     *)
(* 64-bit build) and goes where the register says.                         *)
Loads(kind) == IF kind = "absolute" THEN << <<"load", 0>> >> ELSE <<>>

(* What runs from an address, given what runs afterwards: code, the        *)
(* registers that jumps load, and the hook function it ends up in.  Hook   *)
(* functions have the negative addresses, and the fuel ends a circle of    *)
(* jumps.                                                                  *)
RunsOn(cells, fuel, afterwards) ==
    [addr \in Int |->
        IF addr < 0 THEN << <<"hook", addr>> >>
        ELSE IF fuel = 0 \/ addr \notin DOMAIN cells THEN << <<"lost", 0>> >>
        ELSE LET cell == cells[addr]
             IN  IF cell[1] = "code" THEN <<cell>> \o afterwards[addr + 1]
                 ELSE IF cell[1] = "nop" THEN afterwards[addr + 1]
                 ELSE IF cell[1] = "absolute"
                      THEN Loads("absolute") \o afterwards[cells[addr + 1][2]]
                 ELSE IF cell[1] = "relative"
                      THEN afterwards[addr + JUMP_HOOK_SIZE + cells[addr + 1][2]]
                 ELSE <<cell>>]

Runs(cells, entry) ==
    LET run[fuel \in 0..(2 * Cells)] == RunsOn(cells, fuel, run[fuel - 1])
    IN  run[2 * Cells][entry]

-----------------------------------------------------------------------------
(* The operations of a call.                                               *)

(* What memcpy puts behind the jump instruction.                           *)
operand_of(kind, from_addr, target_addr) ==
    IF kind = "absolute" THEN target_addr ELSE target_addr - from_addr - JUMP_HOOK_SIZE

jmp_of_stale_bytes(kind, from_addr, target_addr, size) ==
    write(from_addr, kind, JUMP_HOOK_SIZE)
    \o << Op("memcpy", 0, operand_of(kind, from_addr, target_addr), kind) >>
    \o IF size > JUMP_HOOK_SIZE
       THEN fill_with_nop(from_addr + JUMP_HOOK_SIZE, size - JUMP_HOOK_SIZE) ELSE <<>>

(* absolute_jmp and relative_jmp.                                          *)
jmp(kind, from_addr, target_addr, size) ==
    << Op("memcpy", 0, operand_of(kind, from_addr, target_addr), kind) >>
    \o write(from_addr, kind, JUMP_HOOK_SIZE)
    \o IF size > JUMP_HOOK_SIZE
       THEN fill_with_nop(from_addr + JUMP_HOOK_SIZE, size - JUMP_HOOK_SIZE) ELSE <<>>

trampoline_to_the_start(kind, from_addr, target_addr, size, original_func) ==
    << Op("read", from_addr, size, "") >>
    \o jmp(kind, from_addr, target_addr, size)
    \o << Op("alloc", 0, 0, "") >>
    \o write(original_func, "stolen", size)
    \o jmp(kind, original_func + size, from_addr, JUMP_HOOK_SIZE)

(* trampoline and trampoline_relative.                                     *)
trampoline(kind, from_addr, target_addr, size, original_func) ==
    << Op("read", from_addr, size, "") >>
    \o jmp(kind, from_addr, target_addr, size)
    \o << Op("alloc", 0, 0, "") >>
    \o write(original_func, "stolen", size)
    \o jmp(kind, original_func + size, from_addr + size, JUMP_HOOK_SIZE)

(* The memory the nth call of trampoline is given.                         *)
Allocated(n) == CodeSize + 1 + (n - 1) * ((Cells - CodeSize) \div MaxCalls)

(* VirtualAlloc returns memory no other call has, for the bytes that are   *)
(* moved and the jump back.                                                *)
ASSUME AllocationsFit ==
    MaxCalls # 0 => \A size \in Sizes : size >= JUMP_HOOK_SIZE =>
        size + JUMP_HOOK_SIZE <= (Cells - CodeSize) \div MaxCalls

-----------------------------------------------------------------------------
Others(t, function) == {u \in Threads \ {t} : call[u].function = function}

(* A size that does not hold a jump is refused.                            *)
Refuse(t, size) ==
    /\ ~ crashed /\ call[t] = NoCall /\ calls < MaxCalls
    /\ size < JUMP_HOOK_SIZE
    /\ calls' = calls + 1
    /\ UNCHANGED <<memory, page_vars, first_protect, internal, todo, stored, buffer, crashed,
                   disturbed, operand, call, before, log>>

(* There is no relative jump into another process.                         *)
Call(t, function, size, kind, keep) ==
    /\ ~ crashed /\ call[t] = NoCall /\ calls < MaxCalls
    /\ size >= JUMP_HOOK_SIZE
    /\ kind = "absolute" \/ internal \/ ~ keep
    /\ calls' = calls + 1
    /\ LET target   == -(calls + 1)
           original == Allocated(calls + 1)
       IN  /\ call' = [call EXCEPT ![t] = [NoCall EXCEPT
                           !.function = function, !.size = size, !.target = target,
                           !.kind = kind, !.original = IF keep THEN original ELSE 0]]
           /\ todo' = [todo EXCEPT ![t] =
                  IF keep THEN trampoline(kind, function, target, size, original)
                          ELSE jmp(kind, function, target, size)]
    /\ disturbed' = (disturbed \/ Others(t, function) # {})
    /\ UNCHANGED <<memory, page_vars, first_protect, internal, stored, buffer, crashed,
                   operand, before, log>>

(* The jump bytes another thread is about to write.                        *)
InUse(t, kind) ==
    \E i \in 1..Len(todo[t]) :
        /\ todo[t][i].op = "store" /\ todo[t][i].arg = kind
        /\ \A k \in 1..i : todo[t][k].op # "memcpy"

Memcpy(t) ==
    /\ Does(t, "memcpy")
    /\ operand' = [operand EXCEPT ![Head(todo[t]).arg] = Head(todo[t]).size]
    /\ disturbed' = (disturbed \/ \E u \in Threads \ {t} : InUse(u, Head(todo[t]).arg))
    /\ Done(t)
    /\ UNCHANGED <<memory, page_vars, first_protect, internal, stored, buffer, crashed,
                   call, calls, before, log>>

(* Without memory the writes go to address 0: they end this process, and   *)
(* fail in another one, whose function is hooked all the same; the jump    *)
(* back is put together nevertheless.                                      *)
Alloc(t) ==
    /\ Does(t, "alloc")
    /\ \/ Done(t) /\ UNCHANGED <<crashed, call, disturbed>>
       \/ /\ disturbed' = TRUE
          /\ IF internal THEN crashed' = TRUE /\ UNCHANGED <<todo, call>>
             ELSE /\ \E i \in 1..Len(todo[t]) :
                        /\ todo[t][i].op = "memcpy"
                        /\ todo' = [todo EXCEPT ![t] = << @[i] >>]
                  /\ call' = [call EXCEPT ![t].original = 0]
                  /\ UNCHANGED crashed
    /\ UNCHANGED <<memory, page_vars, first_protect, internal, stored, buffer,
                   operand, calls, before, log>>

Steal(t) ==
    /\ Read(t)
    /\ before' = [before EXCEPT ![t] = Runs(memory, call[t].function)]
    /\ UNCHANGED <<operand, call, calls, log>>

Bytes(t) ==
    LET op == Head(todo[t])
    IN  IF op.arg = "stolen" THEN buffer[t]
        ELSE IF op.arg = "nop" THEN [i \in 1..op.size |-> Nop]
        ELSE << <<op.arg, 0>>, <<"operand", operand[op.arg]>> >>

WriteStep(t) ==
    /\ \/ Protect(t) \/ Restore(t) \/ ProtectFails(t)
       \/ Store(t, Bytes(t)) \/ StoreExternal(t, Bytes(t))
    /\ UNCHANGED hook_vars

Return(t) ==
    /\ call[t] # NoCall /\ todo[t] = <<>> /\ ~ crashed
    /\ log' = Append(log, [call[t] EXCEPT
                  !.before  = before[t],
                  !.movable = \A i \in 1..Len(buffer[t]) : buffer[t][i][1] # "relative"])
    /\ call' = [call EXCEPT ![t] = NoCall]
    /\ before' = [before EXCEPT ![t] = <<>>]
    /\ buffer' = [buffer EXCEPT ![t] = <<>>]
    /\ UNCHANGED <<memory, page_vars, first_protect, internal, todo, stored, crashed, disturbed,
                   operand, calls>>

HookNext ==
    \E t \in Threads :
        \/ \E size \in Sizes : Refuse(t, size)
        \/ \E function \in Functions, size \in Sizes, kind \in Kinds, keep \in BOOLEAN :
               Call(t, function, size, kind, keep)
        \/ Memcpy(t) \/ Alloc(t) \/ Steal(t) \/ WriteStep(t) \/ Return(t)

HookSpec == HookInit /\ [][HookNext]_hooking_vars

-----------------------------------------------------------------------------
(* Properties.                                                             *)

(* Every variable has its type, and a thread outside calls does nothing.   *)
HookTypeOK ==
    /\ DOMAIN memory = 1..Cells
    /\ \A a \in 1..Cells : memory[a][1] \in
          {"none", "code", "ret", "nop", "operand", "absolute", "relative"}
    /\ protect \in [Pages -> {"rx", "rwx"}] /\ first_protect \in [Pages -> {"rx", "rwx"}]
    /\ old_protect \in [Threads -> {"rx", "rwx"}] /\ mixed \subseteq Pages
    /\ {internal, crashed, disturbed} \subseteq BOOLEAN
    /\ \A t \in Threads : call[t] = NoCall => todo[t] = <<>> /\ buffer[t] = <<>>
    /\ \A t \in Threads : stored[t] > 0 => todo[t] # <<>> /\ stored[t] < Head(todo[t]).size
    /\ calls \in 0..MaxCalls /\ Len(log) <= calls

(***************************************************************************)
(* Calls that follow each other, and calls of several threads whose        *)
(* functions, pages and jump bytes are never in use at once, undo what     *)
(* they do to the protection: a page no thread is writing has the one it   *)
(* had in the beginning, and no store faults.  Claimed as long as every    *)
(* system call succeeds, and not of pages that a write to several pages    *)
(* has given the protection of its first page.                             *)
(***************************************************************************)
ProtectionComesBack ==
    /\ ~ disturbed => \A p \in Pages \ mixed :
          (\A t \in Threads : p \notin Unprotected(t)) => protect[p] = first_protect[p]
    /\ crashed => disturbed

(***************************************************************************)
(* A function whose hooking has returned goes to the hook function of the  *)
(* last call for it, by a jump of the kind that call has written, and to   *)
(* no other call's; unless threads have met or a system call has failed,   *)
(* in this process or the other one: the return value says nothing of      *)
(* either.                                                                 *)
(***************************************************************************)
CallsOf(function) == {i \in 1..Len(log) : log[i].function = function}

HookedGoesToItsTarget ==
    ~ disturbed =>
        \A function \in Functions :
            CallsOf(function) # {} /\ (\A t \in Threads : call[t].function # function) =>
                LET last == CHOOSE i \in CallsOf(function) : \A j \in CallsOf(function) : j <= i
                IN  Runs(memory, function) =
                        Loads(log[last].kind) \o << <<"hook", log[last].target>> >>

(***************************************************************************)
(* What trampoline returned does what the function did before, an earlier  *)
(* hook included, for as long as no later call overwrites more of the      *)
(* function; but a register is lost on the way if the jump back, between   *)
(* the bytes that were moved and the rest, is an absolute one.  Claimed of *)
(* functions without branches, if the bytes held no relative jump, no      *)
(* threads have met and no system call has failed.                         *)
(***************************************************************************)
Covers(i) ==
    /\ \A j \in CallsOf(log[i].function) : j > i => log[j].size <= log[i].size
    /\ \A t \in Threads : call[t].function = log[i].function => call[t].size <= log[i].size

Through(run, size, kind) ==
    SubSeq(run, 1, size) \o (Loads(kind) \o SubSeq(run, size + 1, Len(run)))

OriginalBehavesAsBefore ==
    ~ disturbed =>
        \A i \in 1..Len(log) :
            log[i].original # 0 /\ log[i].movable /\ Covers(i) =>
                LET run == Runs(memory, log[i].original)
                IN  \/ run = log[i].before
                    \/ /\ Len(log[i].before) > log[i].size
                       /\ run = Through(log[i].before, log[i].size, log[i].kind)

=============================================================================
