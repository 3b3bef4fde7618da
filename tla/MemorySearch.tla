---------------------------- MODULE MemorySearch ----------------------------
(***************************************************************************)
(* The algorithms of EB::Windows::Memory (win/memory.cpp): search_bytes in *)
(* another process and in this one, and get_function_real_address and      *)
(* get_function_size.                                                      *)
(*                                                                         *)
(* Memory is a sequence of bytes at the addresses from 0 on; nothing else  *)
(* is readable.  A search returns an address, NotFound, or Wild: it reads  *)
(* bytes it does not have, until it crashes or finds something in them.    *)
(***************************************************************************)
EXTENDS Integers, SequencesExt

CONSTANTS DWord,       \* how many values a DWORD has (2^32 in the code)
          OpcodeSize   \* bytes of a relative jump (5 in the code)

ASSUME DWordAssumption == DWord \in Nat \ {0}
ASSUME OpcodeAssumption == OpcodeSize \in Nat \ {0}

NotFound == -1
Wild     == -2

(* The nth of a set of addresses, counted from 0.                          *)
Nth(S, nth) == CHOOSE a \in S : Cardinality({b \in S : b < a}) = nth

(***************************************************************************)
(* What one pass over a chunk of chunk_size bytes finds.  buffer is what   *)
(* the chunk was read into: it may be longer than the chunk, and then ends *)
(* with older bytes; what is behind it, in the heap, is all heap_byte.     *)
(***************************************************************************)
hits_but_the_last(buffer, heap_byte, chunk_size, bytes) ==
    LET memory_chunk(i) == IF i < Len(buffer) THEN buffer[i + 1] ELSE heap_byte
    IN  {i \in 0..(chunk_size - 2) :
            \A j \in 1..Len(bytes) : memory_chunk(i + j - 1) = bytes[j]}

hits(buffer, heap_byte, chunk_size, bytes) ==
    LET memory_chunk(i) == IF i < Len(buffer) THEN buffer[i + 1] ELSE heap_byte
    IN  {i \in 0..(chunk_size - 1) :
            \A j \in 1..Len(bytes) : memory_chunk(i + j - 1) = bytes[j]}

(* A pass over one chunk: its address and size, how many matches came      *)
(* before it, and what the buffer held until then.                         *)
Passes(memory) == [addr : 0..(DWord - 1), size : Nat, found : Nat, old : Seq(Range(memory))]

read_chunk(memory, pass) ==
    SubSeq(memory, pass.addr + 1, pass.addr + pass.size)
    \o SubSeq(pass.old, pass.size + 1, Len(pass.old))

(* The last chunk is shortened to what is left of the range, which may be  *)
(* nothing.                                                                *)
next_pass(pass, end_addr, buffer, found_here) ==
    LET size == IF pass.addr + pass.size > end_addr THEN end_addr - pass.addr ELSE pass.size
    IN  [addr |-> (pass.addr + size) % DWord, size |-> size,
         found |-> pass.found + found_here, old |-> buffer]

(***************************************************************************)
(* search_bytes in another process.  A read that leaves the readable       *)
(* memory ends it.  When nothing is left of the range, chunk_size - 1      *)
(* wraps around.                                                           *)
(***************************************************************************)
search_bytes(memory, heap_byte, chunk, start_addr, end_addr, bytes, nth) ==
    LET search[pass \in Passes(memory)] ==
            LET buffer == read_chunk(memory, pass)
                found_here == hits(buffer, heap_byte, pass.size, bytes)
            IN  IF pass.addr < start_addr \/ pass.addr > end_addr THEN NotFound
                ELSE IF pass.addr + pass.size > Len(memory) THEN NotFound
                ELSE IF pass.size = 0 THEN Wild
                ELSE IF nth - pass.found < Cardinality(found_here)
                     THEN pass.addr + Nth(found_here, nth - pass.found)
                     ELSE search[next_pass(pass, end_addr, buffer, Cardinality(found_here))]
    IN  search[[addr |-> start_addr % DWord, size |-> chunk, found |-> 0, old |-> <<>>]]

(***************************************************************************)
(* search_bytes in this process: the range is scanned byte by byte, its    *)
(* last address included, until the nth match or an unreadable byte.       *)
(***************************************************************************)
search_bytes_internal(memory, start_addr, end_addr, bytes, nth) ==
    LET readable(a) == a < Len(memory)
        matches(a, n) == \A j \in 1..n : readable(a + j - 1) /\ memory[a + j] = bytes[j]
        found  == {a \in start_addr..end_addr : matches(a, Len(bytes))}
        faults == {a \in start_addr..end_addr :
                      \E n \in 0..(Len(bytes) - 1) : matches(a, n) /\ ~ readable(a + n)}
        reached(a) == Cardinality({b \in found : b < a}) <= nth
    IN  IF \E a \in faults : reached(a) THEN Wild
        ELSE IF nth < Cardinality(found) THEN Nth(found, nth) ELSE NotFound

-----------------------------------------------------------------------------
(***************************************************************************)
(* A call of a function built with a jump table goes to a relative jump.   *)
(* Its distance is added to the address of the jump, not of the next       *)
(* instruction, and int3 bytes are then skipped.  0 is no address.         *)
(***************************************************************************)
skipped_none(memory, addr) == addr
skipped(memory, addr) ==
    LET code == {a \in addr..(Len(memory) - 1) : memory[a + 1] # "int3"}
    IN  IF code = {} THEN Wild ELSE Min(code)

get_function_real_address(memory, func, rel_jmp_addr) ==
    IF memory[func + 1] = "jmp" THEN skipped(memory, func + rel_jmp_addr) ELSE 0

(* Up to the first byte that looks like a return, which is included.       *)
get_function_size(memory, func, rel_jmp_addr) ==
    LET real_func_addr == get_function_real_address(memory, func, rel_jmp_addr)
        returns == {a \in real_func_addr..(Len(memory) - 1) : memory[a + 1] = "ret"}
    IN  IF real_func_addr = 0 THEN 0
        ELSE IF returns = {} THEN Wild ELSE Min(returns) - real_func_addr + 1

=============================================================================
