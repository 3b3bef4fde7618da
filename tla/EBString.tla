------------------------------ MODULE EBString ------------------------------
(***************************************************************************)
(* The tokenizer of the Linux server: EB::String                           *)
(* (linux/EB/String/string.cpp) and Protocol::Base::parse, the pure part   *)
(* of Protocol::Base::handle.                                              *)
(*                                                                         *)
(* A std::string is a sequence of one-character strings.  Positions are    *)
(* zero-based as in the code: position p is element p + 1.  All index      *)
(* arithmetic is on size_t, here modulo SizeT: every modulus larger than   *)
(* the positions that occur behaves like the real one.                     *)
(***************************************************************************)
EXTENDS Integers, Sequences

CONSTANTS SizeT,     \* the number of values of size_t
          Handlers   \* the keys of Protocol::Base::handler_list

ASSUME SizeTAssumption == SizeT \in Nat \ {0, 1}

npos == SizeT - 1

(***************************************************************************)
(* std::string::substr(pos, n): n is cut at the end of the string; a pos   *)
(* beyond the end throws std::out_of_range (see Throws).                   *)
(***************************************************************************)
substr(str, pos, n) ==
    SubSeq(str, pos + 1, IF pos + n < Len(str) THEN pos + n ELSE Len(str))

(* The positions delimiter_count pushes to pos_out, in increasing order.   *)
delimiter_positions(str, delimiter) ==
    LET pos_out[i \in 0..Len(str)] ==
            IF i = 0 THEN <<>>
            ELSE IF str[i] = delimiter THEN Append(pos_out[i - 1], i - 1)
            ELSE pos_out[i - 1]
    IN  pos_out[Len(str)]

(***************************************************************************)
(* start_i at the head of each iteration of String::substrings: it is      *)
(* advanced by pos + 1, not set to pos + 1.                                *)
(***************************************************************************)
start_index_off_by_one(pos_list) ==
    LET start[i \in 1..Len(pos_list)] ==
            IF i = 1 THEN 0 ELSE start[i - 1] + pos_list[i - 1]
    IN  start

start_index(pos_list) ==
    LET start[i \in 1..Len(pos_list)] ==
            IF i = 1 THEN 0 ELSE start[i - 1] + pos_list[i - 1] + 1
    IN  start

substrings(str, pos_list) ==
    LET start == start_index(pos_list)
    IN  [i \in 1..Len(pos_list) |->
            substr(str, start[i], (pos_list[i] - start[i]) % SizeT)]

(* Some substr of String::substrings is called beyond the end of str.      *)
Throws(str, pos_list) ==
    \E i \in 1..Len(pos_list) : start_index(pos_list)[i] > Len(str)

(* The first delimiter splits; without one both halves are all of str.     *)
split_keep_delimiter(str, delimiter) ==
    LET found == delimiter_positions(str, delimiter)
        pos   == IF found = <<>> THEN npos ELSE found[1]
    IN  << substr(str, 0, pos), substr(str, pos, (Len(str) - pos) % SizeT) >>

split_to_two(str, delimiter) ==
    LET found == delimiter_positions(str, delimiter)
        pos   == IF found = <<>> THEN npos ELSE found[1]
        next  == (pos + 1) % SizeT
    IN  << substr(str, 0, pos), substr(str, next, (Len(str) - next) % SizeT) >>

-----------------------------------------------------------------------------
(***************************************************************************)
(* Protocol::Base::parse: a list of key-value pairs, or an exception.      *)
(***************************************************************************)
ParseThrows(data) == Throws(data, delimiter_positions(data, ";"))

parse(data) ==
    LET split_data == substrings(data, delimiter_positions(data, ";"))
    IN  [i \in 1..Len(split_data) |-> split_to_two(split_data[i], ":")]

(* The pairs for which Protocol::Base::handle calls a handler.             *)
handled(data) == {i \in DOMAIN parse(data) : parse(data)[i][1] \in Handlers}

=============================================================================
