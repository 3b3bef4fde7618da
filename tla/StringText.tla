----------------------------- MODULE StringText -----------------------------
(***************************************************************************)
(* The text helpers the other parts share: EB::String::split and trim      *)
(* (string.cpp), the extraction of a word by operator>>, and               *)
(* EB::Logger::GetFileName (linux/EB/Logger/logger.cpp).  A text is a      *)
(* sequence of characters.                                                 *)
(***************************************************************************)
EXTENDS Integers, SequencesExt

Positions(char, text) == {i \in 1..Len(text) : text[i] = char}

(* One character more of std::getline: it is in the token, or ends it.     *)
after_char(read, char, delim) ==
    IF char = delim
    THEN [tokens |-> Append(read.tokens, read.token), token |-> <<>>]
    ELSE [tokens |-> read.tokens, token |-> Append(read.token, char)]

scanned(s, delim) ==
    LET scan[i \in 0..Len(s)] ==
            IF i = 0 THEN [tokens |-> <<>>, token |-> <<>>]
            ELSE after_char(scan[i - 1], s[i], delim)
    IN  scan[Len(s)]

split_keeping_empty_rest(s, delim) ==
    LET end == scanned(s, delim)
    IN  Append(end.tokens, end.token)

(***************************************************************************)
(* The loop of std::getline: a token ends at a delimiter or at the end of  *)
(* the text, and what follows the last delimiter is a token if not empty.  *)
(***************************************************************************)
split(s, delim) ==
    LET end == scanned(s, delim)
    IN  IF end.token = <<>> THEN end.tokens ELSE Append(end.tokens, end.token)

isspace == {" ", "\n"}     \* those of its characters that texts hold

Printing(text) == {i \in 1..Len(text) : text[i] \notin isspace}

ltrim(str) ==
    SubSeq(str, IF Printing(str) = {} THEN Len(str) + 1 ELSE Min(Printing(str)), Len(str))

rtrim_from_the_front(str) ==
    SubSeq(str, 1, IF Printing(str) = {} THEN 0 ELSE Min(Printing(str)))

rtrim(str) ==
    SubSeq(str, 1, IF Printing(str) = {} THEN 0 ELSE Max(Printing(str)))

trim(str) == rtrim(ltrim(str))

(* operator>> into a string: the first word, or nothing.                   *)
first_word(text) ==
    LET rest == ltrim(text)
        ends == {i \in 1..Len(rest) : rest[i] \in isspace}
    IN  SubSeq(rest, 1, IF ends = {} THEN Len(rest) ELSE Min(ends) - 1)

-----------------------------------------------------------------------------
Int32 == 65536     \* values of uint32_t, scaled down: more than any position

file_name_from_slash(file_path) ==
    SubSeq(file_path, IF Positions("/", file_path) = {} THEN 1
                      ELSE Max(Positions("/", file_path)), Len(file_path))

(***************************************************************************)
(* What follows the last slash.  Without one find_last_of returns npos,    *)
(* which the uint32_t cuts to its own largest value: adding 1 makes it 0.  *)
(***************************************************************************)
GetFileName(file_path) ==
    LET npos      == Int32 - 1
        occurance == IF Positions("/", file_path) = {} THEN npos
                     ELSE Max(Positions("/", file_path)) - 1
    IN  SubSeq(file_path, ((occurance + 1) % Int32) + 1, Len(file_path))

=============================================================================
