------------------------------- MODULE MCText -------------------------------
(***************************************************************************)
(* The pure algorithms on every text of at most MaxLen characters: the     *)
(* server's tokenizer, on texts of the characters of a chunk; the text of  *)
(* a settings file, on texts of its characters; the text helpers, on texts *)
(* with spaces and slashes; and the searches in memory, on memories of     *)
(* bytes of code.  A text is grown one character at a time.                *)
(***************************************************************************)
EXTENDS EBString, SettingsText, MemorySearch

CONSTANTS Alphabets,   \* the sets of characters texts are made of
          MaxLen       \* bound on the length of a text

(* Positions in a text fit a size_t, and those in a path a uint32_t.       *)
PositionsFit == MaxLen < SizeT /\ MaxLen < Int32

ASSUME MaxLenAssumption == MaxLen \in Nat /\ PositionsFit

VARIABLES text, alphabet
text_vars == <<text, alphabet>>

TextInit == text = <<>> /\ alphabet \in Alphabets

TextNext ==
    /\ Len(text) < MaxLen
    /\ \E c \in alphabet : text' = Append(text, c)
    /\ UNCHANGED alphabet

TextSpec == TextInit /\ [][TextNext]_text_vars

MCHandlers  == {<<"k">>}
Bytes       == {"x", "jmp", "int3", "ret"}
MCAlphabets == { {"k", "x", ":", ";"}, {"a", "b", seperator, newline},
                 {"a", " ", "/", newline}, Bytes }

-----------------------------------------------------------------------------
Delimiters == delimiter_positions(text, ";")

(* The text between the (i-1)st and the i-th semicolon.                    *)
Command(i) ==
    SubSeq(text, IF i = 1 THEN 1 ELSE Delimiters[i - 1] + 2, Delimiters[i])

(***************************************************************************)
(* A chunk with at most two commands is tokenized exactly: one fragment    *)
(* per semicolon, the text before it, nothing thrown.  (The running start  *)
(* index of substrings is right for the first two fragments only.)         *)
(***************************************************************************)
TwoCommandsAreExact ==
    Len(Delimiters) <= 2 =>
        /\ ~ ParseThrows(text)
        /\ substrings(text, Delimiters) =
               [i \in 1..Len(Delimiters) |-> Command(i)]

(***************************************************************************)
(* In a chunk of any number of commands that does not throw, the first two *)
(* commands still reach the handlers they name: the drift of the start     *)
(* index never reaches back.                                               *)
(***************************************************************************)
FirstTwoCommandsSurvive ==
    ~ ParseThrows(text) =>
        \A i \in 1..Len(Delimiters) :
            i <= 2 => parse(text)[i][1] = split_to_two(Command(i), ":")[1]

(***************************************************************************)
(* split_to_two loses nothing: with a colon, key, colon and value are the  *)
(* text and the key holds no colon; without one both halves are the text.  *)
(***************************************************************************)
SplitIsLossless ==
    LET pair == split_to_two(text, ":")
    IN  IF Contains(text, ":")
        THEN pair[1] \o <<":">> \o pair[2] = text /\ ~ Contains(pair[1], ":")
        ELSE pair = <<text, text>>

-----------------------------------------------------------------------------
(***************************************************************************)
(* What load has read, save writes so that load reads it again: whatever   *)
(* the text of the file was, one load makes it a fixed point.              *)
(***************************************************************************)
LoadedSurvivesSave == parsed(get_settings_str(parsed(text))) = parsed(text)

(* The list of two settings whose four texts make up the text: three of n  *)
(* characters, and the rest.                                               *)
Cut(n) == << <<SubSeq(text, 1, n), SubSeq(text, n + 1, 2 * n)>>,
             <<SubSeq(text, 2 * n + 1, 3 * n), SubSeq(text, 3 * n + 1, Len(text))>> >>

(***************************************************************************)
(* A list whose keys hold no separator and whose texts hold no newline is  *)
(* read back exactly as it was written, empty texts and separators in      *)
(* values included.                                                        *)
(***************************************************************************)
CleanSurvivesSave ==
    \A n \in {k \in 0..Len(text) : 3 * k <= Len(text)} :
        (\A i \in 1..2 : Clean(Cut(n)[i]))
            => parsed(get_settings_str(Cut(n))) = Cut(n)

(***************************************************************************)
(* What set_setting<std::string> is given, and save and load carry through *)
(* the file, get_setting<std::string> returns: exactly the values without  *)
(* white space, the empty one and those with separators included.          *)
(***************************************************************************)
StoredIsGot ==
    LET loaded == parsed(get_settings_str(<< <<(<<"k">>), text>> >>))
    IN  get_setting(loaded, <<"k">>) = text <=> Printing(text) = DOMAIN text

-----------------------------------------------------------------------------
(***************************************************************************)
(* split loses one delimiter at most, the last character: joined again,    *)
(* the tokens are the text, and no token holds a delimiter.                *)
(***************************************************************************)
SplitLosesOnlyTheLast ==
    \A delim \in {" ", newline} :
        LET tokens == split(text, delim)
            joined == FlattenSeq([k \in 1..Len(tokens) |->
                          IF k = 1 THEN tokens[k] ELSE <<delim>> \o tokens[k]])
        IN  /\ \A k \in 1..Len(tokens) : ~ Contains(tokens[k], delim)
            /\ \/ text = joined /\ (text = <<>> \/ Last(text) # delim)
               \/ text = joined \o <<delim>>

(***************************************************************************)
(* trim leaves the text from its first to its last printing character, and *)
(* nothing of a text of white space; trimming again changes nothing.       *)
(***************************************************************************)
TrimIsExact ==
    /\ trim(trim(text)) = trim(text)
    /\ IF Printing(text) = {} THEN trim(text) = <<>>
       ELSE trim(text) = SubSeq(text, Min(Printing(text)), Max(Printing(text)))

(***************************************************************************)
(* The log names a caller's file by its name alone, also when the path     *)
(* holds no slash and the position of the last one is npos.                *)
(***************************************************************************)
FileNameIsTheLastPart ==
    /\ ~ Contains(GetFileName(text), "/")
    /\ \/ GetFileName(text) = text
       \/ \E n \in Positions("/", text) : text = SubSeq(text, 1, n) \o GetFileName(text)

-----------------------------------------------------------------------------
(***************************************************************************)
(* The search in another process finds the same occurrence as the plain    *)
(* scan, whatever is behind its buffer, when the chunks it reads are       *)
(* readable, the addresses fit a DWORD, and that occurrence lies whole in  *)
(* the first chunk, or is the first one of a single byte.                  *)
(***************************************************************************)
SearchesAgree ==
    alphabet = Bytes =>
        \A start \in {0, 1}, chunk \in {2, 3}, length \in {1, 2}, heap_byte \in Bytes :
        \A addr \in start..(Len(text) - length) :
            LET bytes == SubSeq(text, addr + 1, addr + length)
                nth == Cardinality({a \in start..(addr - 1) :
                                       SubSeq(text, a + 1, a + length) = bytes})
            IN  \A end \in addr..(Len(text) - length) :
                    end < DWord
                    /\ \/ addr + length <= start + chunk /\ start + chunk <= Len(text)
                       \/ length = 1 /\ nth = 0 /\ end + chunk <= Len(text)
                    => /\ search_bytes(text, heap_byte, chunk, start, end, bytes, nth) = addr
                       /\ search_bytes_internal(text, start, end, bytes, nth) = addr

(***************************************************************************)
(* get_function_real_address leaves out the length of the jump, and is     *)
(* right all the same if that many int3 bytes stand before the function    *)
(* and its code does not begin with one; the size then ends with the first *)
(* return byte.                                                            *)
(***************************************************************************)
RealFunctionIsFound ==
    alphabet = Bytes /\ text # <<>> /\ text[1] = "jmp" =>
        \A rel \in 0..(Len(text) - OpcodeSize - 1) :
            LET function == OpcodeSize + rel
                size == get_function_size(text, 0, rel)
            IN  /\ \A a \in rel..(function - 1) : text[a + 1] = "int3"
                /\ text[function + 1] # "int3"
                => /\ get_function_real_address(text, 0, rel) = function
                   /\ size = Wild \/ (text[function + size] = "ret"
                                      /\ ~ Contains(SubSeq(text, function + 1, function + size - 1), "ret"))

-----------------------------------------------------------------------------
(***************************************************************************)
(* What the tokenizer makes of a chunk is right for its first two          *)
(* commands, however many follow, as long as it does not throw.            *)
(***************************************************************************)
CommandsAreExact == TwoCommandsAreExact /\ FirstTwoCommandsSurvive

(***************************************************************************)
(* Cutting a text in two, in tokens, at its white space or at its last     *)
(* slash keeps every character that is to be kept, at every boundary: the  *)
(* empty text, no delimiter at all, a delimiter at either end.             *)
(***************************************************************************)
CuttingKeepsTheRest ==
    SplitIsLossless /\ SplitLosesOnlyTheLast /\ TrimIsExact /\ FileNameIsTheLastPart

(***************************************************************************)
(* Save and load are inverse on what load has read from the text and on    *)
(* two clean settings cut from it; and what was set is got back through    *)
(* the file exactly if it holds no white space.                            *)
(***************************************************************************)
SettingsSurvive == LoadedSurvivesSave /\ CleanSurvivesSave /\ StoredIsGot

(***************************************************************************)
(* The searches in memory find what is there: both searches for bytes the  *)
(* same occurrence, and the search for a function its first byte.          *)
(***************************************************************************)
SearchesAreExact == SearchesAgree /\ RealFunctionIsFound

=============================================================================
