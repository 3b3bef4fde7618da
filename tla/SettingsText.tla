---------------------------- MODULE SettingsText ----------------------------
(***************************************************************************)
(* The text of a settings file and the settings in it: what                *)
(* Settings::get_settings_str (settings.cpp) writes and what the loop of   *)
(* Settings::load reads.  A text is a sequence of characters, a setting a  *)
(* pair <<key, value>> of texts.                                           *)
(***************************************************************************)
EXTENDS StringText

seperator == "="
newline   == "\n"

get_settings_str(setting_list) ==
    LET settings_str[i \in 0..Len(setting_list)] ==
            IF i = 0 THEN <<>>
            ELSE settings_str[i - 1] \o setting_list[i][1] \o <<seperator>>
                                     \o setting_list[i][2] \o <<newline>>
    IN  settings_str[Len(setting_list)]

(* The lines std::getline reads.                                           *)
lines(text) == split(text, newline)

setting_last(line) ==
    LET at == Positions(seperator, line)
    IN  IF at = {} THEN <<line, line>>
        ELSE << SubSeq(line, 1, Max(at) - 1), SubSeq(line, Max(at) + 1, Len(line)) >>

setting_off_by_one(line) ==
    LET at == Positions(seperator, line)
    IN  IF at = {} THEN <<line, line>>
        ELSE << SubSeq(line, 1, Min(at) - 1), SubSeq(line, Min(at), Len(line)) >>

(***************************************************************************)
(* The key is before the first separator and the value after it.  Without  *)
(* a separator, find returns npos: the key is the whole line, and so is    *)
(* the value, as npos + 1 is 0.                                            *)
(***************************************************************************)
setting(line) ==
    LET at == Positions(seperator, line)
    IN  IF at = {} THEN <<line, line>>
        ELSE << SubSeq(line, 1, Min(at) - 1), SubSeq(line, Min(at) + 1, Len(line)) >>

(***************************************************************************)
(* get_setting<std::string>: the first word of the first value with the    *)
(* key, or nothing.                                                        *)
(***************************************************************************)
get_setting(setting_list, key) ==
    LET at == {i \in 1..Len(setting_list) : setting_list[i][1] = key}
    IN  IF at = {} THEN <<>> ELSE first_word(setting_list[Min(at)][2])

parsed(text) == [k \in 1..Len(lines(text)) |-> setting(lines(text)[k])]

-----------------------------------------------------------------------------
(* Properties, of one text.                                                *)

(* A setting that a line of the file can hold.                             *)
Clean(pair) ==
    /\ Positions(seperator, pair[1]) = {}
    /\ Positions(newline, pair[1] \o pair[2]) = {}

=============================================================================
