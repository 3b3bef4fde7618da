------------------------------ MODULE Settings ------------------------------
(***************************************************************************)
(* EB::Settings (settings.h, settings.cpp): objects of several processes   *)
(* that keep their settings in the same file.  Each process has one object *)
(* and may end at any time; its successor starts with an empty one.        *)
(*                                                                         *)
(* A file is truncated when it is opened and written when it is closed,    *)
(* each process at its own offset, and the result of the write is not      *)
(* looked at: the disk may have had room for a part of it only.            *)
(***************************************************************************)
EXTENDS SettingsText

CONSTANTS Processes,     \* each with its Settings object
          Keys, Values,  \* what set_setting may be given
          Defaults,      \* the lists set_default_settings may be given
          Characters,    \* those of the texts
          MaxSettings,   \* bound on the length of a list
          MaxRestarts,   \* bound on the processes that end
          NoFile,        \* the file does not exist
          NoList         \* no list

Texts == Seq(Characters)

ASSUME SettingsAssumption ==
    /\ MaxSettings \in Nat /\ MaxRestarts \in Nat
    /\ seperator \in Characters /\ newline \in Characters
    /\ Keys \subseteq Texts /\ Values \subseteq Texts
    /\ \A list \in Defaults : list \in Seq(Texts \X Texts) /\ Len(list) <= MaxSettings
    /\ NoFile \notin Texts

VARIABLES
    settings,           \* Settings::settings, per process
    default_settings,   \* Settings::default_settings
    add_if_not_exist,   \* Settings::add_setting_if_not_exist
    pc,                 \* where load or save is
    file,               \* text of the file, or NoFile
    alone,              \* history: whether a writer has had the file to itself
    saved,              \* history: the list last written whole by such a
                        \* writer, if the file has not been touched since
    sound,              \* history: no two writers overlapped, no load came on
                        \* top of settings, and no write was cut short
    restarts            \* number of processes that have ended

object_vars == <<settings, default_settings, add_if_not_exist>>
file_vars   == <<file, alone, saved>>
vars == <<object_vars, pc, file_vars, sound, restarts>>

Init ==
    /\ settings = [o \in Processes |-> <<>>]
    /\ default_settings = [o \in Processes |-> <<>>]
    /\ add_if_not_exist = [o \in Processes |-> FALSE]
    /\ pc = [o \in Processes |-> "idle"]
    /\ alone = [o \in Processes |-> FALSE]
    /\ file = NoFile /\ saved = NoList /\ sound = TRUE
    /\ restarts = 0

Idle(o) == pc[o] = "idle"
Goto(o, where) == pc' = [pc EXCEPT ![o] = where]

-----------------------------------------------------------------------------
(* Looking a key up.                                                       *)

IndexesOf(list, key) == {i \in 1..Len(list) : list[i][1] = key}

get_setting_index_by_key_last(list, key) ==
    IF IndexesOf(list, key) = {} THEN 0 ELSE Max(IndexesOf(list, key))

get_setting_index_by_key(list, key) ==
    IF IndexesOf(list, key) = {} THEN 0 ELSE Min(IndexesOf(list, key))

is_setting_exist(o, key) == get_setting_index_by_key(settings[o], key) # 0

-----------------------------------------------------------------------------
(* The file.                                                               *)

Others(o) == {p \in Processes \ {o} : pc[p] \in {"creating", "saving"}}

opened_in_place(text) == IF text = NoFile THEN <<>> ELSE text
opened(text) == <<>>

Truncate(o) ==
    /\ file' = opened(file)
    /\ alone' = [p \in Processes |-> p = o /\ Others(o) = {}]
    /\ saved' = NoList
    /\ sound' = (sound /\ Others(o) = {})

(* What is in the file beyond the text stays there.                        *)
WriteAndClose(o, list) ==
    LET str == get_settings_str(list)
    IN  \E n \in 0..Len(str) :
          /\ file' = SubSeq(str, 1, n) \o SubSeq(file, n + 1, Len(file))
          /\ saved' = IF n = Len(str) /\ alone[o] THEN list ELSE NoList
          /\ sound' = (sound /\ n = Len(str))
          /\ UNCHANGED alone

(* load, of a file that stat does not find: it is created with the         *)
(* defaults, or emptied if another process has created it since.           *)
LoadMissing(o) ==
    /\ Idle(o) /\ file = NoFile
    /\ Goto(o, "missing")
    /\ UNCHANGED <<object_vars, file_vars, sound, restarts>>

LoadCreate(o) ==
    /\ pc[o] = "missing"
    /\ Truncate(o)
    /\ Goto(o, "creating")
    /\ UNCHANGED <<object_vars, restarts>>

LoadDefaults(o) ==
    /\ pc[o] = "creating"
    /\ WriteAndClose(o, default_settings[o])
    /\ Goto(o, "reading")
    /\ UNCHANGED <<object_vars, restarts>>

(* The settings read are added to those the object has.                    *)
LoadRead(o) ==
    /\ pc[o] = "reading" \/ (Idle(o) /\ file # NoFile)
    /\ Len(settings[o]) + Len(parsed(file)) <= MaxSettings
    /\ settings' = [settings EXCEPT ![o] = @ \o parsed(file)]
    /\ sound' = (sound /\ settings[o] = <<>>)
    /\ Goto(o, "idle")
    /\ UNCHANGED <<default_settings, add_if_not_exist, file_vars, restarts>>

(* A file that cannot be opened, by load or save.                          *)
OpenFails(o) ==
    /\ pc[o] \in {"missing", "reading", "save"}
    /\ Goto(o, "idle")
    /\ UNCHANGED <<object_vars, file_vars, sound, restarts>>

Save(o) ==
    /\ Idle(o)
    /\ Goto(o, "save")
    /\ UNCHANGED <<object_vars, file_vars, sound, restarts>>

SaveOpen(o) ==
    /\ pc[o] = "save"
    /\ Truncate(o)
    /\ Goto(o, "saving")
    /\ UNCHANGED <<object_vars, restarts>>

SaveWrite(o) ==
    /\ pc[o] = "saving"
    /\ WriteAndClose(o, settings[o])
    /\ Goto(o, "idle")
    /\ UNCHANGED <<object_vars, restarts>>

-----------------------------------------------------------------------------
(* The settings.                                                           *)

SetDefaults(o) ==
    /\ Idle(o)
    /\ \E list \in Defaults : default_settings' = [default_settings EXCEPT ![o] = list]
    /\ UNCHANGED <<settings, add_if_not_exist, pc, file_vars, sound, restarts>>

SetAdd(o) ==
    /\ Idle(o)
    /\ add_if_not_exist' = [add_if_not_exist EXCEPT ![o] = ~ @]
    /\ UNCHANGED <<settings, default_settings, pc, file_vars, sound, restarts>>

with_setting_appended(list, key, value) == Append(list, <<key, value>>)
with_setting(list, key, value) ==
    LET i == get_setting_index_by_key(list, key)
    IN  IF i = 0 THEN Append(list, <<key, value>>)
        ELSE [list EXCEPT ![i] = <<key, value>>]

(* The result of an automatic save is not looked at.                       *)
SetSetting(o, key, value) ==
    /\ Idle(o)
    /\ is_setting_exist(o, key) \/ (add_if_not_exist[o] /\ Len(settings[o]) < MaxSettings)
    /\ settings' = [settings EXCEPT ![o] = with_setting(@, key, value)]
    /\ \E autosave \in BOOLEAN : Goto(o, IF autosave THEN "save" ELSE "idle")
    /\ UNCHANGED <<default_settings, add_if_not_exist, file_vars, sound, restarts>>

(* What reset puts in the place of a default: the setting, if its key is   *)
(* excluded and it exists.                                                 *)
reset_setting_unexcluded(o, exclude, default) == default
reset_setting(o, exclude, default) ==
    IF default[1] \in exclude /\ is_setting_exist(o, default[1])
    THEN settings[o][get_setting_index_by_key(settings[o], default[1])]
    ELSE default

ResetToDefault(o, exclude) ==
    /\ Idle(o)
    /\ settings' = [settings EXCEPT ![o] =
           [i \in 1..Len(default_settings[o]) |->
                reset_setting(o, exclude, default_settings[o][i])]]
    /\ UNCHANGED <<default_settings, add_if_not_exist, pc, file_vars, sound, restarts>>

(* The process ends, wherever it is, and is started again.                 *)
Restart(o) ==
    /\ restarts < MaxRestarts
    /\ restarts' = restarts + 1
    /\ settings' = [settings EXCEPT ![o] = <<>>]
    /\ default_settings' = [default_settings EXCEPT ![o] = <<>>]
    /\ add_if_not_exist' = [add_if_not_exist EXCEPT ![o] = FALSE]
    /\ Goto(o, "idle")
    /\ UNCHANGED <<file_vars, sound>>

Process(o) ==
    \/ LoadMissing(o) \/ LoadCreate(o) \/ LoadDefaults(o) \/ LoadRead(o) \/ OpenFails(o)
    \/ Save(o) \/ SaveOpen(o) \/ SaveWrite(o)
    \/ SetDefaults(o) \/ SetAdd(o) \/ Restart(o)
    \/ \E key \in Keys, value \in Values : SetSetting(o, key, value)
    \/ \E exclude \in SUBSET Keys : ResetToDefault(o, exclude)

Next == \E o \in Processes : Process(o)
Spec == Init /\ [][Next]_vars

-----------------------------------------------------------------------------
(* Properties.                                                             *)

IsList(list) ==
    /\ DOMAIN list = 1..Len(list)
    /\ \A i \in 1..Len(list) : Len(list[i]) = 2

(* Every variable has its type.                                            *)
TypeOK ==
    /\ \A o \in Processes : IsList(settings[o]) /\ Len(settings[o]) <= MaxSettings
    /\ \A o \in Processes : default_settings[o] = <<>> \/ default_settings[o] \in Defaults
    /\ add_if_not_exist \in [Processes -> BOOLEAN]
    /\ pc \in [Processes -> {"idle", "missing", "creating", "reading", "save", "saving"}]
    /\ alone \in [Processes -> BOOLEAN]
    /\ file = NoFile => saved = NoList
    /\ saved # NoList => IsList(saved)
    /\ sound \in BOOLEAN /\ restarts \in 0..MaxRestarts

(***************************************************************************)
(* A clean list that was written whole by a process that had the file to   *)
(* itself is what a load in any process reads, until the file is next      *)
(* opened for writing, whatever overlapping or torn writes came before.    *)
(***************************************************************************)
SavedIsLoaded ==
    saved # NoList /\ (\A i \in 1..Len(saved) : Clean(saved[i]))
        => parsed(file) = saved

(***************************************************************************)
(* No object holds a key twice, nor does the file bring one to it, as long *)
(* as loads come first, writers take turns, no write is cut short and      *)
(* texts are clean.                                                        *)
(***************************************************************************)
Distinct(list) == \A i, j \in 1..Len(list) : list[i][1] = list[j][1] => i = j

KeysAreDistinct == sound => \A o \in Processes : Distinct(settings[o])

(***************************************************************************)
(* reset_to_default_settings leaves the keys of the defaults, in their     *)
(* order: an excluded one of them keeps the value it had, and an excluded  *)
(* setting without a default is gone.                                      *)
(***************************************************************************)
Value(list, key) == list[get_setting_index_by_key(list, key)][2]

ResetKeepsExcluded ==
    [][\A o \in Processes, exclude \in SUBSET Keys :
         ResetToDefault(o, exclude) =>
            /\ Len(settings'[o]) = Len(default_settings[o])
            /\ \A i \in 1..Len(default_settings[o]) :
                  settings'[o][i][1] = default_settings[o][i][1]
            /\ \A key \in exclude :
                  is_setting_exist(o, key) /\ IndexesOf(settings'[o], key) # {}
                      => Value(settings'[o], key) = Value(settings[o], key)]_vars

=============================================================================
