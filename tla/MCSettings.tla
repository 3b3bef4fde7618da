----------------------------- MODULE MCSettings -----------------------------
(***************************************************************************)
(* Values of the constants of Settings for TLC, and the programs that run: *)
(* one with lists of up to three settings, or two that share the file,     *)
(* with lists of one.  A key or a value is one character, or none.         *)
(***************************************************************************)
EXTENDS Settings

VARIABLE programs

a == <<"a">>
b == <<"b">>
equals == <<"=">>

MCKeys     == {a, b}
MCValues   == {<<>>, equals}
MCCharacters == {"a", "b", seperator, newline}
MCDefaults == {<< <<b, equals>>, <<a, equals>> >>, << <<a, equals>> >>}

(* Bounds on what the programs do, by how many they are.                   *)
Shared == programs = Processes

MCBounds ==
    \A o \in Processes :
        IF Shared
        THEN Len(settings[o]) <= 1 /\ Len(default_settings[o]) <= 1 /\ restarts <= 1
        ELSE Len(default_settings[o]) # 1

MCInit == Init /\ programs \in {{o} : o \in Processes} \cup {Processes}

MCNext ==
    /\ \E o \in programs : Process(o)
    /\ UNCHANGED programs
    /\ MCBounds'

MCSpec == MCInit /\ [][MCNext]_<<vars, programs>>

ProcessSymmetry == Permutations(Processes)

=============================================================================
