--------------------------- MODULE SettingsProofs ---------------------------
(***************************************************************************)
(* Proofs about Settings.                                                  *)
(***************************************************************************)
EXTENDS Settings, TextProofs

-----------------------------------------------------------------------------
(* Texts and lists.                                                        *)

Lists == Seq(Pairs(Characters))
PCs == {"idle", "missing", "creating", "reading", "save", "saving"}

LEMMA TextsAre ==
    /\ Lists = Seq(Texts \X Texts) /\ Texts = Seq(Characters)
    /\ seperator \in Characters /\ newline \in Characters
    /\ <<>> \in Lists /\ <<>> \in Texts /\ NoFile \notin Texts
    /\ \A key \in Keys, value \in Values : <<key, value>> \in Pairs(Characters)
    /\ \A list \in Defaults : list \in Lists /\ Len(list) <= MaxSettings
<1>1. Pairs(Characters) = Texts \X Texts
    BY DEF Pairs, Texts
<1>2. <<>> \in Lists /\ <<>> \in Texts
    BY EmptySeq DEF Lists, Texts
<1> QED BY <1>1, <1>2, SettingsAssumption DEF Lists, Texts

(* What is in a file of the text before after n characters of the text of  *)
(* a list have been written to it.                                         *)
LEMMA Written ==
    ASSUME NEW list \in Lists, NEW before \in Texts,
           NEW n \in 0..Len(get_settings_str(list))
    PROVE  LET str   == get_settings_str(list)
               after == SubSeq(str, 1, n) \o SubSeq(before, n + 1, Len(before))
           IN  /\ after \in Texts
               /\ before = <<>> /\ n = Len(str) => after = str
<1> DEFINE str == get_settings_str(list)
           l == Len(before)
           first == SubSeq(str, 1, n)
           rest == SubSeq(before, n + 1, l)
<1>1. str \in Texts
    <2>1. list \in Seq(Pairs(Characters)) /\ Len(list) \in 0..Len(list)
        BY LenProperties DEF Lists
    <2> QED BY <2>1, TextsAre, StrIs
<1>2. l \in Nat /\ Len(str) \in Nat /\ n \in Nat
    BY <1>1, LenProperties DEF Texts
<1>3. first \in Texts /\ (n = Len(str) => first = str)
    <2>1. 1 \in 1..(Len(str) + 1)
        BY <1>2
    <2> QED BY <1>1, <2>1, PartOf, SubSeqFull DEF Texts
<1>4. rest \in Texts /\ (l = 0 => rest = <<>>)
    <2>1. CASE n + 1 <= l
        <3>1. n + 1 \in 1..(l + 1) /\ l \in 0..l /\ l # 0
            BY <1>2, <2>1
        <3> QED BY <3>1, PartOf DEF Texts
    <2>2. CASE ~ (n + 1 <= l)
        <3>1. l < n + 1 /\ n + 1 \in Int /\ l \in Int
            BY <1>2, <2>2
        <3>2. rest = <<>>
            BY <3>1, SubSeqEmpty
        <3> QED BY <3>2, TextsAre
    <2> QED BY <2>1, <2>2
<1> HIDE DEF first, rest
<1>5. first \o rest \in Texts
    BY <1>3, <1>4, ConcatProperties DEF Texts
<1>6. before = <<>> /\ n = Len(str) => first \o rest = str
    <2> SUFFICES ASSUME before = <<>>, n = Len(str) PROVE first \o rest = str
        OBVIOUS
    <2>1. l = 0
        BY EmptySeq
    <2>2. first = str /\ rest = <<>>
        BY <1>3, <1>4, <2>1
    <2> HIDE DEF str
    <2> QED BY <1>1, <2>2, ConcatEmptySeq DEF Texts
<1> QED BY <1>5, <1>6 DEF first, rest

(* The first index of a key is one of its indexes.                         *)
LEMMA IndexIs ==
    ASSUME NEW list \in Lists, NEW key
    PROVE  /\ get_setting_index_by_key(list, key) \in Nat
           /\ get_setting_index_by_key(list, key) = 0 <=> IndexesOf(list, key) = {}
           /\ get_setting_index_by_key(list, key) # 0 =>
                  /\ get_setting_index_by_key(list, key) \in 1..Len(list)
                  /\ list[get_setting_index_by_key(list, key)][1] = key
                  /\ list[get_setting_index_by_key(list, key)] \in Pairs(Characters)
           /\ \A i \in IndexesOf(list, key) : get_setting_index_by_key(list, key) <= i
<1> DEFINE at == IndexesOf(list, key)
<1>1. at = {i \in 1..Len(list) : list[i][1] = key} /\ Len(list) \in Nat
    BY LenProperties DEF IndexesOf, Lists
<1>2. get_setting_index_by_key(list, key) = IF at = {} THEN 0 ELSE Min(at)
    BY DEF get_setting_index_by_key
<1> HIDE DEF at
<1>3. CASE at = {}
    BY <1>2, <1>3 DEF at
<1>4. CASE at # {}
    <2>1. Min(at) \in at /\ \A i \in at : Min(at) <= i
        <3>1. at \in SUBSET Nat
            BY <1>1
        <3> QED BY <1>4, <3>1, MinIs
    <2>2. Min(at) \in 1..Len(list) /\ list[Min(at)][1] = key /\ Min(at) \in Nat /\ Min(at) # 0
        BY <1>1, <2>1
    <2>3. list[Min(at)] \in Pairs(Characters)
        BY <2>2, ElementOfSeq DEF Lists
    <2> QED BY <1>2, <1>4, <2>1, <2>2, <2>3 DEF at
<1> QED BY <1>3, <1>4

-----------------------------------------------------------------------------
(* The types.                                                              *)

ObjectsInv ==
    /\ settings \in [Processes -> Lists]
    /\ default_settings \in [Processes -> Lists]
    /\ \A o \in Processes : Len(settings[o]) <= MaxSettings
    /\ \A o \in Processes : default_settings[o] = <<>> \/ default_settings[o] \in Defaults
    /\ add_if_not_exist \in [Processes -> BOOLEAN]
    /\ restarts \in 0..MaxRestarts

FileInv ==
    /\ pc \in [Processes -> PCs]
    /\ alone \in [Processes -> BOOLEAN]
    /\ file = NoFile \/ file \in Texts
    /\ \A o \in Processes : pc[o] \in {"creating", "reading", "saving"} => file # NoFile
    /\ file = NoFile => saved = NoList
    /\ saved # NoList => saved \in Lists
    /\ sound \in BOOLEAN

(* The list SetSetting makes.                                              *)
LEMMA WithSetting ==
    ASSUME NEW list \in Lists, NEW key \in Keys, NEW value \in Values
    PROVE  LET i == get_setting_index_by_key(list, key)
               new == with_setting(list, key, value)
           IN  /\ new \in Lists
               /\ Len(new) = IF i = 0 THEN Len(list) + 1 ELSE Len(list)
               /\ i = 0 => new[Len(list) + 1] = <<key, value>>
               /\ \A j \in 1..Len(list) : new[j] = IF j = i THEN <<key, value>> ELSE list[j]
<1> DEFINE i == get_setting_index_by_key(list, key)
           pair == <<key, value>>
           new == with_setting(list, key, value)
<1>1. pair \in Pairs(Characters)
    BY TextsAre
<1>2. Len(list) \in Nat /\ list \in Seq(Pairs(Characters))
    BY LenProperties DEF Lists
<1>3. new = IF i = 0 THEN Append(list, pair) ELSE [list EXCEPT ![i] = pair]
    BY DEF with_setting
<1>4. i \in Nat /\ (i # 0 => i \in 1..Len(list))
    BY IndexIs
<1> HIDE DEF new, pair, i
<1>5. CASE i = 0
    <2>1. /\ Append(list, pair) \in Lists /\ Len(Append(list, pair)) = Len(list) + 1
          /\ Append(list, pair)[Len(list) + 1] = pair
          /\ \A j \in 1..Len(list) : Append(list, pair)[j] = list[j]
        BY <1>1, <1>2, AppendProperties DEF Lists
    <2>2. \A j \in 1..Len(list) : j # i
        BY <1>5
    <2> QED BY <1>3, <1>5, <2>1, <2>2 DEF new, pair, i
<1>6. CASE i # 0
    <2>1. /\ [list EXCEPT ![i] = pair] \in Lists /\ Len([list EXCEPT ![i] = pair]) = Len(list)
          /\ \A j \in 1..Len(list) : [list EXCEPT ![i] = pair][j] = IF j = i THEN pair ELSE list[j]
        BY <1>1, <1>2, <1>4, <1>6, ExceptSeq DEF Lists
    <2> QED BY <1>3, <1>6, <2>1 DEF new, pair, i
<1> QED BY <1>5, <1>6

(* The list ResetToDefault makes.                                          *)
ResetList(o, exclude) ==
    [i \in 1..Len(default_settings[o]) |-> reset_setting(o, exclude, default_settings[o][i])]

LEMMA ResetListIs ==
    ASSUME ObjectsInv, NEW o \in Processes, NEW exclude
    PROVE  /\ ResetList(o, exclude) \in Lists
           /\ Len(ResetList(o, exclude)) = Len(default_settings[o])
           /\ \A i \in 1..Len(default_settings[o]) :
                 /\ ResetList(o, exclude)[i] = reset_setting(o, exclude, default_settings[o][i])
                 /\ ResetList(o, exclude)[i][1] = default_settings[o][i][1]
           /\ Len(default_settings[o]) <= MaxSettings /\ Len(default_settings[o]) \in Nat
<1> DEFINE default == default_settings[o]
           n == Len(default)
           P == Pairs(Characters)
           f == [i \in 1..n |-> reset_setting(o, exclude, default[i])]
<1>1. default \in Lists /\ settings[o] \in Lists
    BY DEF ObjectsInv
<1>2. n \in Nat /\ \A i \in 1..n : default[i] \in P
    BY <1>1, LenProperties, ElementOfSeq DEF Lists
<1>3. n <= MaxSettings
    <2>1. Len(<<>>) <= MaxSettings
        BY EmptySeq, SettingsAssumption
    <2> QED BY <2>1, TextsAre DEF ObjectsInv
<1> HIDE DEF n, default
<1>4. \A i \in 1..n : reset_setting(o, exclude, default[i]) \in P
                      /\ reset_setting(o, exclude, default[i])[1] = default[i][1]
    <2> TAKE i \in 1..n
    <2> DEFINE at == get_setting_index_by_key(settings[o], default[i][1])
    <2>1. is_setting_exist(o, default[i][1]) =>
              settings[o][at] \in P /\ settings[o][at][1] = default[i][1]
        BY <1>1, IndexIs DEF is_setting_exist
    <2>2. reset_setting(o, exclude, default[i]) =
              IF default[i][1] \in exclude /\ is_setting_exist(o, default[i][1])
              THEN settings[o][at] ELSE default[i]
        BY DEF reset_setting
    <2> HIDE DEF at, P
    <2> QED BY <1>2, <2>1, <2>2
<1> HIDE DEF P
<1>5. f \in Seq(P) /\ Len(f) = n
    BY <1>2, <1>4
<1>6. \A i \in 1..n : f[i] = reset_setting(o, exclude, default[i])
    OBVIOUS
<1>7. ResetList(o, exclude) = f
    BY DEF ResetList, n, default
<1> HIDE DEF f
<1> QED BY <1>2, <1>3, <1>4, <1>5, <1>6, <1>7 DEF P, Lists, n, default

LEMMA ObjectChanged ==
    ASSUME ObjectsInv, NEW o \in Processes, NEW list \in Lists, Len(list) <= MaxSettings,
           settings' = [settings EXCEPT ![o] = list]
    PROVE  /\ settings' \in [Processes -> Lists]
           /\ \A p \in Processes : settings'[p] = IF p = o THEN list ELSE settings[p]
           /\ \A p \in Processes : Len(settings'[p]) <= MaxSettings
<1>1. settings \in [Processes -> Lists] /\ \A p \in Processes : Len(settings[p]) <= MaxSettings
    BY DEF ObjectsInv
<1>2. settings' \in [Processes -> Lists]
      /\ \A p \in Processes : settings'[p] = IF p = o THEN list ELSE settings[p]
    BY <1>1
<1> QED BY <1>1, <1>2

LEMMA ReadIs ==
    ASSUME ObjectsInv, FileInv, NEW o \in Processes, LoadRead(o)
    PROVE  /\ parsed(file) \in Lists
           /\ \A k \in 1..Len(parsed(file)) : Clean(parsed(file)[k])
           /\ settings[o] \o parsed(file) \in Lists
           /\ Len(settings[o] \o parsed(file)) <= MaxSettings
           /\ settings' = [settings EXCEPT ![o] = settings[o] \o parsed(file)]
           /\ file # NoFile
<1>1. file \in Texts /\ file # NoFile
    BY TextsAre DEF LoadRead, FileInv
<1>2. parsed(file) \in Lists /\ \A k \in 1..Len(parsed(file)) : Clean(parsed(file)[k])
    BY <1>1, ParsedIsClean DEF Texts, Lists
<1>3. settings[o] \in Lists
    BY DEF ObjectsInv
<1>4. /\ settings[o] \o parsed(file) \in Lists
      /\ Len(settings[o] \o parsed(file)) = Len(settings[o]) + Len(parsed(file))
    BY <1>2, <1>3, ConcatProperties DEF Lists
<1> QED BY <1>1, <1>2, <1>4 DEF LoadRead

LEMMA ObjectsStep ==
    ASSUME ObjectsInv, FileInv, [Next]_vars
    PROVE  ObjectsInv'
<1>1. ASSUME UNCHANGED object_vars, UNCHANGED restarts PROVE ObjectsInv'
    BY <1>1 DEF ObjectsInv, object_vars
<1>2. ASSUME NEW o \in Processes, Process(o) PROVE ObjectsInv'
    <2>m. CASE LoadMissing(o)
        BY <2>m, <1>1 DEF LoadMissing
    <2>1. CASE LoadCreate(o)
        BY <2>1, <1>1 DEF LoadCreate
    <2>2. CASE LoadDefaults(o)
        BY <2>2, <1>1 DEF LoadDefaults
    <2>3. CASE LoadRead(o)
        <3>1. settings' \in [Processes -> Lists] /\ \A p \in Processes : Len(settings'[p]) <= MaxSettings
            BY <2>3, ReadIs, ObjectChanged
        <3> QED BY <2>3, <3>1 DEF ObjectsInv, LoadRead
    <2>4. CASE OpenFails(o)
        BY <2>4, <1>1 DEF OpenFails
    <2>5. CASE Save(o)
        BY <2>5, <1>1 DEF Save
    <2>6. CASE SaveOpen(o)
        BY <2>6, <1>1 DEF SaveOpen
    <2>7. CASE SaveWrite(o)
        BY <2>7, <1>1 DEF SaveWrite
    <2>8. CASE SetDefaults(o)
        <3>1. PICK list \in Defaults : default_settings' = [default_settings EXCEPT ![o] = list]
            BY <2>8 DEF SetDefaults
        <3>2. list \in Lists
            BY TextsAre
        <3>3. /\ default_settings' \in [Processes -> Lists]
              /\ \A p \in Processes : default_settings'[p] = IF p = o THEN list ELSE default_settings[p]
            BY <3>1, <3>2 DEF ObjectsInv
        <3> QED BY <2>8, <3>3 DEF ObjectsInv, SetDefaults
    <2>9. CASE SetAdd(o)
        <3>1. add_if_not_exist' \in [Processes -> BOOLEAN]
            BY <2>9 DEF SetAdd, ObjectsInv
        <3> QED BY <2>9, <3>1 DEF SetAdd, ObjectsInv
    <2>10. CASE Restart(o)
        <3>1. settings' \in [Processes -> Lists] /\ \A p \in Processes : Len(settings'[p]) <= MaxSettings
            <4>1. Len(<<>>) <= MaxSettings
                BY EmptySeq, SettingsAssumption
            <4> QED BY <2>10, <4>1, TextsAre, ObjectChanged DEF Restart
        <3>2. /\ default_settings' \in [Processes -> Lists]
              /\ \A p \in Processes : default_settings'[p] = IF p = o THEN <<>> ELSE default_settings[p]
            BY <2>10, TextsAre DEF ObjectsInv, Restart
        <3>3. add_if_not_exist' \in [Processes -> BOOLEAN]
            BY <2>10 DEF ObjectsInv, Restart
        <3>4. restarts' \in 0..MaxRestarts
            BY <2>10, SettingsAssumption DEF ObjectsInv, Restart
        <3> QED BY <3>1, <3>2, <3>3, <3>4 DEF ObjectsInv
    <2>11. ASSUME NEW key \in Keys, NEW value \in Values, SetSetting(o, key, value) PROVE ObjectsInv'
        <3> DEFINE i == get_setting_index_by_key(settings[o], key)
                   new == with_setting(settings[o], key, value)
        <3>1. settings[o] \in Lists /\ Len(settings[o]) <= MaxSettings /\ Len(settings[o]) \in Nat
            BY LenProperties DEF ObjectsInv, Lists
        <3>2. new \in Lists /\ Len(new) = IF i = 0 THEN Len(settings[o]) + 1 ELSE Len(settings[o])
            BY <3>1, WithSetting
        <3>3. i # 0 \/ Len(settings[o]) < MaxSettings
            BY <2>11 DEF SetSetting, is_setting_exist
        <3> HIDE DEF i
        <3>4. Len(new) <= MaxSettings
            BY <3>1, <3>2, <3>3, SettingsAssumption
        <3>5. settings' = [settings EXCEPT ![o] = new]
            BY <2>11 DEF SetSetting
        <3> HIDE DEF new
        <3>6. settings' \in [Processes -> Lists] /\ \A p \in Processes : Len(settings'[p]) <= MaxSettings
            BY <3>2, <3>4, <3>5, ObjectChanged
        <3> QED BY <2>11, <3>6 DEF ObjectsInv, SetSetting
    <2>12. ASSUME NEW exclude \in SUBSET Keys, ResetToDefault(o, exclude) PROVE ObjectsInv'
        <3>1. ResetList(o, exclude) \in Lists /\ Len(ResetList(o, exclude)) <= MaxSettings
            BY ResetListIs
        <3>2. settings' = [settings EXCEPT ![o] = ResetList(o, exclude)]
            BY <2>12 DEF ResetToDefault, ResetList
        <3>3. settings' \in [Processes -> Lists] /\ \A p \in Processes : Len(settings'[p]) <= MaxSettings
            BY <3>1, <3>2, ObjectChanged
        <3> QED BY <2>12, <3>3 DEF ObjectsInv, ResetToDefault
    <2> QED BY <1>2, <2>m, <2>1, <2>2, <2>3, <2>4, <2>5, <2>6, <2>7, <2>8, <2>9, <2>10, <2>11, <2>12 DEF Process
<1> QED BY <1>1, <1>2 DEF Next, vars

LEMMA Moved ==
    ASSUME FileInv, NEW o \in Processes, NEW where \in PCs, Goto(o, where)
    PROVE  /\ pc' \in [Processes -> PCs]
           /\ \A p \in Processes : pc'[p] = IF p = o THEN where ELSE pc[p]
BY DEF FileInv, Goto

LEMMA TruncateKeepsFile ==
    ASSUME FileInv, NEW o \in Processes, Truncate(o), NEW where \in PCs, Goto(o, where)
    PROVE  FileInv'
<1>1. pc' \in [Processes -> PCs]
    BY Moved
<1>2. alone' \in [Processes -> BOOLEAN]
    BY DEF Truncate
<1>3. file' = <<>> /\ saved' = NoList
    BY DEF Truncate, opened
<1>4. sound' \in BOOLEAN
    BY DEF Truncate, FileInv
<1>5. file' \in Texts /\ file' # NoFile
    BY <1>3, TextsAre
<1> QED BY <1>1, <1>2, <1>3, <1>4, <1>5 DEF FileInv

LEMMA WriteIs ==
    ASSUME FileInv, NEW o \in Processes, file # NoFile, NEW list \in Lists, WriteAndClose(o, list)
    PROVE  /\ file' \in Texts /\ alone' = alone
           /\ \E n \in 0..Len(get_settings_str(list)) :
                 /\ file = <<>> /\ n = Len(get_settings_str(list)) => file' = get_settings_str(list)
                 /\ saved' = IF n = Len(get_settings_str(list)) /\ alone[o] THEN list ELSE NoList
                 /\ sound' = (sound /\ n = Len(get_settings_str(list)))
<1>1. file \in Texts
    BY DEF FileInv
<1>2. PICK n \in 0..Len(get_settings_str(list)) :
         /\ file' = SubSeq(get_settings_str(list), 1, n) \o SubSeq(file, n + 1, Len(file))
         /\ saved' = IF n = Len(get_settings_str(list)) /\ alone[o] THEN list ELSE NoList
         /\ sound' = (sound /\ n = Len(get_settings_str(list)))
    BY DEF WriteAndClose
<1>3. file' \in Texts /\ (file = <<>> /\ n = Len(get_settings_str(list)) => file' = get_settings_str(list))
    BY <1>1, <1>2, Written
<1> QED BY <1>2, <1>3 DEF WriteAndClose

LEMMA WriteKeepsFile ==
    ASSUME FileInv, NEW o \in Processes, file # NoFile, NEW list \in Lists, WriteAndClose(o, list),
           NEW where \in PCs, Goto(o, where)
    PROVE  FileInv'
<1>1. pc' \in [Processes -> PCs]
    BY Moved
<1>2. file' \in Texts /\ file' # NoFile /\ alone' \in [Processes -> BOOLEAN]
    BY WriteIs, TextsAre DEF FileInv
<1>3. saved' # NoList => saved' \in Lists
    BY WriteIs
<1>4. sound' \in BOOLEAN
    BY WriteIs DEF FileInv
<1> QED BY <1>1, <1>2, <1>3, <1>4 DEF FileInv

LEMMA FileStep ==
    ASSUME ObjectsInv, FileInv, [Next]_vars
    PROVE  FileInv'
<1>1. ASSUME UNCHANGED file_vars, sound' \in BOOLEAN,
             NEW o \in Processes, NEW where \in {"idle", "save", "missing"}, Goto(o, where)
      PROVE  FileInv'
    <2>1. where \in PCs /\ where \notin {"creating", "reading", "saving"}
        BY DEF PCs
    <2>2. pc' \in [Processes -> PCs] /\ \A p \in Processes : pc'[p] = IF p = o THEN where ELSE pc[p]
        BY <1>1, <2>1, Moved
    <2> QED BY <1>1, <2>1, <2>2 DEF FileInv, file_vars
<1>2. ASSUME UNCHANGED file_vars, UNCHANGED pc, UNCHANGED sound PROVE FileInv'
    BY <1>2 DEF FileInv, file_vars
<1>3. sound \in BOOLEAN /\ {"idle", "missing", "save", "creating", "saving", "reading"} \subseteq PCs
    BY DEF FileInv, PCs
<1>4. ASSUME NEW o \in Processes, Process(o) PROVE FileInv'
    <2>m. CASE LoadMissing(o)
        BY <1>1, <1>3, <2>m DEF LoadMissing
    <2>1. CASE LoadCreate(o)
        BY <1>3, <2>1, TruncateKeepsFile DEF LoadCreate
    <2>2. CASE LoadDefaults(o)
        <3>1. file # NoFile /\ default_settings[o] \in Lists
            BY <2>2 DEF LoadDefaults, FileInv, ObjectsInv
        <3> QED BY <1>3, <2>2, <3>1, WriteKeepsFile DEF LoadDefaults
    <2>3. CASE LoadRead(o)
        BY <1>1, <1>3, <2>3 DEF LoadRead
    <2>4. CASE OpenFails(o)
        BY <1>1, <1>3, <2>4 DEF OpenFails
    <2>5. CASE Save(o)
        BY <1>1, <1>3, <2>5 DEF Save
    <2>6. CASE SaveOpen(o)
        BY <1>3, <2>6, TruncateKeepsFile DEF SaveOpen
    <2>7. CASE SaveWrite(o)
        <3>1. file # NoFile /\ settings[o] \in Lists
            BY <2>7 DEF SaveWrite, FileInv, ObjectsInv
        <3> QED BY <1>3, <2>7, <3>1, WriteKeepsFile DEF SaveWrite
    <2>8. CASE SetDefaults(o)
        BY <1>2, <2>8 DEF SetDefaults
    <2>9. CASE SetAdd(o)
        BY <1>2, <2>9 DEF SetAdd
    <2>10. CASE Restart(o)
        BY <1>1, <1>3, <2>10 DEF Restart
    <2>11. ASSUME NEW key \in Keys, NEW value \in Values, SetSetting(o, key, value) PROVE FileInv'
        <3>1. PICK autosave \in BOOLEAN : Goto(o, IF autosave THEN "save" ELSE "idle")
            BY <2>11 DEF SetSetting
        <3> QED BY <1>1, <1>3, <2>11, <3>1 DEF SetSetting
    <2>12. ASSUME NEW exclude \in SUBSET Keys, ResetToDefault(o, exclude) PROVE FileInv'
        BY <1>2, <2>12 DEF ResetToDefault
    <2> QED BY <1>4, <2>m, <2>1, <2>2, <2>3, <2>4, <2>5, <2>6, <2>7, <2>8, <2>9, <2>10, <2>11, <2>12 DEF Process
<1>5. CASE UNCHANGED vars
    BY <1>2, <1>5 DEF vars
<1> QED BY <1>4, <1>5 DEF Next

TypeInv == ObjectsInv /\ FileInv

LEMMA SettingsTypeInv == Spec => []TypeInv
<1>1. Init => TypeInv
    <2> SUFFICES ASSUME Init PROVE ObjectsInv /\ FileInv
        BY DEF TypeInv
    <2>1. Len(<<>>) <= MaxSettings /\ 0 \in 0..MaxRestarts
        BY EmptySeq, SettingsAssumption
    <2>2. ObjectsInv
        BY <2>1, TextsAre DEF Init, ObjectsInv
    <2>3. FileInv
        BY DEF Init, FileInv, PCs
    <2> QED BY <2>2, <2>3
<1>2. TypeInv /\ [Next]_vars => TypeInv'
    BY ObjectsStep, FileStep DEF TypeInv
<1> QED BY <1>1, <1>2, PTL DEF Spec

LEMMA IsAList ==
    ASSUME NEW list \in Lists
    PROVE  IsList(list)
<1>1. DOMAIN list = 1..Len(list)
    BY LenProperties DEF Lists
<1>2. \A i \in 1..Len(list) : list[i] \in Pairs(Characters)
    BY ElementOfSeq DEF Lists
<1>3. \A a, b \in Seq(Characters) : Len(<<a, b>>) = 2
    OBVIOUS
<1>4. \A p \in Pairs(Characters) : Len(p) = 2
    BY <1>3 DEF Pairs
<1> QED BY <1>1, <1>2, <1>4 DEF IsList

(* The settings of every object and the file of every program, whatever    *)
(* order they load, save, fail and end in, are what their types say.       *)
THEOREM SettingsTypeCorrect == Spec => []TypeOK
<1>1. TypeInv => TypeOK
    BY IsAList DEF TypeInv, ObjectsInv, FileInv, TypeOK, PCs
<1> QED BY <1>1, SettingsTypeInv, PTL

-----------------------------------------------------------------------------
(* What was saved is loaded.                                               *)

Writing(o) == pc[o] \in {"creating", "saving"}

(* A writer that is alone found the file empty and still has it so.        *)
SavedInv ==
    /\ saved # NoList => file = get_settings_str(saved)
    /\ \A o \in Processes : alone[o] /\ Writing(o) =>
          file = <<>> /\ \A p \in Processes : Writing(p) => p = o

LEMMA OthersAre ==
    ASSUME NEW o \in Processes
    PROVE  Others(o) = {} <=> \A p \in Processes : Writing(p) => p = o
BY DEF Others, Writing

(* The next state of the writers.                                          *)
LEMMA WritersMoved ==
    ASSUME FileInv, NEW o \in Processes, NEW where \in PCs, Goto(o, where)
    PROVE  \A p \in Processes : Writing(p)' <=> IF p = o THEN where \in {"creating", "saving"} ELSE Writing(p)
BY Moved DEF Writing

LEMMA TruncateKeepsSaved ==
    ASSUME FileInv, NEW o \in Processes, Truncate(o), NEW where \in {"creating", "saving"}, Goto(o, where)
    PROVE  SavedInv'
<1>1. where \in PCs
    BY DEF PCs
<1>2. \A p \in Processes : Writing(p)' <=> IF p = o THEN TRUE ELSE Writing(p)
    BY <1>1, WritersMoved
<1>3. file' = <<>> /\ saved' = NoList /\ \A p \in Processes : alone'[p] <=> p = o /\ Others(o) = {}
    BY DEF Truncate, opened
<1> QED BY <1>2, <1>3, OthersAre DEF SavedInv

LEMMA WriteKeepsSaved ==
    ASSUME FileInv, SavedInv, NEW o \in Processes, Writing(o), NEW list \in Lists, WriteAndClose(o, list),
           NEW where \in {"idle", "reading"}, Goto(o, where)
    PROVE  SavedInv'
<1>1. where \in PCs
    BY DEF PCs
<1>2. \A p \in Processes : Writing(p)' <=> IF p = o THEN FALSE ELSE Writing(p)
    BY <1>1, WritersMoved
<1>3. file # NoFile
    BY DEF FileInv, Writing
<1>4. saved' # NoList => file' = get_settings_str(saved')
    <2>1. PICK n \in 0..Len(get_settings_str(list)) :
             /\ file = <<>> /\ n = Len(get_settings_str(list)) => file' = get_settings_str(list)
             /\ saved' = IF n = Len(get_settings_str(list)) /\ alone[o] THEN list ELSE NoList
        BY <1>3, WriteIs
    <2>2. alone[o] => file = <<>>
        BY DEF SavedInv
    <2> QED BY <2>1, <2>2
<1>5. alone' = alone
    BY <1>3, WriteIs
<1>6. ASSUME NEW p \in Processes, alone'[p], Writing(p)' PROVE FALSE
    BY <1>2, <1>5, <1>6 DEF SavedInv
<1> QED BY <1>4, <1>6 DEF SavedInv

(* Steps of a process that leave the file alone and do not become writers. *)
LEMMA OtherKeepsSaved ==
    ASSUME SavedInv, UNCHANGED file_vars, \A p \in Processes : Writing(p)' => Writing(p)
    PROVE  SavedInv'
BY DEF SavedInv, file_vars

LEMMA NotWriting ==
    ASSUME FileInv, NEW o \in Processes, NEW where \in {"idle", "save", "missing"}, Goto(o, where)
    PROVE  \A p \in Processes : Writing(p)' => Writing(p)
<1>1. where \in PCs
    BY DEF PCs
<1> QED BY <1>1, WritersMoved

(* The kinds of steps there are.                                           *)
LEMMA Kinds ==
    ASSUME TypeInv, [Next]_vars
    PROVE  \/ \E o \in Processes, where \in {"creating", "saving"} :
                 Truncate(o) /\ Goto(o, where) /\ UNCHANGED object_vars
           \/ \E o \in Processes, where \in {"idle", "reading"} :
                 /\ Writing(o) /\ Goto(o, where) /\ UNCHANGED object_vars
                 /\ WriteAndClose(o, settings[o]) \/ WriteAndClose(o, default_settings[o])
           \/ \E o \in Processes :
                 LoadRead(o) /\ UNCHANGED file_vars /\ \A p \in Processes : Writing(p)' => Writing(p)
           \/ /\ UNCHANGED <<file_vars, sound>> /\ \A p \in Processes : Writing(p)' => Writing(p)
              /\ \/ UNCHANGED settings
                 \/ \E o \in Processes : settings' = [settings EXCEPT ![o] = <<>>]
                 \/ \E o \in Processes, key \in Keys, value \in Values :
                       settings' = [settings EXCEPT ![o] = with_setting(settings[o], key, value)]
                 \/ \E o \in Processes, exclude \in SUBSET Keys :
                       settings' = [settings EXCEPT ![o] = ResetList(o, exclude)]
<1> DEFINE Opens == \E o \in Processes, where \in {"creating", "saving"} :
                        Truncate(o) /\ Goto(o, where) /\ UNCHANGED object_vars
           Writes == \E o \in Processes, where \in {"idle", "reading"} :
                        /\ Writing(o) /\ Goto(o, where) /\ UNCHANGED object_vars
                        /\ WriteAndClose(o, settings[o]) \/ WriteAndClose(o, default_settings[o])
           Loads == \E o \in Processes :
                        LoadRead(o) /\ UNCHANGED file_vars /\ \A p \in Processes : Writing(p)' => Writing(p)
           Same == UNCHANGED <<file_vars, sound>> /\ \A p \in Processes : Writing(p)' => Writing(p)
           Changed == \/ UNCHANGED settings
                      \/ \E o \in Processes : settings' = [settings EXCEPT ![o] = <<>>]
                      \/ \E o \in Processes, key \in Keys, value \in Values :
                            settings' = [settings EXCEPT ![o] = with_setting(settings[o], key, value)]
                      \/ \E o \in Processes, exclude \in SUBSET Keys :
                            settings' = [settings EXCEPT ![o] = ResetList(o, exclude)]
<1> SUFFICES Opens \/ Writes \/ Loads \/ (Same /\ Changed)
    OBVIOUS
<1>1. FileInv
    BY DEF TypeInv
<1>2. UNCHANGED pc => \A p \in Processes : Writing(p)' => Writing(p)
    BY DEF Writing
<1>3. ASSUME NEW o \in Processes, Process(o) PROVE Opens \/ Writes \/ Loads \/ (Same /\ Changed)
    <2>m. CASE LoadMissing(o)
        <3>1. Same /\ UNCHANGED settings
            BY <1>1, <2>m, NotWriting DEF LoadMissing, object_vars
        <3> QED BY <3>1
    <2>1. CASE LoadCreate(o)
        <3>1. Opens
            BY <2>1 DEF LoadCreate
        <3> QED BY <3>1
    <2>2. CASE LoadDefaults(o)
        <3>1. Writes
            BY <2>2 DEF LoadDefaults, Writing
        <3> QED BY <3>1
    <2>3. CASE LoadRead(o)
        <3>1. Loads
            BY <1>1, <2>3, NotWriting DEF LoadRead
        <3> QED BY <3>1
    <2>4. CASE OpenFails(o)
        <3>1. Same /\ UNCHANGED settings
            BY <1>1, <2>4, NotWriting DEF OpenFails, object_vars
        <3> QED BY <3>1
    <2>5. CASE Save(o)
        <3>1. Same /\ UNCHANGED settings
            BY <1>1, <2>5, NotWriting DEF Save, object_vars
        <3> QED BY <3>1
    <2>6. CASE SaveOpen(o)
        <3>1. Opens
            BY <2>6 DEF SaveOpen
        <3> QED BY <3>1
    <2>7. CASE SaveWrite(o)
        <3>1. Writes
            BY <2>7 DEF SaveWrite, Writing
        <3> QED BY <3>1
    <2>8. CASE SetDefaults(o)
        <3>1. Same /\ UNCHANGED settings
            BY <1>2, <2>8 DEF SetDefaults
        <3> QED BY <3>1
    <2>9. CASE SetAdd(o)
        <3>1. Same /\ UNCHANGED settings
            BY <1>2, <2>9 DEF SetAdd
        <3> QED BY <3>1
    <2>10. CASE Restart(o)
        <3>1. Same /\ settings' = [settings EXCEPT ![o] = <<>>]
            BY <1>1, <2>10, NotWriting DEF Restart
        <3> QED BY <3>1
    <2>11. ASSUME NEW key \in Keys, NEW value \in Values, SetSetting(o, key, value) PROVE Same /\ Changed
        <3>1. PICK autosave \in BOOLEAN : Goto(o, IF autosave THEN "save" ELSE "idle")
            BY <2>11 DEF SetSetting
        <3>2. Same
            BY <1>1, <2>11, <3>1, NotWriting DEF SetSetting
        <3>3. settings' = [settings EXCEPT ![o] = with_setting(settings[o], key, value)]
            BY <2>11 DEF SetSetting
        <3> QED BY <3>2, <3>3
    <2>12. ASSUME NEW exclude \in SUBSET Keys, ResetToDefault(o, exclude) PROVE Same /\ Changed
        <3>1. Same
            BY <1>2, <2>12 DEF ResetToDefault
        <3>2. settings' = [settings EXCEPT ![o] = ResetList(o, exclude)]
            BY <2>12 DEF ResetToDefault, ResetList
        <3> QED BY <3>1, <3>2
    <2> HIDE DEF Opens, Writes, Loads, Same, Changed
    <2> QED BY <1>3, <2>m, <2>1, <2>2, <2>3, <2>4, <2>5, <2>6, <2>7, <2>8, <2>9, <2>10, <2>11, <2>12 DEF Process
<1>4. CASE UNCHANGED vars
    <2>1. Same /\ UNCHANGED settings
        BY <1>2, <1>4 DEF vars, object_vars
    <2> QED BY <2>1
<1> HIDE DEF Opens, Writes, Loads, Same, Changed
<1> QED BY <1>3, <1>4 DEF Next

LEMMA SavedStep ==
    ASSUME TypeInv, SavedInv, [Next]_vars
    PROVE  SavedInv'
<1>1. FileInv /\ ObjectsInv
    BY DEF TypeInv
<1>2. CASE \E o \in Processes, where \in {"creating", "saving"} : Truncate(o) /\ Goto(o, where)
    BY <1>1, <1>2, TruncateKeepsSaved
<1>3. ASSUME NEW o \in Processes, NEW where \in {"idle", "reading"}, Writing(o), Goto(o, where),
             WriteAndClose(o, settings[o]) \/ WriteAndClose(o, default_settings[o])
      PROVE  SavedInv'
    <2>1. settings[o] \in Lists /\ default_settings[o] \in Lists
        BY <1>1 DEF ObjectsInv
    <2> QED BY <1>1, <1>3, <2>1, WriteKeepsSaved
<1>4. CASE UNCHANGED file_vars /\ \A p \in Processes : Writing(p)' => Writing(p)
    BY <1>4, OtherKeepsSaved
<1> QED BY <1>2, <1>3, <1>4, Kinds

LEMMA SavedInvariant == Spec => []SavedInv
<1>1. Init => SavedInv
    BY DEF Init, SavedInv, Writing
<1>2. TypeInv /\ SavedInv /\ [Next]_vars => SavedInv'
    BY SavedStep
<1> QED BY <1>1, <1>2, SettingsTypeInv, PTL DEF Spec

(* A clean list written whole by a process that had the file to itself is  *)
(* what every process loads until the file is next opened for writing.     *)
THEOREM SavedIsWhatIsLoaded == Spec => []SavedIsLoaded
<1>1. TypeInv /\ SavedInv => SavedIsLoaded
    <2> SUFFICES ASSUME TypeInv, SavedInv, saved # NoList, \A i \in 1..Len(saved) : Clean(saved[i])
                 PROVE  parsed(file) = saved
        BY DEF SavedIsLoaded
    <2>1. saved \in Seq(Pairs(Characters)) /\ file = get_settings_str(saved)
        BY DEF TypeInv, FileInv, SavedInv, Lists
    <2> QED BY <2>1, TextsAre, ReadBack
<1> QED BY <1>1, SettingsTypeInv, SavedInvariant, PTL

-----------------------------------------------------------------------------
(* No key twice.                                                           *)

(* What set_setting and set_default_settings are given can be written on   *)
(* lines of its own, and no key is twice among the defaults.               *)
CleanList(list) == Distinct(list) /\ \A i \in 1..Len(list) : Clean(list[i])

CleanInputs ==
    /\ \A key \in Keys, value \in Values : Clean(<<key, value>>)
    /\ \A list \in Defaults : CleanList(list)

(* As long as all is sound, one process at most is writing, to a file it   *)
(* found empty, and the file is the text of a clean list.                  *)
SoundInv ==
    sound =>
      /\ \A o \in Processes : CleanList(settings[o])
      /\ file = NoFile \/ \E list \in Lists : CleanList(list) /\ file = get_settings_str(list)
      /\ \A o \in Processes : Writing(o) =>
            file = <<>> /\ \A p \in Processes : Writing(p) => p = o

LEMMA EmptyIsClean == CleanList(<<>>) /\ get_settings_str(<<>>) = <<>>
<1>1. Len(<<>>) = 0 /\ <<>> \in Lists
    BY EmptySeq, TextsAre
<1>2. get_settings_str(<<>>) = Str(<<>>)[Len(<<>>)] /\ Str(<<>>)[0] = <<>>
    BY <1>1, TextsAre, StrIs DEF Lists
<1> QED BY <1>1, <1>2 DEF CleanList, Distinct

LEMMA WithSettingIsClean ==
    ASSUME CleanInputs, NEW list \in Lists, CleanList(list), NEW key \in Keys, NEW value \in Values
    PROVE  CleanList(with_setting(list, key, value))
<1> DEFINE i == get_setting_index_by_key(list, key)
           new == with_setting(list, key, value)
           pair == <<key, value>>
           n == Len(list)
<1>1. /\ new \in Lists /\ Len(new) = IF i = 0 THEN n + 1 ELSE n
      /\ i = 0 => new[n + 1] = pair
      /\ \A j \in 1..n : new[j] = IF j = i THEN pair ELSE list[j]
    BY WithSetting
<1>2. n \in Nat
    BY LenProperties DEF Lists
<1>3. Clean(pair) /\ pair[1] = key
    BY DEF CleanInputs
<1>4. /\ i \in Nat /\ (i # 0 => i \in 1..n /\ list[i][1] = key)
      /\ i = 0 => \A j \in 1..n : list[j][1] # key
    BY IndexIs DEF IndexesOf
<1>5. (\A j \in 1..n : Clean(list[j])) /\ \A j, k \in 1..n : list[j][1] = list[k][1] => j = k
    BY DEF CleanList, Distinct
<1> HIDE DEF i, new, pair, n
<1>6. CASE i = 0
    <2>1. Len(new) = n + 1 /\ new[n + 1] = pair /\ \A j \in 1..n : new[j] = list[j] /\ list[j][1] # key
        <3>1. \A j \in 1..n : j # i
            BY <1>6
        <3> QED BY <1>1, <1>4, <1>6, <3>1
    <2>2. \A j \in 1..(n + 1) : j = n + 1 \/ j \in 1..n
        BY <1>2
    <2>3. \A j \in 1..(n + 1) : Clean(new[j])
        BY <1>3, <1>5, <2>1, <2>2
    <2>4. \A j, k \in 1..(n + 1) : new[j][1] = new[k][1] => j = k
        <3> TAKE j, k \in 1..(n + 1)
        <3>1. CASE j \in 1..n /\ k \in 1..n
            BY <1>5, <2>1, <3>1
        <3>2. CASE j = n + 1 /\ k \in 1..n
            BY <1>3, <2>1, <3>2
        <3>3. CASE j \in 1..n /\ k = n + 1
            BY <1>3, <2>1, <3>3
        <3>4. CASE j = n + 1 /\ k = n + 1
            BY <3>4
        <3> QED BY <2>2, <3>1, <3>2, <3>3, <3>4
    <2> QED BY <2>1, <2>3, <2>4 DEF CleanList, Distinct, new
<1>7. CASE i # 0
    <2>1. Len(new) = n
        BY <1>1, <1>7
    <2>2. \A j \in 1..n : new[j][1] = list[j][1] /\ Clean(new[j])
        BY <1>1, <1>3, <1>4, <1>5, <1>7
    <2> QED BY <1>5, <2>1, <2>2 DEF CleanList, Distinct, new
<1> QED BY <1>6, <1>7

LEMMA DefaultsAreClean ==
    ASSUME CleanInputs, ObjectsInv, NEW o \in Processes
    PROVE  CleanList(default_settings[o]) /\ default_settings[o] \in Lists
BY EmptyIsClean DEF CleanInputs, ObjectsInv

LEMMA ResetListIsClean ==
    ASSUME CleanInputs, ObjectsInv, NEW o \in Processes, CleanList(settings[o]), NEW exclude
    PROVE  CleanList(ResetList(o, exclude))
<1> DEFINE n == Len(default_settings[o])
           new == ResetList(o, exclude)
<1>1. /\ Len(new) = n
      /\ \A i \in 1..n : new[i] = reset_setting(o, exclude, default_settings[o][i])
                         /\ new[i][1] = default_settings[o][i][1]
    BY ResetListIs
<1>2. /\ \A i \in 1..n : Clean(default_settings[o][i])
      /\ \A i, j \in 1..n : default_settings[o][i][1] = default_settings[o][j][1] => i = j
    BY DefaultsAreClean DEF CleanList, Distinct
<1>3. settings[o] \in Lists /\ \A i \in 1..Len(settings[o]) : Clean(settings[o][i])
    BY DEF CleanList, ObjectsInv
<1> HIDE DEF n, new
<1>4. \A i \in 1..n : Clean(new[i])
    <2> TAKE i \in 1..n
    <2> DEFINE default == default_settings[o][i]
               at == get_setting_index_by_key(settings[o], default[1])
    <2>1. new[i] = reset_setting(o, exclude, default) /\ Clean(default)
        BY <1>1, <1>2
    <2>2. reset_setting(o, exclude, default) =
              IF default[1] \in exclude /\ is_setting_exist(o, default[1]) THEN settings[o][at] ELSE default
        BY DEF reset_setting
    <2>3. is_setting_exist(o, default[1]) => Clean(settings[o][at])
        BY <1>3, IndexIs DEF is_setting_exist
    <2> HIDE DEF at, default
    <2> QED BY <2>1, <2>2, <2>3
<1>5. \A i, j \in 1..n : new[i][1] = new[j][1] => i = j
    BY <1>1, <1>2
<1> QED BY <1>1, <1>4, <1>5 DEF CleanList, Distinct, new

LEMMA SoundStep ==
    ASSUME CleanInputs, TypeInv, SoundInv, [Next]_vars
    PROVE  SoundInv'
<1>1. FileInv /\ ObjectsInv
    BY DEF TypeInv
<1>2. ASSUME NEW o \in Processes, NEW where \in {"creating", "saving"},
             Truncate(o), Goto(o, where), UNCHANGED object_vars
      PROVE  SoundInv'
    <2> SUFFICES ASSUME sound' PROVE SoundInv'
        BY DEF SoundInv
    <2>1. sound /\ Others(o) = {} /\ file' = <<>>
        BY <1>2 DEF Truncate, opened
    <2>2. settings' = settings /\ \A p \in Processes : CleanList(settings[p])
        BY <1>2, <2>1 DEF SoundInv, object_vars
    <2>3. \E list \in Lists : CleanList(list) /\ file' = get_settings_str(list)
        BY <2>1, EmptyIsClean, TextsAre
    <2>4. where \in PCs
        BY DEF PCs
    <2>5. \A p \in Processes : Writing(p)' => p = o
        BY <1>1, <1>2, <2>1, <2>4, WritersMoved, OthersAre
    <2> QED BY <2>1, <2>2, <2>3, <2>5 DEF SoundInv
<1>3. ASSUME NEW o \in Processes, NEW where \in {"idle", "reading"}, NEW list \in Lists,
             Writing(o), Goto(o, where), UNCHANGED object_vars,
             WriteAndClose(o, list), list \in {settings[o], default_settings[o]}
      PROVE  SoundInv'
    <2> SUFFICES ASSUME sound' PROVE SoundInv'
        BY DEF SoundInv
    <2>1. file # NoFile
        BY <1>1, <1>3 DEF FileInv, Writing
    <2>2. PICK n \in 0..Len(get_settings_str(list)) :
             /\ file = <<>> /\ n = Len(get_settings_str(list)) => file' = get_settings_str(list)
             /\ sound' = (sound /\ n = Len(get_settings_str(list)))
        BY <1>1, <1>3, <2>1, WriteIs
    <2>3. sound /\ file = <<>> /\ file' = get_settings_str(list)
          /\ \A p \in Processes : Writing(p) => p = o
        BY <1>3, <2>2 DEF SoundInv
    <2>4. CleanList(list) /\ settings' = settings /\ \A p \in Processes : CleanList(settings[p])
        BY <1>1, <1>3, <2>3, DefaultsAreClean DEF SoundInv, object_vars
    <2>5. where \in PCs
        BY DEF PCs
    <2>6. \A p \in Processes : ~ Writing(p)'
        BY <1>1, <1>3, <2>3, <2>5, WritersMoved
    <2> QED BY <2>3, <2>4, <2>6 DEF SoundInv
<1>4. ASSUME NEW o \in Processes, LoadRead(o), UNCHANGED file_vars,
             \A p \in Processes : Writing(p)' => Writing(p)
      PROVE  SoundInv'
    <2> SUFFICES ASSUME sound' PROVE SoundInv'
        BY DEF SoundInv
    <2>1. sound /\ settings[o] = <<>> /\ file' = file
        BY <1>4 DEF LoadRead, file_vars
    <2>2. /\ parsed(file) \in Lists /\ file # NoFile
          /\ settings' = [settings EXCEPT ![o] = settings[o] \o parsed(file)]
        BY <1>1, <1>4, ReadIs
    <2>3. settings[o] \o parsed(file) = parsed(file)
        BY <2>1, <2>2, ConcatEmptySeq DEF Lists
    <2>4. CleanList(parsed(file))
        <3>1. PICK list \in Lists : CleanList(list) /\ file = get_settings_str(list)
            BY <2>1, <2>2 DEF SoundInv
        <3>2. parsed(file) = list
            BY <3>1, TextsAre, ReadBack DEF CleanList, Lists
        <3> QED BY <3>1, <3>2
    <2>5. \A p \in Processes : settings'[p] = IF p = o THEN parsed(file) ELSE settings[p]
        BY <1>1, <2>2, <2>3 DEF ObjectsInv
    <2> QED BY <1>4, <2>1, <2>4, <2>5 DEF SoundInv
<1>5. ASSUME UNCHANGED <<file_vars, sound>>, \A p \in Processes : Writing(p)' => Writing(p),
             sound => \A p \in Processes : CleanList(settings'[p])
      PROVE  SoundInv'
    BY <1>5 DEF SoundInv, file_vars
<1>6. ASSUME sound, NEW o \in Processes, NEW list, CleanList(list),
             settings' = [settings EXCEPT ![o] = list]
      PROVE  \A p \in Processes : CleanList(settings'[p])
    <2>1. \A p \in Processes : settings'[p] = IF p = o THEN list ELSE settings[p]
        BY <1>1, <1>6 DEF ObjectsInv
    <2> QED BY <1>6, <2>1 DEF SoundInv
<1>7. ASSUME sound PROVE \A p \in Processes : CleanList(settings[p]) /\ settings[p] \in Lists
    BY <1>1, <1>7 DEF SoundInv, ObjectsInv
<1>8. ASSUME UNCHANGED <<file_vars, sound>>, \A p \in Processes : Writing(p)' => Writing(p),
             \/ UNCHANGED settings
             \/ \E o \in Processes : settings' = [settings EXCEPT ![o] = <<>>]
             \/ \E o \in Processes, key \in Keys, value \in Values :
                   settings' = [settings EXCEPT ![o] = with_setting(settings[o], key, value)]
             \/ \E o \in Processes, exclude \in SUBSET Keys :
                   settings' = [settings EXCEPT ![o] = ResetList(o, exclude)]
      PROVE  SoundInv'
    <2> SUFFICES ASSUME sound PROVE \A p \in Processes : CleanList(settings'[p])
        BY <1>5, <1>8
    <2>1. CASE UNCHANGED settings
        BY <1>7, <2>1
    <2>2. ASSUME NEW o \in Processes, settings' = [settings EXCEPT ![o] = <<>>]
          PROVE  \A p \in Processes : CleanList(settings'[p])
        BY <1>6, <2>2, EmptyIsClean
    <2>3. ASSUME NEW o \in Processes, NEW key \in Keys, NEW value \in Values,
                 settings' = [settings EXCEPT ![o] = with_setting(settings[o], key, value)]
          PROVE  \A p \in Processes : CleanList(settings'[p])
        <3>1. CleanList(with_setting(settings[o], key, value))
            BY <1>7, WithSettingIsClean
        <3> QED BY <1>6, <2>3, <3>1
    <2>4. ASSUME NEW o \in Processes, NEW exclude \in SUBSET Keys,
                 settings' = [settings EXCEPT ![o] = ResetList(o, exclude)]
          PROVE  \A p \in Processes : CleanList(settings'[p])
        <3>1. CleanList(ResetList(o, exclude))
            BY <1>1, <1>7, ResetListIsClean
        <3> QED BY <1>6, <2>4, <3>1
    <2> QED BY <1>8, <2>1, <2>2, <2>3, <2>4
<1>9. ASSUME NEW o \in Processes, NEW where \in {"idle", "reading"},
             Writing(o), Goto(o, where), UNCHANGED object_vars,
             WriteAndClose(o, settings[o]) \/ WriteAndClose(o, default_settings[o])
      PROVE  SoundInv'
    <2>1. settings[o] \in Lists /\ default_settings[o] \in Lists
        BY <1>1 DEF ObjectsInv
    <2> QED BY <1>3, <1>9, <2>1
<1> QED BY <1>2, <1>4, <1>8, <1>9, Kinds

(* No object holds a key twice, nor does the file bring one to it, as long *)
(* as loads come first, writers take turns and no write is cut short, for  *)
(* clean inputs.                                                           *)
THEOREM KeysStayDistinct == CleanInputs => (Spec => []KeysAreDistinct)
<1> SUFFICES ASSUME CleanInputs PROVE Spec => []KeysAreDistinct
    OBVIOUS
<1>1. Init => SoundInv
    BY EmptyIsClean DEF Init, SoundInv, Writing
<1>2. TypeInv /\ SoundInv /\ [Next]_vars => SoundInv'
    BY SoundStep
<1>3. SoundInv => KeysAreDistinct
    BY DEF SoundInv, KeysAreDistinct, CleanList
<1> QED BY <1>1, <1>2, <1>3, SettingsTypeInv, PTL DEF Spec

(* A reset leaves the keys of the defaults, in their order, and an         *)
(* excluded one of them keeps the value it had, whatever keys are twice in *)
(* either list.                                                            *)
THEOREM ResetsKeepExcluded == Spec => ResetKeepsExcluded
<1> DEFINE Kept(o, exclude) ==
               /\ Len(settings'[o]) = Len(default_settings[o])
               /\ \A i \in 1..Len(default_settings[o]) :
                     settings'[o][i][1] = default_settings[o][i][1]
               /\ \A key \in exclude :
                     is_setting_exist(o, key) /\ IndexesOf(settings'[o], key) # {}
                         => Value(settings'[o], key) = Value(settings[o], key)
           Resets == \A o \in Processes, exclude \in SUBSET Keys : ResetToDefault(o, exclude) => Kept(o, exclude)
<1>1. TypeInv /\ [Next]_vars => Resets
    <2> SUFFICES ASSUME TypeInv, NEW o \in Processes, NEW exclude \in SUBSET Keys, ResetToDefault(o, exclude)
                 PROVE  Kept(o, exclude)
        OBVIOUS
    <2> DEFINE new == ResetList(o, exclude)
               n == Len(default_settings[o])
    <2>1. ObjectsInv
        BY DEF TypeInv
    <2>2. settings'[o] = new
        BY <2>1 DEF ResetToDefault, ResetList, ObjectsInv
    <2>3. /\ new \in Lists /\ Len(new) = n
          /\ \A i \in 1..n : new[i] = reset_setting(o, exclude, default_settings[o][i])
                             /\ new[i][1] = default_settings[o][i][1]
        BY <2>1, ResetListIs
    <2> HIDE DEF new
    <2>4. ASSUME NEW key \in exclude, is_setting_exist(o, key), IndexesOf(new, key) # {}
          PROVE  Value(new, key) = Value(settings[o], key)
        <3> DEFINE i == get_setting_index_by_key(new, key)
        <3>1. i \in 1..n /\ new[i][1] = key
            BY <2>3, <2>4, IndexIs
        <3>2. default_settings[o][i][1] = key /\ new[i] = reset_setting(o, exclude, default_settings[o][i])
            BY <2>3, <3>1
        <3> HIDE DEF i
        <3>3. new[i] = settings[o][get_setting_index_by_key(settings[o], key)]
            BY <2>4, <3>2 DEF reset_setting
        <3> QED BY <3>3 DEF Value, i
    <2> QED BY <2>2, <2>3, <2>4
<1>2. TypeInv /\ [Next]_vars => [Resets]_vars
    BY <1>1
<1> QED BY <1>2, SettingsTypeInv, PTL DEF Spec, ResetKeepsExcluded

=============================================================================
