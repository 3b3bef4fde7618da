---------------------------- MODULE HeadersProofs ----------------------------
(***************************************************************************)
(* Theorems about the two class templates, StateMachine and Matrix.        *)
(***************************************************************************)
EXTENDS StateMachine, Matrix, SequenceTheorems, TLAPS

-----------------------------------------------------------------------------
(***************************************************************************)
(* Theorems about StateMachine, for any number of states, objects and      *)
(* nested callbacks: its types, OwnsItsStates, OneActive and               *)
(* FollowsTransitions.  The last two need that, until a transition is made *)
(* under an on_exit, the stack holds one on_exit at most, and that the     *)
(* transition it is part of stays declared, though the callback may add    *)
(* states and transitions.                                                 *)
(***************************************************************************)

(* What states_ holds under an id has that id.                             *)
IdsInv == \A id \in StateIds : states_[id] \in Objects => id_[states_[id]] = id

(* An object not made yet has no transitions.                              *)
UnmadeInv ==
    \A o \in Objects, id \in StateIds : o > objects => transitions_[o][id] = Absent

Exits(k) == stack[k].callback = "on_exit"

(* The on_exit under way, if no transition was made under one.             *)
ExitInv ==
    ~ overtaken =>
        /\ \A k, l \in 1..Len(stack) : Exits(k) /\ Exits(l) => k = l
        /\ \A k \in 1..Len(stack) :
              Exits(k) => /\ curr_state_ # nullptr
                          /\ transitions_[curr_state_][id_[stack[k].to]] = stack[k].to

MachineInv == TypeOK /\ OwnsItsStates /\ IdsInv /\ UnmadeInv /\ ExitInv /\ OneActive

-----------------------------------------------------------------------------
LEMMA ObjectsAreNotNull ==
    /\ nullptr \notin Objects /\ Absent \notin Objects /\ nullptr # Absent
    /\ \A o \in Objects : o \in Int /\ o \in Entries /\ o # nullptr /\ o # Absent
    /\ nullptr \in Entries /\ Absent \in Entries
    /\ MaxObjects \in Nat
BY MachineAssumption DEF Objects, nullptr, Absent, Entries

(* A callback called, and one that has returned.                           *)
LEMMA Pushed ==
    ASSUME NEW S, NEW s \in Seq(S), NEW f \in S
    PROVE  /\ Append(s, f) \in Seq(S) /\ Len(Append(s, f)) = Len(s) + 1 /\ Len(s) \in Nat
           /\ \A k \in 1..Len(s) : Append(s, f)[k] = s[k]
           /\ Append(s, f)[Len(s) + 1] = f
OBVIOUS

LEMMA Popped ==
    ASSUME NEW S, NEW s \in Seq(S), s # <<>>
    PROVE  /\ SubSeq(s, 1, Len(s) - 1) \in Seq(S) /\ Len(s) \in Nat /\ Len(s) > 0
           /\ Len(SubSeq(s, 1, Len(s) - 1)) = Len(s) - 1
           /\ \A k \in 1..(Len(s) - 1) : SubSeq(s, 1, Len(s) - 1)[k] = s[k]
           /\ s[Len(s)] \in S
<1> DEFINE n == Len(s) - 1
           front == SubSeq(s, 1, n)
<1>1. Len(s) \in Nat /\ Len(s) > 0 /\ n \in Nat /\ s[Len(s)] \in S
      /\ \A k \in 1..n : s[k] \in S
    BY EmptySeq
<1> HIDE DEF n
<1>2. /\ front \in Seq(S) /\ Len(front) = (IF 1 <= n THEN n - 1 + 1 ELSE 0)
      /\ \A k \in 1..(n - 1 + 1) : front[k] = s[1 + k - 1]
    BY <1>1, SubSeqProperties
<1> HIDE DEF front
<1>3. n - 1 + 1 = n /\ \A k \in 1..n : 1 + k - 1 = k
    BY <1>1
<1>4. Len(front) = n
    BY <1>1, <1>2, <1>3
<1>5. \A k \in 1..n : front[k] = s[k]
    BY <1>2, <1>3
<1> QED BY <1>1, <1>2, <1>4, <1>5 DEF front, n

(* operator[] only ever adds null pointers.                                *)
LEMMA Touched ==
    ASSUME NEW map \in [StateIds -> Entries], NEW id \in StateIds
    PROVE  /\ touched(map, id) \in [StateIds -> Entries]
           /\ \A k \in StateIds : \/ touched(map, id)[k] = map[k]
                                  \/ touched(map, id)[k] = nullptr /\ map[k] = Absent
<1> DEFINE entry == IF map[id] = Absent THEN nullptr ELSE map[id]
<1>1. touched(map, id) = [map EXCEPT ![id] = entry]
    BY DEF touched
<1>2. entry \in Entries
    BY ObjectsAreNotNull
<1>3. entry = map[id] \/ (entry = nullptr /\ map[id] = Absent)
    OBVIOUS
<1> HIDE DEF entry
<1> QED BY <1>1, <1>2, <1>3

LEMMA MachineInvInit == Init => MachineInv
<1> SUFFICES ASSUME Init PROVE MachineInv
    OBVIOUS
<1>1. TypeOK
    <2>1. <<>> \in Seq(FrameType) /\ 0 \in 0..MaxObjects
        BY ObjectsAreNotNull
    <2>2. transitions_ \in [Objects -> [StateIds -> Entries]] /\ states_ \in [StateIds -> Entries]
        BY ObjectsAreNotNull DEF Init
    <2>3. id_ \in [Objects -> StateIds]
        BY DEF Init
    <2>4. stack \in Seq(FrameType) /\ 1..Len(stack) = {}
        BY <2>1 DEF Init
    <2>5. /\ curr_state_ \in Objects \cup {nullptr} /\ objects \in 0..MaxObjects
          /\ live \subseteq 1..objects /\ active \subseteq Objects /\ overtaken \in BOOLEAN
        BY <2>1 DEF Init
    <2> QED BY <2>2, <2>3, <2>4, <2>5, Zenon DEF TypeOK
<1>2. OwnsItsStates /\ IdsInv /\ UnmadeInv
    BY ObjectsAreNotNull DEF Init, OwnsItsStates, IdsInv, UnmadeInv
<1>3. ExitInv /\ OneActive
    BY DEF Init, ExitInv, OneActive, Exiting
<1> QED BY <1>1, <1>2, <1>3 DEF MachineInv

-----------------------------------------------------------------------------
(* A step that only looks ids up, whatever null pointers that leaves.      *)
LEMMA LookingUp ==
    ASSUME MachineInv,
           states_' \in [StateIds -> Entries],
           transitions_' \in [Objects -> [StateIds -> Entries]],
           \A id \in StateIds : \/ states_'[id] = states_[id]
                                \/ states_'[id] = nullptr /\ states_[id] = Absent,
           \A o \in Objects, id \in StateIds :
               \/ transitions_'[o][id] = transitions_[o][id]
               \/ o \in live /\ transitions_'[o][id] = nullptr /\ transitions_[o][id] = Absent,
           UNCHANGED <<curr_state_, objects, live, id_, stack, active, overtaken>>
    PROVE  MachineInv'
<1>0. TypeOK /\ OwnsItsStates /\ IdsInv /\ UnmadeInv /\ ExitInv /\ OneActive
    BY DEF MachineInv
<1>a. /\ \A o \in live : o \in Objects /\ o <= objects
      /\ \A o \in Objects : id_[o] \in StateIds
      /\ objects \in Int
    BY <1>0, ObjectsAreNotNull DEF TypeOK, Objects
<1>1. TypeOK'
    BY <1>0 DEF TypeOK
<1>2. OwnsItsStates'
    <2>1. \A o \in live : states_'[id_[o]] = o
        BY <1>0, <1>a, ObjectsAreNotNull DEF OwnsItsStates
    <2>2. \A id \in StateIds : states_'[id] \in Objects => states_'[id] = states_[id]
        BY ObjectsAreNotNull
    <2>3. \A o \in live, id \in StateIds :
              transitions_'[o][id] \in Objects => transitions_'[o][id] = states_'[id]
        <3> SUFFICES ASSUME NEW o \in live, NEW id \in StateIds, transitions_'[o][id] \in Objects
                     PROVE  transitions_'[o][id] = states_'[id]
            OBVIOUS
        <3>1. transitions_'[o][id] = transitions_[o][id]
            BY <1>a, ObjectsAreNotNull
        <3>2. transitions_[o][id] = states_[id]
            BY <1>0, <3>1 DEF OwnsItsStates
        <3> QED BY <3>1, <3>2, ObjectsAreNotNull
    <2> QED BY <1>0, <2>1, <2>2, <2>3 DEF OwnsItsStates
<1>3. IdsInv'
    BY <1>0, ObjectsAreNotNull DEF IdsInv
<1>4. UnmadeInv'
    BY <1>0, <1>a, ObjectsAreNotNull DEF UnmadeInv
<1>5. ExitInv'
    <2> SUFFICES ASSUME ~ overtaken, NEW k \in 1..Len(stack), Exits(k)
                 PROVE  transitions_'[curr_state_][id_[stack[k].to]] = stack[k].to
        BY <1>0 DEF ExitInv, Exits
    <2>1. /\ curr_state_ # nullptr
          /\ transitions_[curr_state_][id_[stack[k].to]] = stack[k].to
          /\ stack[k].to \in Objects
        BY <1>0 DEF ExitInv, TypeOK, Exits
    <2>2. curr_state_ \in Objects /\ id_[stack[k].to] \in StateIds
        BY <1>0, <1>a, <2>1 DEF TypeOK
    <2> QED BY <2>1, <2>2, ObjectsAreNotNull
<1>6. OneActive'
    BY <1>0 DEF OneActive, Exiting
<1> QED BY <1>1, <1>2, <1>3, <1>4, <1>5, <1>6 DEF MachineInv

LEMMA LookUpSteps ==
    ASSUME MachineInv, NEW id \in StateIds,
           \/ GetState(id) \/ TransitionRefused(id) \/ \E o \in Objects : GetTransition(o, id)
    PROVE  MachineInv'
<1>0. TypeOK /\ OwnsItsStates
    BY DEF MachineInv
<1>1. states_ \in [StateIds -> Entries] /\ transitions_ \in [Objects -> [StateIds -> Entries]]
    BY <1>0 DEF TypeOK
<1>2. /\ touched(states_, id) \in [StateIds -> Entries]
      /\ \A k \in StateIds : \/ touched(states_, id)[k] = states_[k]
                             \/ touched(states_, id)[k] = nullptr /\ states_[k] = Absent
    BY <1>1, Touched
<1>3. ASSUME NEW o \in live,
             transitions_' = [transitions_ EXCEPT ![o] = touched(@, id)],
             \/ states_' = states_ \/ states_' = touched(states_, id),
             UNCHANGED <<curr_state_, objects, live, id_, stack, active, overtaken>>
      PROVE  MachineInv'
    <2>1. o \in Objects /\ transitions_[o] \in [StateIds -> Entries]
        BY <1>0, <1>1, ObjectsAreNotNull DEF TypeOK, Objects
    <2> DEFINE map == touched(transitions_[o], id)
    <2>2. /\ map \in [StateIds -> Entries]
          /\ \A k \in StateIds : \/ map[k] = transitions_[o][k]
                                 \/ map[k] = nullptr /\ transitions_[o][k] = Absent
        BY <2>1, Touched
    <2>3. transitions_' = [transitions_ EXCEPT ![o] = map]
        BY <1>3
    <2> HIDE DEF map
    <2>4. transitions_' \in [Objects -> [StateIds -> Entries]]
        BY <1>1, <2>2, <2>3
    <2>5. \A q \in Objects, k \in StateIds :
              \/ transitions_'[q][k] = transitions_[q][k]
              \/ q \in live /\ transitions_'[q][k] = nullptr /\ transitions_[q][k] = Absent
        BY <1>1, <2>1, <2>2, <2>3
    <2>6. /\ states_' \in [StateIds -> Entries]
          /\ \A k \in StateIds : \/ states_'[k] = states_[k]
                                 \/ states_'[k] = nullptr /\ states_[k] = Absent
        BY <1>1, <1>2, <1>3
    <2> QED BY <1>3, <2>4, <2>5, <2>6, LookingUp
<1>4. CASE /\ states_' = touched(states_, id) /\ transitions_' = transitions_
           /\ UNCHANGED <<curr_state_, objects, live, id_, stack, active, overtaken>>
    <2>1. /\ states_' \in [StateIds -> Entries]
          /\ \A k \in StateIds : \/ states_'[k] = states_[k]
                                 \/ states_'[k] = nullptr /\ states_[k] = Absent
        BY <1>2, <1>4
    <2> QED BY <1>1, <1>4, <2>1, LookingUp
<1>5. ASSUME GetState(id) PROVE MachineInv'
    BY <1>4, <1>5 DEF GetState
<1>6. ASSUME NEW o \in Objects, GetTransition(o, id) PROVE MachineInv'
    BY <1>3, <1>6 DEF GetTransition
<1>7. ASSUME TransitionRefused(id) PROVE MachineInv'
    <2>1. curr_state_ # nullptr => curr_state_ \in live
        BY <1>0 DEF OwnsItsStates
    <2> QED BY <1>3, <1>4, <1>7, <2>1 DEF TransitionRefused
<1> QED BY <1>5, <1>6, <1>7

(* A new state has a new object, that nothing points to yet.               *)
LEMMA AddStateStep ==
    ASSUME MachineInv, NEW id \in StateIds, AddState(id)
    PROVE  MachineInv'
<1>0. TypeOK /\ OwnsItsStates /\ IdsInv /\ UnmadeInv /\ ExitInv /\ OneActive
    BY DEF MachineInv
<1> DEFINE new == objects + 1
<1>1. /\ objects' = new /\ live' = live \cup {new} /\ states_[id] = Absent
      /\ id_' = [id_ EXCEPT ![new] = id] /\ states_' = [states_ EXCEPT ![id] = new]
      /\ UNCHANGED <<curr_state_, transitions_, stack, active, overtaken>>
    BY DEF AddState, Taken
<1>2. /\ objects \in Nat /\ objects < MaxObjects /\ MaxObjects \in Nat
      /\ live \subseteq 1..objects
    BY <1>0, ObjectsAreNotNull DEF AddState, TypeOK
<1>3. /\ new \in Objects /\ new \in Nat /\ new > objects /\ new \notin live /\ new \in 0..MaxObjects
      /\ \A o \in live : o \in Objects
    BY <1>2 DEF Objects
<1>4. /\ id_'[new] = id /\ \A o \in Objects : o # new => id_'[o] = id_[o]
      /\ states_'[id] = new /\ \A k \in StateIds : k # id => states_'[k] = states_[k]
      /\ \A o \in Objects : id_[o] \in StateIds
    BY <1>0, <1>1, <1>3 DEF TypeOK
<1>5. live' \subseteq 1..objects' /\ objects' \in 0..MaxObjects
    BY <1>1, <1>2, <1>3
<1> HIDE DEF new
<1>6. TypeOK'
    <2>1. id_' \in [Objects -> StateIds] /\ states_' \in [StateIds -> Entries]
        BY <1>0, <1>1, <1>3, ObjectsAreNotNull DEF TypeOK
    <2> QED BY <1>0, <1>1, <1>5, <2>1 DEF TypeOK
<1>7. OwnsItsStates'
    <2>1. \A o \in live' : states_'[id_'[o]] = o
        <3> SUFFICES ASSUME NEW o \in live' PROVE states_'[id_'[o]] = o
            OBVIOUS
        <3>1. CASE o = new
            BY <1>4, <3>1
        <3>2. CASE o \in live
            <4>1. states_[id_[o]] = o /\ o \in Objects /\ o # new
                BY <1>0, <1>3, <3>2 DEF OwnsItsStates
            <4>2. id_[o] # id
                BY <1>1, <4>1, ObjectsAreNotNull
            <4> QED BY <1>4, <4>1, <4>2
        <3> QED BY <1>1, <3>1, <3>2
    <2>2. \A k \in StateIds : states_'[k] \in Objects => states_'[k] \in live'
        BY <1>0, <1>1, <1>4 DEF OwnsItsStates
    <2>3. \A o \in live', k \in StateIds :
              transitions_'[o][k] \in Objects => transitions_'[o][k] = states_'[k]
        <3> SUFFICES ASSUME NEW o \in live', NEW k \in StateIds, transitions_[o][k] \in Objects
                     PROVE  transitions_[o][k] = states_'[k]
            BY <1>1
        <3>1. o # new
            BY <1>0, <1>3, ObjectsAreNotNull DEF UnmadeInv
        <3>2. transitions_[o][k] = states_[k]
            BY <1>0, <1>1, <3>1 DEF OwnsItsStates
        <3>3. k # id
            BY <1>1, <3>2, ObjectsAreNotNull
        <3> QED BY <1>4, <3>2, <3>3
    <2> QED BY <1>0, <1>1, <2>1, <2>2, <2>3 DEF OwnsItsStates
<1>8. IdsInv'
    <2> SUFFICES ASSUME NEW k \in StateIds, states_'[k] \in Objects
                 PROVE  id_'[states_'[k]] = k
        BY DEF IdsInv
    <2>1. CASE k = id
        BY <1>4, <2>1
    <2>2. CASE k # id
        <3>1. states_'[k] = states_[k] /\ states_[k] \in live /\ id_[states_[k]] = k
            BY <1>0, <1>4, <2>2 DEF OwnsItsStates, IdsInv
        <3> QED BY <1>3, <1>4, <3>1
    <2> QED BY <2>1, <2>2
<1>9. UnmadeInv'
    <2>1. \A o \in Objects : o > new => o > objects
        BY <1>2 DEF new, Objects
    <2> QED BY <1>0, <1>1, <2>1 DEF UnmadeInv
<1>10. ExitInv'
    <2> SUFFICES ASSUME ~ overtaken, NEW k \in 1..Len(stack), Exits(k)
                 PROVE  transitions_[curr_state_][id_'[stack[k].to]] = stack[k].to
        BY <1>0, <1>1 DEF ExitInv, Exits
    <2>1. transitions_[curr_state_][id_[stack[k].to]] = stack[k].to /\ stack[k].to \in Objects
        BY <1>0 DEF ExitInv, TypeOK, Exits
    <2>2. stack[k].to \in live
        BY <1>0, <2>1, ObjectsAreNotNull DEF OwnsItsStates
    <2> QED BY <1>3, <1>4, <2>1, <2>2
<1>11. OneActive'
    BY <1>0, <1>1 DEF OneActive, Exiting
<1> QED BY <1>6, <1>7, <1>8, <1>9, <1>10, <1>11 DEF MachineInv

(* A transition is added under the id of the state it leads to.            *)
LEMMA AddTransitionStep ==
    ASSUME MachineInv, NEW o \in Objects, NEW p \in Objects, AddTransition(o, p)
    PROVE  MachineInv'
<1>0. TypeOK /\ OwnsItsStates /\ IdsInv /\ UnmadeInv /\ ExitInv /\ OneActive
    BY DEF MachineInv
<1>1. /\ o \in live /\ p \in live
      /\ transitions_' = [transitions_ EXCEPT ![o][id_[p]] = p]
      /\ UNCHANGED <<states_, curr_state_, objects, live, id_, stack, active, overtaken>>
    BY DEF AddTransition
<1>2. id_[p] \in StateIds /\ p \in Entries /\ states_[id_[p]] = p /\ o <= objects
    BY <1>0, <1>1, ObjectsAreNotNull DEF TypeOK, OwnsItsStates
<1> DEFINE id == id_[p]
<1>3. /\ transitions_' \in [Objects -> [StateIds -> Entries]]
      /\ transitions_'[o][id] = p
      /\ \A q \in Objects, k \in StateIds :
             (q # o \/ k # id) => transitions_'[q][k] = transitions_[q][k]
    <2> HIDE DEF id
    <2>1. transitions_ \in [Objects -> [StateIds -> Entries]] /\ id \in StateIds
          /\ transitions_' = [transitions_ EXCEPT ![o][id] = p]
        BY <1>0, <1>1, <1>2 DEF TypeOK, id
    <2> QED BY <1>2, <2>1
<1>4. TypeOK'
    BY <1>0, <1>1, <1>3 DEF TypeOK
<1>5. OwnsItsStates'
    <2>1. \A q \in live, k \in StateIds :
              transitions_'[q][k] \in Objects => transitions_'[q][k] = states_[k]
        <3> TAKE q \in live, k \in StateIds
        <3>1. q \in Objects
            BY <1>0, ObjectsAreNotNull DEF TypeOK, Objects
        <3>2. CASE q = o /\ k = id
            BY <1>2, <1>3, <3>2
        <3>3. CASE q # o \/ k # id
            BY <1>0, <1>3, <3>1, <3>3 DEF OwnsItsStates
        <3> QED BY <3>2, <3>3
    <2> QED BY <1>0, <1>1, <2>1 DEF OwnsItsStates
<1>6. IdsInv'
    BY <1>0, <1>1 DEF IdsInv
<1>7. UnmadeInv'
    <2> SUFFICES ASSUME NEW q \in Objects, NEW k \in StateIds, q > objects
                 PROVE  transitions_'[q][k] = Absent
        BY <1>1 DEF UnmadeInv
    <2>1. q # o
        BY <1>0, <1>2, ObjectsAreNotNull DEF TypeOK
    <2> QED BY <1>0, <1>3, <2>1 DEF UnmadeInv
<1>8. ExitInv'
    <2> SUFFICES ASSUME ~ overtaken, NEW k \in 1..Len(stack), Exits(k)
                 PROVE  transitions_'[curr_state_][id_[stack[k].to]] = stack[k].to
        BY <1>0, <1>1 DEF ExitInv, Exits
    <2> DEFINE to == stack[k].to
    <2>1. /\ curr_state_ # nullptr /\ transitions_[curr_state_][id_[to]] = to
          /\ to \in Objects
        BY <1>0 DEF ExitInv, TypeOK, Exits
    <2>2. to \in live /\ curr_state_ \in Objects /\ id_[to] \in StateIds /\ states_[id_[to]] = to
        BY <1>0, <2>1, ObjectsAreNotNull DEF OwnsItsStates, TypeOK
    <2>3. CASE curr_state_ = o /\ id_[to] = id
        BY <1>2, <1>3, <2>2, <2>3
    <2>4. CASE curr_state_ # o \/ id_[to] # id
        BY <1>3, <2>1, <2>2, <2>4
    <2> QED BY <2>3, <2>4
<1>9. OneActive'
    BY <1>0, <1>1 DEF OneActive, Exiting
<1> QED BY <1>4, <1>5, <1>6, <1>7, <1>8, <1>9 DEF MachineInv

(* on_update is called.                                                    *)
LEMMA UpdateStep ==
    ASSUME MachineInv, Update
    PROVE  MachineInv'
<1>0. TypeOK /\ OwnsItsStates /\ IdsInv /\ UnmadeInv /\ ExitInv /\ OneActive
    BY DEF MachineInv
<1> DEFINE f == Frame("on_update", curr_state_, nullptr)
<1>1. /\ stack' = Append(stack, f) /\ curr_state_ # nullptr
      /\ UNCHANGED <<states_, curr_state_, objects, live, id_, transitions_, active, overtaken>>
    BY DEF Update
<1>2. f \in FrameType /\ f.callback = "on_update" /\ f.of = curr_state_ /\ f.to = nullptr
    BY <1>0, <1>1 DEF TypeOK, FrameType, Frame
<1> HIDE DEF f
<1>3. /\ stack' \in Seq(FrameType) /\ Len(stack') = Len(stack) + 1 /\ Len(stack) \in Nat
      /\ \A k \in 1..Len(stack) : stack'[k] = stack[k]
      /\ stack'[Len(stack) + 1] = f
    BY <1>0, <1>1, <1>2, Pushed DEF TypeOK
<1>4. \A k \in 1..Len(stack') :
          \/ k \in 1..Len(stack) /\ stack'[k] = stack[k]
          \/ stack'[k] = f
    BY <1>3
<1>5. TypeOK'
    BY <1>0, <1>1, <1>2, <1>3, <1>4 DEF TypeOK
<1>6. OwnsItsStates'
    BY <1>0, <1>1, <1>2, <1>4 DEF OwnsItsStates
<1>7. IdsInv' /\ UnmadeInv'
    BY <1>0, <1>1 DEF IdsInv, UnmadeInv
<1>8. ExitInv'
    BY <1>0, <1>1, <1>2, <1>4 DEF ExitInv, Exits
<1>9. Exiting' <=> Exiting
    BY <1>2, <1>3, <1>4 DEF Exiting
<1>10. OneActive'
    BY <1>0, <1>1, <1>9 DEF OneActive
<1> QED BY <1>5, <1>6, <1>7, <1>8, <1>10 DEF MachineInv

(* The first state is entered, or the current one is about to be left.     *)
LEMMA TransitionStep ==
    ASSUME MachineInv, NEW id \in StateIds, TransitionTo(id)
    PROVE  MachineInv'
<1>0. TypeOK /\ OwnsItsStates /\ IdsInv /\ UnmadeInv /\ ExitInv /\ OneActive
    BY DEF MachineInv
<1> DEFINE state == states_[id]
<1>1. /\ state \in Objects /\ state \in live /\ id_[state] = id /\ state # nullptr
      /\ overtaken' = (overtaken \/ Exiting)
      /\ UNCHANGED <<states_, objects, live, id_, transitions_>>
    BY <1>0, ObjectsAreNotNull DEF TransitionTo, Known, OwnsItsStates, IdsInv
<1>2. IdsInv' /\ UnmadeInv' /\ overtaken' \in BOOLEAN
    BY <1>0, <1>1 DEF IdsInv, UnmadeInv, TypeOK
<1>3. CASE curr_state_ = nullptr
    <2> DEFINE f == Frame("on_enter", state, nullptr)
    <2>1. curr_state_' = state /\ active' = active \cup {state} /\ stack' = Append(stack, f)
        BY <1>3 DEF TransitionTo
    <2>2. f \in FrameType /\ f.callback = "on_enter" /\ f.of = state /\ f.to = nullptr
        BY <1>1 DEF FrameType, Frame
    <2> HIDE DEF f, state
    <2>3. /\ stack' \in Seq(FrameType) /\ Len(stack') = Len(stack) + 1 /\ Len(stack) \in Nat
          /\ \A k \in 1..Len(stack) : stack'[k] = stack[k]
          /\ stack'[Len(stack) + 1] = f
        BY <1>0, <2>1, <2>2, Pushed DEF TypeOK
    <2>4. \A k \in 1..Len(stack') :
              \/ k \in 1..Len(stack) /\ stack'[k] = stack[k]
              \/ stack'[k] = f
        BY <2>3
    <2>5. TypeOK'
        BY <1>0, <1>1, <1>2, <2>1, <2>2, <2>3, <2>4 DEF TypeOK
    <2>6. OwnsItsStates'
        BY <1>0, <1>1, <2>1, <2>2, <2>4 DEF OwnsItsStates
    <2>7. ExitInv'
        BY <1>0, <1>1, <1>3, <2>2, <2>4 DEF ExitInv, Exits
    <2>8. Exiting' <=> Exiting
        BY <2>2, <2>3, <2>4 DEF Exiting
    <2>9. OneActive'
        BY <1>0, <1>1, <1>3, <2>1, <2>8 DEF OneActive
    <2> QED BY <1>2, <2>5, <2>6, <2>7, <2>9 DEF MachineInv
<1>4. CASE curr_state_ # nullptr
    <2> DEFINE f == Frame("on_exit", curr_state_, state)
    <2>1. /\ curr_state_' = curr_state_ /\ active' = active \ {curr_state_}
          /\ stack' = Append(stack, f) /\ transitions_[curr_state_][id] \in Objects
        BY <1>4 DEF TransitionTo, Left, Declared
    <2>2. /\ f \in FrameType /\ f.callback = "on_exit" /\ f.of = curr_state_ /\ f.to = state
          /\ curr_state_ \in live
        BY <1>0, <1>1, <1>4 DEF TypeOK, FrameType, Frame, OwnsItsStates
    <2>3. transitions_[curr_state_][id_[state]] = state
        BY <1>0, <1>1, <2>1, <2>2 DEF OwnsItsStates
    <2> HIDE DEF f, state
    <2>4. /\ stack' \in Seq(FrameType) /\ Len(stack') = Len(stack) + 1 /\ Len(stack) \in Nat
          /\ \A k \in 1..Len(stack) : stack'[k] = stack[k]
          /\ stack'[Len(stack) + 1] = f
        BY <1>0, <2>1, <2>2, Pushed DEF TypeOK
    <2>5. \A k \in 1..Len(stack') :
              \/ k \in 1..Len(stack) /\ stack'[k] = stack[k]
              \/ k = Len(stack) + 1 /\ stack'[k] = f
        BY <2>4
    <2>6. TypeOK'
        BY <1>0, <1>1, <1>2, <2>1, <2>2, <2>4, <2>5 DEF TypeOK
    <2>7. OwnsItsStates'
        BY <1>0, <1>1, <2>1, <2>2, <2>5 DEF OwnsItsStates
    <2>8. ~ overtaken' => ~ overtaken /\ \A k \in 1..Len(stack) : ~ Exits(k)
        BY <1>1 DEF Exiting, Exits
    <2>9. ExitInv'
        <3> SUFFICES ASSUME ~ overtaken'
                     PROVE  \A k \in 1..Len(stack') : Exits(k)' =>
                                /\ k = Len(stack) + 1 /\ stack'[k].to = state
            BY <1>1, <1>4, <2>1, <2>3 DEF ExitInv, Exits
        <3> QED BY <2>2, <2>5, <2>8 DEF Exits
    <2>10. Exiting'
        <3>1. Len(stack) + 1 \in 1..Len(stack')
            BY <2>4
        <3> QED BY <2>2, <2>4, <3>1 DEF Exiting
    <2>11. OneActive'
        <3> SUFFICES ASSUME ~ overtaken' PROVE active' = {}
            BY <2>10 DEF OneActive
        <3>1. ~ overtaken /\ ~ Exiting
            BY <2>8 DEF Exiting, Exits
        <3> QED BY <1>0, <1>4, <2>1, <3>1 DEF OneActive
    <2> QED BY <1>2, <2>6, <2>7, <2>9, <2>11 DEF MachineInv
<1> QED BY <1>3, <1>4

(* A callback returns; after an on_exit the next state is entered.         *)
LEMMA ReturnStep ==
    ASSUME MachineInv, Return
    PROVE  MachineInv'
<1>0. TypeOK /\ OwnsItsStates /\ IdsInv /\ UnmadeInv /\ ExitInv /\ OneActive
    BY DEF MachineInv
<1> DEFINE n     == Len(stack)
           top   == stack[n]
           under == SubSeq(stack, 1, n - 1)
<1>1. /\ stack # <<>>
      /\ UNCHANGED <<states_, objects, live, id_, transitions_, overtaken>>
    BY DEF Return
<1>2. /\ under \in Seq(FrameType) /\ n \in Nat /\ n > 0 /\ Len(under) = n - 1
      /\ \A k \in 1..(n - 1) : under[k] = stack[k]
      /\ top \in FrameType /\ n \in 1..n
    BY <1>0, <1>1, Popped DEF TypeOK
<1>3. \A k \in 1..(n - 1) : k \in 1..n /\ k # n
    BY <1>2
<1>4. IdsInv' /\ UnmadeInv'
    BY <1>0, <1>1 DEF IdsInv, UnmadeInv
<1>5. CASE top.callback # "on_exit"
    <2>1. stack' = under /\ UNCHANGED <<curr_state_, active>>
        BY <1>5 DEF Return
    <2> HIDE DEF under
    <2>2. /\ Len(stack') = n - 1
          /\ \A k \in 1..Len(stack') : k \in 1..n /\ k # n /\ stack'[k] = stack[k]
        BY <1>2, <1>3, <2>1
    <2> HIDE DEF n
    <2>3. TypeOK'
        BY <1>0, <1>1, <1>2, <2>1, <2>2 DEF TypeOK, n
    <2>4. OwnsItsStates'
        BY <1>0, <1>1, <2>1, <2>2 DEF OwnsItsStates, n
    <2>5. ExitInv'
        BY <1>0, <1>1, <2>1, <2>2 DEF ExitInv, Exits, n
    <2>6. Exiting' <=> Exiting
        <3>1. \A k \in 1..n : k = n \/ k \in 1..Len(stack')
            BY <1>2, <2>2
        <3> QED BY <1>5, <2>2, <3>1 DEF Exiting, n
    <2>7. OneActive'
        BY <1>0, <1>1, <2>1, <2>6 DEF OneActive
    <2> QED BY <1>4, <2>3, <2>4, <2>5, <2>7 DEF MachineInv
<1>6. CASE top.callback = "on_exit"
    <2> DEFINE to == top.to
               f  == Frame("on_enter", to, nullptr)
    <2>1. curr_state_' = to /\ active' = active \cup {to} /\ stack' = Append(under, f)
        BY <1>6 DEF Return
    <2>2. to \in Objects /\ to \in live /\ to # nullptr
        BY <1>0, <1>2, <1>6, ObjectsAreNotNull DEF TypeOK, OwnsItsStates
    <2> HIDE DEF to
    <2>3. f \in FrameType /\ f.callback = "on_enter" /\ f.of = to /\ f.to = nullptr
        BY <2>2 DEF FrameType, Frame
    <2> HIDE DEF f, under
    <2>4. /\ stack' \in Seq(FrameType) /\ Len(stack') = n
          /\ \A k \in 1..Len(stack') :
                 \/ k \in 1..n /\ k # n /\ stack'[k] = stack[k]
                 \/ k = n /\ stack'[k] = f
        <3>1. /\ Append(under, f) \in Seq(FrameType) /\ Len(Append(under, f)) = Len(under) + 1
              /\ \A k \in 1..Len(under) : Append(under, f)[k] = under[k]
              /\ Append(under, f)[Len(under) + 1] = f
            BY <1>2, <2>3, Pushed
        <3>2. Len(stack') = n /\ stack'[n] = f
            BY <1>2, <2>1, <3>1
        <3>3. \A k \in 1..(n - 1) : stack'[k] = stack[k]
            BY <1>2, <2>1, <3>1
        <3>4. \A k \in 1..n : k = n \/ k \in 1..(n - 1)
            BY <1>2
        <3> QED BY <1>3, <2>1, <3>1, <3>2, <3>3, <3>4
    <2>5. TypeOK'
        BY <1>0, <1>1, <2>1, <2>2, <2>3, <2>4 DEF TypeOK
    <2>6. OwnsItsStates'
        BY <1>0, <1>1, <2>1, <2>2, <2>3, <2>4 DEF OwnsItsStates
    <2>7. ~ overtaken => \A k \in 1..n : k # n => ~ Exits(k)
        BY <1>0, <1>2, <1>6 DEF ExitInv, Exits
    <2>8. ~ overtaken' => \A k \in 1..Len(stack') : ~ Exits(k)'
        BY <1>1, <2>3, <2>4, <2>7 DEF Exits
    <2>9. ExitInv'
        BY <2>8 DEF ExitInv
    <2>10. OneActive'
        <3> SUFFICES ASSUME ~ overtaken' PROVE active' = {curr_state_'}
            BY <2>1, <2>2, <2>8 DEF OneActive, Exiting, Exits
        <3>1. Exiting
            BY <1>2, <1>6 DEF Exiting
        <3> QED BY <1>0, <1>1, <2>1, <3>1 DEF OneActive
    <2> QED BY <1>4, <2>5, <2>6, <2>9, <2>10 DEF MachineInv
<1> QED BY <1>5, <1>6

(* The destructor deletes every object.                                    *)
LEMMA DestroyStep ==
    ASSUME MachineInv, Destroy
    PROVE  MachineInv'
<1>0. TypeOK /\ OwnsItsStates /\ IdsInv /\ UnmadeInv /\ ExitInv /\ OneActive
    BY DEF MachineInv
<1>1. /\ live' = live \ {states_[id] : id \in StateIds}
      /\ states_' = [id \in StateIds |-> Absent] /\ curr_state_' = nullptr
      /\ objects' = MaxObjects /\ active' = {} /\ stack = <<>>
      /\ UNCHANGED <<id_, transitions_, stack, overtaken>>
    BY DEF Destroy
<1>2. live' = {}
    <2>1. \A o \in live : states_[id_[o]] = o /\ id_[o] \in StateIds
        BY <1>0, ObjectsAreNotNull DEF OwnsItsStates, TypeOK, Objects
    <2> QED BY <1>1, <2>1
<1>3. \A k \in 1..Len(stack) : FALSE
    BY <1>1
<1>4. TypeOK'
    <2>1. MaxObjects \in 0..MaxObjects /\ states_' \in [StateIds -> Entries]
        BY <1>1, ObjectsAreNotNull
    <2> QED BY <1>0, <1>1, <1>2, <1>3, <2>1 DEF TypeOK
<1>5. OwnsItsStates' /\ IdsInv'
    BY <1>1, <1>2, <1>3, ObjectsAreNotNull DEF OwnsItsStates, IdsInv
<1>6. UnmadeInv'
    BY <1>1, ObjectsAreNotNull DEF UnmadeInv, Objects
<1>7. ExitInv' /\ OneActive'
    BY <1>1, <1>3 DEF ExitInv, OneActive, Exiting
<1> QED BY <1>4, <1>5, <1>6, <1>7 DEF MachineInv

LEMMA MachineInvStep == MachineInv /\ [Next]_vars => MachineInv'
<1> SUFFICES ASSUME MachineInv, [Next]_vars PROVE MachineInv'
    OBVIOUS
<1>1. CASE Next
    BY <1>1, LookUpSteps, AddStateStep, AddTransitionStep, UpdateStep, TransitionStep, ReturnStep,
       DestroyStep DEF Next
<1>2. CASE UNCHANGED vars
    BY <1>2 DEF vars, MachineInv, TypeOK, OwnsItsStates, IdsInv, UnmadeInv, ExitInv, OneActive,
                Exits, Exiting
<1> QED BY <1>1, <1>2

LEMMA MachineInvHolds == Spec => []MachineInv
BY MachineInvInit, MachineInvStep, PTL DEF Spec

-----------------------------------------------------------------------------
(* Every variable has its type, and an on_exit has a state to go to.       *)
THEOREM MachineTypeCorrect == Spec => []TypeOK
BY MachineInvHolds, PTL DEF MachineInv

(* The machine owns every State it has made, and every pointer it may      *)
(* follow is to a live one, whatever the callbacks do.                     *)
THEOREM StatesAreOwned == Spec => []OwnsItsStates
BY MachineInvHolds, PTL DEF MachineInv

(* Unless a transition was made under an on_exit, the current state is the *)
(* only one entered and not exited.                                        *)
THEOREM OneIsActive == Spec => []OneActive
BY MachineInvHolds, PTL DEF MachineInv

(* Unless a transition was made under an on_exit, the current state        *)
(* changes along declared transitions only.                                *)
THEOREM TransitionsAreFollowed == Spec => FollowsTransitions
<1> DEFINE Followed ==
        curr_state_ # nullptr /\ curr_state_' \notin {curr_state_, nullptr} /\ ~ overtaken
            => transitions_[curr_state_][id_[curr_state_']] = curr_state_'
<1>1. MachineInv /\ [Next]_vars => [Followed]_vars
    <2> SUFFICES ASSUME MachineInv, Next, curr_state_ # nullptr,
                        curr_state_' \notin {curr_state_, nullptr}, ~ overtaken
                 PROVE  transitions_[curr_state_][id_[curr_state_']] = curr_state_'
        OBVIOUS
    <2>1. Return
        BY DEF Next, AddState, GetState, TransitionTo, TransitionRefused, AddTransition,
               GetTransition, Update, Destroy
    <2> DEFINE n == Len(stack)
    <2>2. stack[n].callback = "on_exit" /\ curr_state_' = stack[n].to
        BY <2>1 DEF Return
    <2>3. n \in 1..n
        BY <2>1, Popped DEF Return, MachineInv, TypeOK
    <2> QED BY <2>2, <2>3 DEF MachineInv, ExitInv, Exits
<1>2. [][Next]_vars /\ []MachineInv => [][Followed]_vars
    BY <1>1, PTL
<1> QED BY <1>2, MachineInvHolds, PTL DEF Spec, FollowsTransitions

-----------------------------------------------------------------------------
(***************************************************************************)
(* The theorem about Matrix, for every size: AccessesTheElementNamed.  It  *)
(* needs that the object's cursor follows the access the caller makes, as  *)
(* long as none was cut short, and that the index of an element in the     *)
(* array is in the array and no other element's.                           *)
(***************************************************************************)

(* Where the cursor is in the access.                                      *)
CursorInv ==
    ~ cut_short =>
        /\ Len(access) = 0 => is_row_index
        /\ Len(access) = 1 => ~ is_row_index /\ access[1] = index_row /\ access_count >= 1
        /\ Len(access) = 2 => is_row_index

-----------------------------------------------------------------------------
(* A matrix with elements.                                                 *)
HasElements == <<rows, cols>> \in Sizes /\ rows > 0 /\ cols > 0

LEMMA SizesAre ==
    ASSUME <<rows, cols>> \in Sizes
    PROVE  /\ rows \in Nat /\ cols \in Nat /\ SizeT \in Nat
           /\ rows < SizeT /\ cols < SizeT /\ rows * cols < SizeT /\ rows * cols \in Nat
<1>1. <<rows, cols>> \in (0..(SizeT - 1)) \X (0..(SizeT - 1)) /\ SizeT \in Nat
    BY MatrixAssumption
<1>2. <<rows, cols>>[1] * <<rows, cols>>[2] < SizeT
    BY MatrixAssumption
<1>3. rows \in Nat /\ cols \in Nat /\ rows < SizeT /\ cols < SizeT
    BY <1>1
<1>4. rows * cols \in Nat
    BY <1>3
<1> QED BY <1>1, <1>2, <1>3, <1>4

LEMMA SizesOf ==
    ASSUME HasElements
    PROVE  /\ rows \in Nat /\ cols \in Nat /\ rows > 0 /\ cols > 0 /\ SizeT \in Nat
           /\ rows * cols \in Nat /\ rows < SizeT /\ cols < SizeT
BY SizesAre DEF HasElements

(* A sequence of two is its two elements.                                  *)
LEMMA TwoLong ==
    ASSUME NEW S, NEW s \in Seq(S), Len(s) = 2
    PROVE  s = <<s[1], s[2]>>
<1>0. 1 \in 1..Len(s) /\ 2 \in 1..Len(s)
    OBVIOUS
<1>1. s[1] \in S /\ s[2] \in S
    BY <1>0, ElementOfSeq
<1> DEFINE t == <<s[1], s[2]>>
<1>2. t \in Seq(S) /\ Len(t) = 2 /\ t[1] = s[1] /\ t[2] = s[2]
    BY <1>1
<1> HIDE DEF t
<1>3. \A i \in 1..2 : s[i] = t[i]
    BY <1>2
<1>4. s = t
    BY <1>2, <1>3, SeqEqual
<1> QED BY <1>4 DEF t

(* A checked index is one of the matrix.                                   *)
LEMMA InRange ==
    ASSUME HasElements, NEW count \in {rows, cols}, NEW index \in Nat, ~ out_of_range(index, count)
    PROVE  index \in 0..(count - 1)
<1>1. count - 1 \in Nat /\ count - 1 < SizeT
    BY SizesOf
<1>2. (count - 1) % SizeT = count - 1
    BY <1>1, SizesOf
<1> QED BY <1>1, <1>2 DEF out_of_range

(* The place of an element in the array is in it, and is its own.          *)
LEMMA PlaceExists ==
    ASSUME HasElements, NEW row \in 0..(rows - 1), NEW col \in 0..(cols - 1)
    PROVE  cols * row + col \in 0..(rows * cols - 1)
<1>1. /\ row \in Nat /\ col \in Nat /\ rows - 1 - row \in Nat /\ col <= cols - 1
    BY SizesOf
<1>2. cols * row \in Nat /\ cols * (rows - 1 - row) \in Nat
    BY <1>1, SizesOf
<1>3. rows * cols = cols * row + cols * (rows - 1 - row) + cols
    BY <1>1, SizesOf
<1> QED BY <1>1, <1>2, <1>3, SizesOf

LEMMA PlaceIsOwn ==
    ASSUME HasElements, NEW row \in 0..(rows - 1), NEW col \in 0..(cols - 1),
           NEW r \in 0..(rows - 1), NEW c \in 0..(cols - 1),
           cols * row + col = cols * r + c
    PROVE  row = r /\ col = c
<1>1. row \in Int /\ r \in Int /\ col \in Int /\ c \in Int /\ c - col < cols /\ col - c < cols
    BY SizesOf
<1>1a. cols \in Int /\ cols * row \in Int /\ cols * r \in Int
    BY <1>1, SizesOf
<1>1b. cols * (row - r) = cols * row - cols * r
    BY <1>1, <1>1a
<1>2. cols * (row - r) = c - col
    BY <1>1, <1>1a, <1>1b
<1>3. CASE row - r >= 1
    <2>1. cols * (row - r) >= cols
        BY <1>1, <1>3, SizesOf
    <2> QED BY <1>1, <1>2, <2>1, SizesOf
<1>4. CASE r - row >= 1
    <2>1. cols * (r - row) >= cols
        BY <1>1, <1>4, SizesOf
    <2>1a. cols * (r - row) = cols * r - cols * row
        BY <1>1, <1>1a
    <2>2. cols * (r - row) = col - c
        BY <1>1, <1>1a, <2>1a
    <2> QED BY <1>1, <2>1, <2>2, SizesOf
<1>5. CASE row = r
    BY <1>1, <1>5, SizesOf
<1> QED BY <1>1, <1>3, <1>4, <1>5

-----------------------------------------------------------------------------
(* Every element holds what the caller has assigned to it.                 *)
HoldsWhatWasMeant == \A e \in Elements : array_ptr[cols * e[1] + e[2]] = meant[e]

(* The cursor is where a whole access points.                              *)
Pointed == Len(access) = 2 => access = <<index_row, index_col>> /\ access_count = 2

(* The types, and the element the cursor points at exists.                 *)
InBounds == index_row \in 0..(rows - 1) /\ index_col \in 0..(cols - 1)
Typed    == MatrixTypeOK /\ InBounds

(* What holds of a matrix with elements.                                   *)
WholeInv == Typed /\ CursorInv /\ (~ cut_short => Pointed /\ HoldsWhatWasMeant)

LEMMA WholeInvIs ==
    WholeInv <=> Typed /\ CursorInv /\ (~ cut_short => Pointed /\ HoldsWhatWasMeant)
BY DEF WholeInv

LEMMA WholeInvInit == MatrixInit /\ HasElements => WholeInv
<1> SUFFICES ASSUME MatrixInit, HasElements PROVE WholeInv
    OBVIOUS
<1>1. PICK init_val \in Values :
          /\ array_ptr = [i \in 0..(rows * cols - 1) |-> init_val]
          /\ meant = [e \in Elements |-> init_val]
    BY DEF MatrixInit
<1>2. access = <<>> /\ Len(access) = 0 /\ \A S : <<>> \in Seq(S)
    BY DEF MatrixInit
<1>3. Typed
    <2>1. array_ptr \in [0..(rows * cols - 1) -> Values] /\ meant \in [Elements -> Values]
        BY <1>1
    <2>2. 0 \in 0..(rows - 1) /\ 0 \in 0..(cols - 1) /\ access \in Seq(Indices)
        BY <1>2, SizesOf
    <2>3. index_row \in 0..(rows - 1) /\ index_col \in 0..(cols - 1)
        BY <2>2 DEF MatrixInit
    <2>4. access_count \in 0..2 /\ Len(access) <= 2
        BY <1>2 DEF MatrixInit
    <2>5. is_row_index \in BOOLEAN /\ cut_short \in BOOLEAN
        BY Zenon DEF MatrixInit
    <2>6. <<rows, cols>> \in Sizes /\ index_row \in Indices /\ index_col \in Indices
        BY SizesOf DEF HasElements, MatrixInit, Indices
    <2> QED BY <2>1, <2>2, <2>3, <2>4, <2>5, <2>6, Zenon DEF Typed, InBounds, MatrixTypeOK
<1>4. CursorInv /\ Pointed
    BY <1>2 DEF MatrixInit, CursorInv, Pointed
<1>5. HoldsWhatWasMeant
    <2> SUFFICES ASSUME NEW e \in Elements PROVE array_ptr[cols * e[1] + e[2]] = meant[e]
        BY DEF HoldsWhatWasMeant
    <2>1. e[1] \in 0..(rows - 1) /\ e[2] \in 0..(cols - 1)
        BY DEF Elements
    <2>2. cols * e[1] + e[2] \in 0..(rows * cols - 1)
        BY <2>1, PlaceExists
    <2> QED BY <1>1, <2>2
<1> QED BY <1>3, <1>4, <1>5, WholeInvIs

(* matrix[row], and matrix[row][col].                                      *)
LEMMA IndexStep ==
    ASSUME HasElements, WholeInv, NEW index \in Indices, Index(index)
    PROVE  WholeInv'
<1>0. Typed /\ CursorInv /\ (~ cut_short => Pointed /\ HoldsWhatWasMeant)
    BY WholeInvIs
<1>1. /\ access \in Seq(Indices) /\ Len(access) \in {0, 1} /\ access' = Append(access, index)
      /\ index_row' = IF is_row_index THEN index ELSE index_row
      /\ index_col' = IF is_row_index THEN index_col ELSE index
      /\ is_row_index' = ~ is_row_index
      /\ access_count' = IF access_count < 2 THEN access_count + 1 ELSE access_count
      /\ UNCHANGED <<rows, cols, array_ptr, meant, cut_short>>
      /\ Indices' = Indices /\ Elements' = Elements
    <2>1. access \in Seq(Indices) /\ Len(access) \in Nat /\ Len(access) < 2
        BY <1>0 DEF Index, Typed, InBounds, MatrixTypeOK
    <2>2. UNCHANGED <<rows, cols>> /\ Indices' = Indices /\ Elements' = Elements
        BY DEF Index, Indices, Elements
    <2>3. Len(access) \in {0, 1}
        <3>1. \A n \in Nat : n < 2 => n \in {0, 1}
            OBVIOUS
        <3> QED BY <2>1, <3>1, Zenon
    <2> QED BY <2>1, <2>2, <2>3, Zenon DEF Index
<1>2. /\ access' \in Seq(Indices) /\ Len(access') = Len(access) + 1
      /\ \A k \in 1..Len(access) : access'[k] = access[k]
      /\ access'[Len(access) + 1] = index
    BY <1>1
<1>3. index_row' \in 0..(rows - 1) /\ index_col' \in 0..(cols - 1)
    <2>1. index \in Nat
        BY SizesOf DEF Indices
    <2>2. CASE is_row_index
        <3>1. ~ out_of_range(index, rows)
            BY <2>2 DEF Index
        <3> QED BY <1>0, <1>1, <2>1, <2>2, <3>1, InRange DEF Typed, InBounds, MatrixTypeOK
    <2>3. CASE ~ is_row_index
        <3>1. ~ out_of_range(index, cols)
            BY <2>3 DEF Index
        <3> QED BY <1>0, <1>1, <2>1, <2>3, <3>1, InRange DEF Typed, InBounds, MatrixTypeOK
    <2> QED BY <2>2, <2>3
<1>4. access_count \in 0..2 /\ access_count' \in 0..2 /\ access_count' >= 1
      /\ (access_count >= 1 => access_count' = 2)
    BY <1>0, <1>1 DEF Typed, InBounds, MatrixTypeOK
<1>5. Typed'
    BY <1>0, <1>1, <1>2, <1>3, <1>4 DEF Typed, InBounds, MatrixTypeOK
<1>6. CASE Len(access) = 0
    <2>1. Len(access') = 1 /\ access'[1] = index
        BY <1>2, <1>6
    <2>2. ~ cut_short' => is_row_index
        BY <1>0, <1>1, <1>6, Zenon DEF CursorInv
    <2>5. ~ cut_short' => ~ is_row_index' /\ access'[1] = index_row'
        BY <1>1, <2>1, <2>2, Zenon
    <2>6. Len(access') # 0 /\ Len(access') # 2 /\ access_count' >= 1
        BY <1>4, <2>1
    <2>7. CursorInv'
        BY <2>5, <2>6, Zenon DEF CursorInv
    <2>3. Pointed'
        BY <2>1 DEF Pointed
    <2>4. ~ cut_short' => HoldsWhatWasMeant'
        BY <1>0, <1>1 DEF HoldsWhatWasMeant
    <2> QED BY <1>5, <2>7, <2>3, <2>4, WholeInvIs, PTL
<1>7. CASE Len(access) = 1
    <2>1. Len(access') = 2 /\ access'[1] = access[1] /\ access'[2] = index
        BY <1>2, <1>7
    <2>2. ~ cut_short => /\ ~ is_row_index /\ access[1] = index_row /\ access_count >= 1
        BY <1>0, <1>7 DEF CursorInv
    <2>7. ~ cut_short' => is_row_index'
        BY <1>1, <2>2, Zenon
    <2>8. Len(access') # 0 /\ Len(access') # 1
        BY <2>1
    <2>3. CursorInv'
        BY <2>7, <2>8, Zenon DEF CursorInv
    <2>4. access' = <<access[1], index>>
        BY <1>2, <2>1, TwoLong
    <2>5. ~ cut_short' => Pointed'
        BY <1>1, <1>4, <2>2, <2>4 DEF Pointed
    <2>6. ~ cut_short' => HoldsWhatWasMeant'
        BY <1>0, <1>1 DEF HoldsWhatWasMeant
    <2> QED BY <1>5, <2>3, <2>5, <2>6, WholeInvIs, PTL
<1> QED BY <1>1, <1>6, <1>7

(* An access ends without an assignment.                                   *)
LEMMA EndStep ==
    ASSUME HasElements, WholeInv, NEW lengths \in {{0}, {2}, {0, 2}}, EndAccess(lengths),
           UNCHANGED <<rows, cols, array_ptr, is_row_index, index_row, index_col, meant>>,
           access_count' \in 0..2
    PROVE  WholeInv'
<1>0. Typed /\ CursorInv /\ (~ cut_short => Pointed /\ HoldsWhatWasMeant)
    BY WholeInvIs
<1>1. /\ access' = <<>> /\ Len(access') = 0 /\ access' \in Seq(Indices)
      /\ cut_short' = (cut_short \/ Len(access) \notin lengths)
      /\ Indices' = Indices /\ Elements' = Elements
    BY DEF EndAccess, Indices, Elements
<1>2. Typed'
    BY <1>0, <1>1 DEF Typed, InBounds, MatrixTypeOK
<1>3. ~ cut_short' => ~ cut_short /\ Len(access) \in {0, 2}
    BY <1>1
<1>4. CursorInv'
    BY <1>0, <1>1, <1>3 DEF CursorInv
<1>5. Pointed'
    BY <1>1 DEF Pointed
<1>6. ~ cut_short' => HoldsWhatWasMeant'
    BY <1>0, <1>1, <1>3 DEF HoldsWhatWasMeant
<1> QED BY <1>2, <1>4, <1>5, <1>6, WholeInvIs, PTL

(* set and operator= assign to the element the access is of.               *)
LEMMA PutStep ==
    ASSUME HasElements, WholeInv, NEW val \in Values, Put(val), EndAccess({2}), access_count = 2,
           UNCHANGED <<rows, cols, is_row_index, index_row, index_col>>, access_count' \in 0..2
    PROVE  WholeInv'
<1>0. Typed /\ CursorInv /\ (~ cut_short => Pointed /\ HoldsWhatWasMeant)
    BY WholeInvIs
<1>1. /\ access' = <<>> /\ Len(access') = 0 /\ access' \in Seq(Indices)
      /\ cut_short' = (cut_short \/ Len(access) # 2)
      /\ Indices' = Indices /\ Elements' = Elements
    BY DEF EndAccess, Indices, Elements
<1> DEFINE here == cols * index_row + index_col
<1>2. /\ array_ptr' = [array_ptr EXCEPT ![here] = val]
      /\ meant' = IF access \in Elements THEN [meant EXCEPT ![access] = val] ELSE meant
    BY DEF Put, get_converted_index
<1>3. index_row \in 0..(rows - 1) /\ index_col \in 0..(cols - 1) /\ here \in 0..(rows * cols - 1)
    BY <1>0, PlaceExists DEF Typed, InBounds, MatrixTypeOK
<1>4. array_ptr \in [0..(rows * cols - 1) -> Values] /\ meant \in [Elements -> Values]
    BY <1>0 DEF Typed, InBounds, MatrixTypeOK
<1> DEFINE place(e) == cols * e[1] + e[2]
<1>5. \A e \in Elements : place(e) \in 0..(rows * cols - 1)
    <2> TAKE e \in Elements
    <2>1. e[1] \in 0..(rows - 1) /\ e[2] \in 0..(cols - 1)
        BY DEF Elements
    <2> QED BY <2>1, PlaceExists
<1>6. \A e \in Elements : place(e) = here => e = <<index_row, index_col>>
    <2> TAKE e \in Elements
    <2>1. e[1] \in 0..(rows - 1) /\ e[2] \in 0..(cols - 1) /\ e = <<e[1], e[2]>>
        BY DEF Elements
    <2>2. place(e) = here => e[1] = index_row /\ e[2] = index_col
        BY <1>3, <2>1, PlaceIsOwn
    <2> QED BY <2>1, <2>2
<1>7. array_ptr' \in [0..(rows * cols - 1) -> Values] /\ meant' \in [Elements -> Values]
    <2> HIDE DEF here
    <2> QED BY <1>2, <1>4
<1>8. Typed'
    BY <1>0, <1>1, <1>7 DEF Typed, InBounds, MatrixTypeOK
<1>9. ~ cut_short' => /\ ~ cut_short /\ is_row_index
                     /\ access = <<index_row, index_col>> /\ access \in Elements
    <2>1. ~ cut_short' => ~ cut_short /\ Len(access) = 2
        BY <1>1, Zenon
    <2>2. ~ cut_short' => is_row_index /\ access = <<index_row, index_col>>
        BY <1>0, <2>1, Zenon DEF CursorInv, Pointed
    <2>3. <<index_row, index_col>> \in Elements
        BY <1>3, Zenon DEF Elements
    <2> QED BY <2>1, <2>2, <2>3
<1>10. CursorInv'
    BY <1>1, <1>9 DEF CursorInv
<1>11. Pointed'
    BY <1>1 DEF Pointed
<1>12. ~ cut_short' => HoldsWhatWasMeant'
    <2> SUFFICES ASSUME ~ cut_short', NEW e \in Elements PROVE array_ptr'[place(e)] = meant'[e]
        BY <1>1 DEF HoldsWhatWasMeant
    <2>1. array_ptr[place(e)] = meant[e]
        BY <1>0, <1>9 DEF HoldsWhatWasMeant
    <2>2. place(e) \in 0..(rows * cols - 1)
        BY <1>5
    <2>3. meant' = [meant EXCEPT ![access] = val] /\ access \in Elements
        BY <1>2, <1>9
    <2>4. CASE e = access
        <3>1. place(e) = here
            BY <1>9, <2>4
        <3>2. meant'[e] = val
            BY <1>4, <2>3, <2>4
        <3> HIDE DEF here, place
        <3>3. array_ptr'[place(e)] = val
            BY <1>2, <1>4, <2>2, <3>1
        <3> QED BY <3>2, <3>3
    <2>5. CASE e # access
        <3>1. place(e) # here
            BY <1>6, <1>9, <2>5
        <3>2. meant'[e] = meant[e]
            BY <1>4, <2>3, <2>5
        <3> HIDE DEF here, place
        <3>3. array_ptr'[place(e)] = array_ptr[place(e)]
            BY <1>2, <1>4, <2>2, <3>1
        <3> QED BY <2>1, <3>2, <3>3
    <2> QED BY <2>4, <2>5
<1> QED BY <1>8, <1>10, <1>11, <1>12, WholeInvIs, PTL

(***************************************************************************)
(* In a matrix without elements only the types hold: the array has no      *)
(* place, and no access changes it.                                        *)
(***************************************************************************)
MatrixInv == MatrixTypeOK /\ (HasElements => WholeInv)

LEMMA TypeInit == MatrixInit => MatrixTypeOK
<1> SUFFICES ASSUME MatrixInit PROVE MatrixTypeOK
    OBVIOUS
<1>1. <<rows, cols>> \in Sizes
    <2>1. PICK size \in Sizes : rows = size[1] /\ cols = size[2]
        BY DEF MatrixInit
    <2>2. size = <<size[1], size[2]>>
        BY MatrixAssumption
    <2> QED BY <2>1, <2>2
<1>2. 0 \in Indices /\ <<>> \in Seq(Indices) /\ 0 \in 0..2
    BY <1>1, SizesAre DEF Indices
<1>3. array_ptr \in [0..(rows * cols - 1) -> Values] /\ meant \in [Elements -> Values]
    BY DEF MatrixInit
<1>4. /\ index_row \in Indices /\ index_col \in Indices /\ access_count \in 0..2
      /\ access \in Seq(Indices) /\ Len(access) <= 2
    BY <1>2 DEF MatrixInit
<1>5. is_row_index \in BOOLEAN /\ cut_short \in BOOLEAN
    BY Zenon DEF MatrixInit
<1> QED BY <1>1, <1>3, <1>4, <1>5, Zenon DEF MatrixTypeOK

LEMMA TypeStep == MatrixTypeOK /\ [MatrixNext]_matrix_vars => MatrixTypeOK'
<1> SUFFICES ASSUME MatrixTypeOK, [MatrixNext]_matrix_vars PROVE MatrixTypeOK'
    OBVIOUS
<1>1. /\ UNCHANGED <<rows, cols>> /\ Indices' = Indices /\ Elements' = Elements
      /\ 0 \in 0..2 /\ 2 \in 0..2
    BY DEF MatrixNext, Index, IndexThrows, Discard, Get, Set, Assign, matrix_vars, Indices, Elements
<1>2. array_ptr' \in [0..(rows * cols - 1) -> Values] /\ meant' \in [Elements -> Values]
    <2>1. array_ptr \in [0..(rows * cols - 1) -> Values] /\ meant \in [Elements -> Values]
        BY DEF MatrixTypeOK
    <2>2. CASE UNCHANGED <<array_ptr, meant>>
        BY <2>1, <2>2
    <2>3. CASE \E val \in Values : Put(val)
        <3>1. PICK val \in Values : Put(val)
            BY <2>3
        <3>2. PICK at :
                  /\ array_ptr' = [array_ptr EXCEPT ![at] = val]
                  /\ meant' = [meant EXCEPT ![access] = val] \/ UNCHANGED meant
            BY <3>1 DEF Put
        <3> QED BY <2>1, <3>2
    <2> QED BY <2>2, <2>3 DEF MatrixNext, Index, IndexThrows, Discard, Get, Set, Assign, matrix_vars
<1>3. access' \in Seq(Indices) /\ Len(access') <= 2
    <2>1. access \in Seq(Indices) /\ Len(access) <= 2 /\ <<>> \in Seq(Indices) /\ Len(<<>>) = 0
        BY DEF MatrixTypeOK
    <2>2. CASE access' = <<>> \/ UNCHANGED access
        <3>1. CASE access' = <<>>
            BY <3>1
        <3>2. CASE UNCHANGED access
            BY <2>1, <3>2
        <3> QED BY <2>2, <3>1, <3>2
    <2>3. CASE \E index \in Indices : Index(index)
        BY <2>1, <2>3 DEF Index
    <2> QED BY <2>2, <2>3 DEF MatrixNext, IndexThrows, Discard, Get, Set, Assign, EndAccess, matrix_vars
<1>4. is_row_index' \in BOOLEAN /\ cut_short' \in BOOLEAN
    <2>1. is_row_index \in BOOLEAN /\ cut_short \in BOOLEAN
        BY DEF MatrixTypeOK
    <2>2. /\ is_row_index' = is_row_index \/ is_row_index' = ~ is_row_index
          /\ \/ cut_short' = cut_short
             \/ \E lengths : cut_short' = (cut_short \/ Len(access) \notin lengths)
        BY Zenon DEF MatrixNext, Index, IndexThrows, Discard, Get, Set, Assign, EndAccess, cursor, matrix_vars
    <2> QED BY <2>1, <2>2, Zenon
<1>5. index_row' \in Indices /\ index_col' \in Indices
    <2>1. index_row \in Indices /\ index_col \in Indices
        BY DEF MatrixTypeOK
    <2>2. \/ UNCHANGED <<index_row, index_col>>
          \/ \E index \in Indices : index_row' \in {index, index_row} /\ index_col' \in {index, index_col}
        BY DEF MatrixNext, Index, IndexThrows, Discard, Get, Set, Assign, cursor, matrix_vars
    <2> QED BY <2>1, <2>2
<1>6. access_count' \in 0..2
    <2>1. access_count \in 0..2
        BY DEF MatrixTypeOK
    <2>2. access_count' \in {0, access_count, IF access_count < 2 THEN access_count + 1 ELSE access_count}
        BY DEF MatrixNext, Index, IndexThrows, Discard, Get, Set, Assign, cursor, matrix_vars
    <2> QED BY <2>1, <2>2
<1> QED BY <1>1, <1>2, <1>3, <1>4, <1>5, <1>6, Zenon DEF MatrixTypeOK

LEMMA MatrixInvInit == MatrixInit => MatrixInv
BY TypeInit, WholeInvInit DEF MatrixInv

LEMMA MatrixInvStep == MatrixInv /\ [MatrixNext]_matrix_vars => MatrixInv'
<1> SUFFICES ASSUME MatrixInv, [MatrixNext]_matrix_vars, HasElements' PROVE WholeInv'
    BY TypeStep DEF MatrixInv
<1> USE DEF cursor
<1>a. UNCHANGED <<rows, cols>>
    BY DEF MatrixNext, Index, IndexThrows, Discard, Get, Set, Assign, matrix_vars
<1>b. HasElements /\ WholeInv
    BY <1>a DEF HasElements, MatrixInv
<1>0. MatrixTypeOK /\ access_count \in 0..2 /\ 0 \in 0..2
    BY DEF MatrixInv, MatrixTypeOK
<1>1. ASSUME NEW index \in Indices, IndexThrows(index) PROVE WholeInv'
    BY <1>b, <1>0, <1>1, EndStep DEF IndexThrows
<1>2. CASE Discard
    BY <1>b, <1>0, <1>2, EndStep DEF Discard
<1>3. CASE Get
    BY <1>b, <1>0, <1>3, EndStep DEF Get
<1>4. ASSUME NEW val \in Values, Set(val) PROVE WholeInv'
    BY <1>b, <1>0, <1>4, PutStep DEF Set
<1>5. ASSUME NEW val \in Values, Assign(val) PROVE WholeInv'
    BY <1>b, <1>0, <1>5, PutStep DEF Assign
<1>6. CASE UNCHANGED matrix_vars
    BY <1>b, <1>6 DEF matrix_vars, WholeInv, Typed, InBounds, MatrixTypeOK, CursorInv, Pointed,
                      HoldsWhatWasMeant, Elements, Indices
<1> QED BY <1>b, <1>1, <1>2, <1>3, <1>4, <1>5, <1>6, IndexStep DEF MatrixNext

-----------------------------------------------------------------------------
(* In a matrix with rows and columns, no access is outside the array,      *)
(* whatever was cut short; and as long as nothing was, matrix[row][col] is *)
(* the element the caller named and holds what was last assigned to it.    *)
THEOREM AccessesAreExact == MatrixSpec => []AccessesTheElementNamed
<1>1. MatrixInv => AccessesTheElementNamed
    <2> SUFFICES ASSUME MatrixInv, rows > 0, cols > 0
                 PROVE  /\ index_row < rows /\ index_col < cols
                        /\ ~ cut_short => Pointed /\ HoldsWhatWasMeant
        BY DEF MatrixInv, AccessesTheElementNamed, Pointed, HoldsWhatWasMeant
    <2>1. HasElements
        BY DEF HasElements, MatrixInv, MatrixTypeOK
    <2>2. WholeInv
        BY <2>1 DEF MatrixInv
    <2> QED BY <2>1, <2>2, SizesOf DEF WholeInv, Typed, InBounds
<1> QED BY <1>1, MatrixInvInit, MatrixInvStep, PTL DEF MatrixSpec

=============================================================================
