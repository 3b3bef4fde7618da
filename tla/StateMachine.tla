---------------------------- MODULE StateMachine ----------------------------
(***************************************************************************)
(* StateMachine and State (fsm.h), used by one thread.  on_enter, on_exit  *)
(* and on_update are the application's: each may call every method of the  *)
(* machine, transition_to included, before it returns, so the calls under  *)
(* way are a stack.                                                        *)
(*                                                                         *)
(* Both maps are read with operator[], which inserts a null pointer for a  *)
(* key that is absent.                                                     *)
(***************************************************************************)
EXTENDS Integers, Sequences

CONSTANTS StateIds,     \* the type parameter StateId
          MaxObjects,   \* bound on the State objects the machine keeps
          MaxDepth      \* bound on the callbacks under way

ASSUME MachineAssumption ==
    /\ MaxObjects \in Nat /\ MaxDepth \in Nat
    /\ StateIds # {}

Objects == 1..MaxObjects
nullptr == 0
Absent  == -1
Entries == Objects \cup {nullptr, Absent}

VARIABLES
    states_,        \* StateMachine::states_, by id
    curr_state_,    \* StateMachine::curr_state_
    objects,        \* number of State objects made and kept
    live,           \* those of them not deleted
    id_,            \* State::id_ of each
    transitions_,   \* State::transitions_ of each, by id
    stack,          \* the callbacks under way, the innermost last
    active,         \* history: the states entered and not yet exited
    overtaken       \* history: a transition was made under an on_exit

vars == <<states_, curr_state_, objects, live, id_, transitions_, stack, active,
          overtaken>>

Init ==
    /\ states_ = [id \in StateIds |-> Absent]
    /\ curr_state_ = nullptr
    /\ objects = 0 /\ live = {}
    /\ \E id \in StateIds : id_ = [o \in Objects |-> id]
    /\ transitions_ = [o \in Objects |-> [id \in StateIds |-> Absent]]
    /\ stack = <<>> /\ active = {} /\ overtaken = FALSE

(* map::operator[]: the map after it is read at id.                        *)
touched(map, id) == [map EXCEPT ![id] = IF @ = Absent THEN nullptr ELSE @]

-----------------------------------------------------------------------------
(* An id that is in the map, be it with a null pointer, is taken: the new  *)
(* object is deleted again, which leaves nothing changed.                  *)
Taken_never(id) == FALSE
Taken(id) == states_[id] # Absent

AddState(id) ==
    /\ objects < MaxObjects /\ ~ Taken(id)
    /\ objects' = objects + 1
    /\ live' = live \cup {objects + 1}
    /\ id_' = [id_ EXCEPT ![objects + 1] = id]
    /\ states_' = [states_ EXCEPT ![id] = objects + 1]
    /\ UNCHANGED <<curr_state_, transitions_, stack, active, overtaken>>

GetState(id) ==
    /\ states_' = touched(states_, id)
    /\ UNCHANGED <<curr_state_, objects, live, id_, transitions_, stack, active, overtaken>>

(* The caller has both pointers from add_state or get_state.               *)
AddTransition(o, p) ==
    /\ o \in live /\ p \in live
    /\ transitions_' = [transitions_ EXCEPT ![o][id_[p]] = p]
    /\ UNCHANGED <<states_, curr_state_, objects, live, id_, stack, active, overtaken>>

GetTransition(o, id) ==
    /\ o \in live
    /\ transitions_' = [transitions_ EXCEPT ![o] = touched(@, id)]
    /\ UNCHANGED <<states_, curr_state_, objects, live, id_, stack, active, overtaken>>

-----------------------------------------------------------------------------
Frame(callback, state, next) == [callback |-> callback, of |-> state, to |-> next]
Exiting == \E k \in 1..Len(stack) : stack[k].callback = "on_exit"

Known_if_present(id) == states_[id] # Absent
Known(id) == states_[id] \in Objects

Declared_any(id) == TRUE
Declared(id) == transitions_[curr_state_][id] \in Objects

(* The state whose on_exit is called.                                      *)
Left_after_assignment(state) == state
Left(state) == curr_state_

Update ==
    /\ curr_state_ # nullptr /\ Len(stack) < MaxDepth
    /\ stack' = Append(stack, Frame("on_update", curr_state_, nullptr))
    /\ UNCHANGED <<states_, curr_state_, objects, live, id_, transitions_, active, overtaken>>

(* transition_to, up to the first callback it makes.                       *)
TransitionTo(id) ==
    /\ Len(stack) < MaxDepth
    /\ Known(id)
    /\ LET state == states_[id]
       IN  \/ /\ curr_state_ = nullptr
              /\ curr_state_' = state
              /\ active' = active \cup {state}
              /\ stack' = Append(stack, Frame("on_enter", state, nullptr))
           \/ /\ curr_state_ # nullptr
              /\ id # id_[curr_state_] /\ Declared(id)
              /\ active' = active \ {Left(state)}
              /\ stack' = Append(stack, Frame("on_exit", Left(state), state))
              /\ UNCHANGED curr_state_
    /\ overtaken' = (overtaken \/ Exiting)
    /\ UNCHANGED <<states_, objects, live, id_, transitions_>>

TransitionRefused(id) ==
    /\ states_' = touched(states_, id)
    /\ \/ /\ ~ Known(id)
          /\ UNCHANGED transitions_
       \/ /\ Known(id) /\ curr_state_ # nullptr
          /\ id # id_[curr_state_] /\ ~ Declared(id)
          /\ transitions_' = [transitions_ EXCEPT ![curr_state_] = touched(@, id)]
    /\ UNCHANGED <<curr_state_, objects, live, id_, stack, active, overtaken>>

(***************************************************************************)
(* The innermost callback returns.  After on_exit, transition_to assigns   *)
(* the state it looked up before the call, and enters it.                  *)
(***************************************************************************)
Return ==
    /\ stack # <<>>
    /\ LET top   == stack[Len(stack)]
           under == SubSeq(stack, 1, Len(stack) - 1)
       IN  IF top.callback = "on_exit"
           THEN /\ curr_state_' = top.to
                /\ active' = active \cup {top.to}
                /\ stack' = Append(under, Frame("on_enter", top.to, nullptr))
           ELSE /\ stack' = under
                /\ UNCHANGED <<curr_state_, active>>
    /\ UNCHANGED <<states_, objects, live, id_, transitions_, overtaken>>

(* The destructor deletes what states_ holds.                              *)
Destroy ==
    /\ stack = <<>> /\ live # {}
    /\ live' = live \ {states_[id] : id \in StateIds}
    /\ states_' = [id \in StateIds |-> Absent]
    /\ curr_state_' = nullptr
    /\ objects' = MaxObjects
    /\ active' = {}
    /\ UNCHANGED <<id_, transitions_, stack, overtaken>>

Next ==
    \/ \E id \in StateIds :
          AddState(id) \/ GetState(id) \/ TransitionTo(id) \/ TransitionRefused(id)
    \/ \E o \in Objects :
          \/ \E p \in Objects : AddTransition(o, p)
          \/ \E id \in StateIds : GetTransition(o, id)
    \/ Update \/ Return \/ Destroy

Spec == Init /\ [][Next]_vars

-----------------------------------------------------------------------------
(* Properties.                                                             *)

FrameType ==
    [callback : {"on_enter", "on_exit", "on_update"}, of : Objects, to : Objects \cup {nullptr}]

(* Every variable has its type, and an on_exit has a state to go to.       *)
TypeOK ==
    /\ states_ \in [StateIds -> Entries]
    /\ curr_state_ \in Objects \cup {nullptr}
    /\ objects \in 0..MaxObjects /\ live \subseteq 1..objects
    /\ id_ \in [Objects -> StateIds]
    /\ transitions_ \in [Objects -> [StateIds -> Entries]]
    /\ stack \in Seq(FrameType)
    /\ \A k \in 1..Len(stack) : stack[k].callback = "on_exit" => stack[k].to \in Objects
    /\ active \subseteq Objects /\ overtaken \in BOOLEAN

(***************************************************************************)
(* The machine owns every State it has made: each live object is in        *)
(* states_ under its own id, so the destructor deletes it, and every       *)
(* pointer the machine may follow, in curr_state_, in a transition of a    *)
(* live state or in a call under way, is to a live object.                 *)
(***************************************************************************)
OwnsItsStates ==
    /\ \A o \in live : states_[id_[o]] = o
    /\ \A id \in StateIds : states_[id] \in Objects => states_[id] \in live
    /\ curr_state_ # nullptr => curr_state_ \in live
    /\ \A o \in live, id \in StateIds :
          transitions_[o][id] \in Objects => transitions_[o][id] = states_[id]
    /\ \A k \in 1..Len(stack) : stack[k].of \in live /\ stack[k].to \in live \cup {nullptr}

(***************************************************************************)
(* Unless a transition was made under an on_exit, the current state is     *)
(* the only one entered and not exited, except while its on_exit runs.     *)
(***************************************************************************)
OneActive ==
    ~ overtaken =>
        IF Exiting \/ curr_state_ = nullptr THEN active = {} ELSE active = {curr_state_}

(***************************************************************************)
(* Unless a transition was made under an on_exit, the current state only   *)
(* changes along a declared transition, though it is assigned after a      *)
(* callback that may change the machine.                                   *)
(***************************************************************************)
FollowsTransitions ==
    [][ curr_state_ # nullptr /\ curr_state_' \notin {curr_state_, nullptr} /\ ~ overtaken
            => transitions_[curr_state_][id_[curr_state_']] = curr_state_' ]_vars

=============================================================================
