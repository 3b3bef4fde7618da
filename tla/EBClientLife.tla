---------------------------- MODULE EBClientLife ----------------------------
(***************************************************************************)
(* What the server promises about its eb_client objects: each belongs to   *)
(* nobody, then to the accept loop that allocates it, then to the handler  *)
(* thread it is passed to, then it is deleted.  It is never passed twice,  *)
(* never deleted twice, never taken back, and never lost on the way.       *)
(***************************************************************************)
EXTENDS Integers

CONSTANT Clients     \* numbers of the objects, in the order of allocation

VARIABLE owner

Init == owner = [c \in Clients |-> "nobody"]

Allocate(c) ==
    /\ owner[c] = "nobody"
    /\ \A d \in Clients : d < c => owner[d] # "nobody"
    /\ owner' = [owner EXCEPT ![c] = "loop"]

Pass(c) ==
    /\ owner[c] = "loop"
    /\ owner' = [owner EXCEPT ![c] = "handler"]

Delete(c) ==
    /\ owner[c] = "handler"
    /\ owner' = [owner EXCEPT ![c] = "deleted"]

Next == \E c \in Clients : Allocate(c) \/ Pass(c) \/ Delete(c)

Spec == Init /\ [][Next]_owner

=============================================================================
