----------------------------- MODULE MCHeaders -----------------------------
(***************************************************************************)
(* The two class templates of the library, fsm.h and matrix.h, for TLC: a  *)
(* program that uses one of them, chosen in the initial state.  The ids of *)
(* the states are interchangeable: none is chosen by its name.             *)
(***************************************************************************)
EXTENDS StateMachine, Matrix, TLC

VARIABLE header
header_vars == <<header, vars, matrix_vars>>

HeadersInit ==
    /\ header \in {"fsm", "matrix"}
    /\ Init /\ MatrixInit
    /\ header # "matrix" => rows = 0

HeadersNext ==
    /\ UNCHANGED header
    /\ \/ header = "fsm"    /\ Next       /\ UNCHANGED matrix_vars
       \/ header = "matrix" /\ MatrixNext /\ UNCHANGED vars

HeadersSpec == HeadersInit /\ [][HeadersNext]_header_vars

(* One that is not square, and two without elements.                       *)
MCSizes == {<<2, 3>>, <<0, 2>>, <<2, 0>>}

IdSymmetry == Permutations(StateIds)

=============================================================================
