----------------------------- MODULE MCTCPServer -----------------------------
(***************************************************************************)
(* Values of the constants of TCPServer for TLC.  The messages are         *)
(*   "h:;"   one call of hello,                                            *)
(*   "h;;;"  a chunk whose tokenizing throws when it arrives whole,        *)
(*   ";;"    two calls of a hello registered under the empty name.         *)
(* The peers are interchangeable where each may send as much: none is ever *)
(* chosen by its name.                                                     *)
(***************************************************************************)
EXTENDS TCPServer, TLC

MCHandlers == {<<"h">>}
MCHello    == {<<"h", ":", ";">>}
MCTwice    == {<<";", ";">>}
MCEmpty    == {<<>>}
MCMessages == MCHello \cup {<<"h", ";", ";", ";">>}
PeerSymmetry == Permutations(Peers)

MCOneEach == [p \in Peers |-> 1]
MCTwoEach == [p \in Peers |-> 2]

(* All peers but one are silent: it asks, and they may be answered.        *)
MCOneAsks == [p \in Peers |-> IF p = CHOOSE q \in Peers : TRUE THEN 1 ELSE 0]

=============================================================================
