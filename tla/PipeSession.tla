----------------------------- MODULE PipeSession -----------------------------
(***************************************************************************)
(* What the named pipe promises its clients: each sees a stream of answers *)
(* to its own requests, in the order it made them, a request answered any  *)
(* number of times or never.  While the client is there the stream only    *)
(* grows; when it has gone, or has been hung up on because the system has  *)
(* failed, what it has not read may be lost.                               *)
(***************************************************************************)
EXTENDS Integers, Sequences

CONSTANTS Clients, MaxRequests, MaxReply

VARIABLES
    asked,    \* requests each client has made
    here,     \* whether it is there and served
    stream    \* bytes of answers, <<client, request>>, read or on their way

session_vars == <<asked, here, stream>>

Init ==
    /\ asked = [c \in Clients |-> 0]
    /\ here = [c \in Clients |-> TRUE]
    /\ stream = [c \in Clients |-> <<>>]

Ask(c) ==
    /\ here[c] /\ asked[c] < MaxRequests
    /\ asked' = [asked EXCEPT ![c] = @ + 1]
    /\ UNCHANGED <<here, stream>>

(* The request answered is no older than the last one that was.            *)
Answer(c) ==
    /\ here[c]
    /\ \E request \in 1..asked[c], size \in 1..MaxReply :
          /\ stream[c] # <<>> => stream[c][Len(stream[c])][2] <= request
          /\ stream' = [stream EXCEPT ![c] = @ \o [k \in 1..size |-> <<c, request>>]]
    /\ UNCHANGED <<asked, here>>

(* It leaves, or what is left for it is lost once it has.                  *)
Leave(c) ==
    /\ here' = [here EXCEPT ![c] = FALSE]
    /\ \E n \in 0..Len(stream[c]) : stream' = [stream EXCEPT ![c] = SubSeq(@, 1, n)]
    /\ UNCHANGED asked

Next == \E c \in Clients : Ask(c) \/ Answer(c) \/ Leave(c)

Spec == Init /\ [][Next]_session_vars

=============================================================================
