--------------------------- MODULE TCPServerProofs ---------------------------
(***************************************************************************)
(* Theorems of TCPServer, for any number of peers, of start() calls and of *)
(* clients, any messages, any set of handlers and any buffer.              *)
(***************************************************************************)
EXTENDS TCPServer, SequenceTheorems, WellFoundedInduction, TLAPS

(* The assumptions on the constants, as the proofs use them.  *)
LEMMA ConstantFacts ==
    /\ MaxClients \in Nat \ {0} /\ MaxMessages \in [Peers -> Nat]
    /\ NULL \notin Clients /\ This \notin Clients
    /\ Clients \subseteq Pointers /\ NULL \in Pointers /\ This \in Pointers
    /\ NoSocket \notin Starters /\ NoSocket \notin Peers
BY ServerAssumption DEF Clients, NULL, This, Pointers

(* A set of naturals with a member has a least one.                        *)
LEMMA LeastExists ==
    ASSUME NEW S, S \subseteq Nat, S # {}
    PROVE  \E i \in S : \A j \in S : i <= j
<1> DEFINE R == {ss \in Nat \X Nat : ss[1] < ss[2]}
<1>1. IsWellFoundedOn(R, Nat)
    BY ONLY NatLessThanWellFounded DEF OpToRel, R
<1>2. PICK x \in S : \A y \in S : ~ (<<y, x>> \in R)
    <2> HIDE DEF R
    <2> QED BY <1>1, WFMin
<1>3. \A y \in S : ~ (y < x)
    BY <1>2
<1> QED BY <1>3

(* get_param returns the first match, or NULL if there is none.            *)
LEMMA GetParam ==
    ASSUME param_list \in Seq(Params), NEW key
    PROVE  \/ Matches(key) = {} /\ get_param(key) = NULL
           \/ \E i \in Matches(key) : /\ \A j \in Matches(key) : i <= j
                                      /\ get_param(key) = param_list[i].ptr
<1>1. Matches(key) \subseteq Nat
    BY LenProperties DEF Matches
<1>2. CASE Matches(key) = {}
    BY <1>2 DEF get_param
<1>3. CASE Matches(key) # {}
    <2> DEFINE first == CHOOSE i \in Matches(key) : \A j \in Matches(key) : i <= j
    <2>1. \E i \in Matches(key) : \A j \in Matches(key) : i <= j
        BY <1>1, <1>3, LeastExists
    <2>2. first \in Matches(key) /\ \A j \in Matches(key) : first <= j
        BY <2>1
    <2>3. get_param(key) = param_list[first].ptr
        BY <1>3 DEF get_param
    <2> QED BY <2>2, <2>3
<1> QED BY <1>2, <1>3

(* get_param returns a pointer.  *)
LEMMA GetParamType ==
    ASSUME param_list \in Seq(Params), NEW key
    PROVE  get_param(key) \in Pointers
<1>1. \A i \in Matches(key) : param_list[i] \in Params
    BY ElementOfSeq DEF Matches
<1>2. \A i \in Matches(key) : param_list[i].ptr \in Pointers
    BY <1>1 DEF Params
<1> QED BY <1>2, GetParam, ConstantFacts

-----------------------------------------------------------------------------
(* Type correctness.  A group of variables no step touches keeps its type. *)

(* A step that leaves a group of variables alone keeps their type.         *)
LEMMA Frame ==
    /\ StatusType /\ UNCHANGED status_vars => StatusType'
    /\ LoopType   /\ UNCHANGED loop_vars   => LoopType'
    /\ ListenType /\ UNCHANGED listen_vars => ListenType'
    /\ HeapType   /\ UNCHANGED heap_vars   => HeapType'
    /\ ThreadType /\ UNCHANGED thread_vars => ThreadType'
    /\ ParamType  /\ UNCHANGED param_vars  => ParamType'
    /\ NetType    /\ UNCHANGED net_vars    => NetType'
<1>1. StatusType /\ UNCHANGED status_vars => StatusType' BY DEF StatusType, status_vars
<1>2. LoopType   /\ UNCHANGED loop_vars   => LoopType'   BY DEF LoopType, loop_vars
<1>3. ListenType /\ UNCHANGED listen_vars => ListenType' BY DEF ListenType, listen_vars
<1>4. HeapType   /\ UNCHANGED heap_vars   => HeapType'   BY DEF HeapType, heap_vars
<1>5. ThreadType /\ UNCHANGED thread_vars => ThreadType' BY DEF ThreadType, thread_vars
<1>6. ParamType  /\ UNCHANGED param_vars  => ParamType'  BY DEF ParamType, param_vars
<1>7. NetType    /\ UNCHANGED net_vars    => NetType'    BY DEF NetType, net_vars
<1> QED BY <1>1, <1>2, <1>3, <1>4, <1>5, <1>6, <1>7

(* The server starts with every variable of its type.  *)
LEMMA InitType == Init => TypeOK
<1> SUFFICES ASSUME Init PROVE TypeOK
    OBVIOUS
<1> USE ConstantFacts DEF Init
<1>1. StatusType /\ LoopType /\ ListenType BY DEF StatusType, LoopType, ListenType, ListenerState
<1>2. HeapType BY DEF HeapType
<1>4. ThreadType BY DEF ThreadType
<1>3. ParamType
    <2>1. param_list \in Seq(Params)
        BY EmptySeq
    <2> QED BY <2>1 DEF ParamType
<1>5. NetType
    <2>1. \A p \in Peers : stream[p] \in Seq(STRING)
        OBVIOUS
    <2>2. \A p \in Peers : unread[p] \in 0..SendCapacity
        BY ServerAssumption
    <2> QED BY <2>1, <2>2 DEF NetType
<1> QED BY <1>1, <1>2, <1>3, <1>4, <1>5 DEF TypeOK

(* A reset of connections keeps the types of the network.  *)
LEMMA ResetType ==
    ASSUME NetType, UNCHANGED sent, NEW connections, Reset(connections)
    PROVE  NetType'
<1> DEFINE Texts == Seq(STRING)
<1>1. <<>> \in Texts
    OBVIOUS
<1>3. /\ unread' \in [Peers -> 0..SendCapacity]
      /\ peer' \in [Peers -> {"away", "open", "closed", "reset"}]
    BY ServerAssumption DEF NetType, Reset
<1>2. stream \in [Peers -> Texts] => stream' \in [Peers -> Texts]
    <2> HIDE DEF Texts
    <2> QED BY <1>1 DEF Reset
<1> QED BY <1>2, <1>3 DEF NetType

(* The hand-over of an eb_client to its thread keeps the types.  *)
LEMMA SpawnType ==
    ASSUME TypeOK, NEW s \in Starters, NEW sock \in Peers \cup {NoSocket}, Spawn(s, sock)
    PROVE  /\ StatusType' /\ LoopType' /\ HeapType' /\ ThreadType' /\ ParamType'
           /\ UNCHANGED <<stop_pc, crash>>
<1> USE DEF TypeOK, Spawn
<1>1. StatusType' /\ ParamType' BY Frame
<1>2. LoopType' BY ConstantFacts DEF LoopType
<1>3. HeapType' BY DEF HeapType
<1>4. ThreadType'
    <2> DEFINE d == pending[s]
    <2>1. /\ pc' = [pc EXCEPT ![d] = "add"] /\ calls' = [calls EXCEPT ![d] = 0]
          /\ UNCHANGED <<slot, todo, target, out, late>>
        OBVIOUS
    <2>2. \A c \in Clients : pc'[c] \in {"add", "adding"} => calls'[c] < 2
        BY <2>1 DEF ThreadType
    <2>3. pc' \in [Clients -> {"none", "add", "adding", "loop", "recv", "handle",
                              "send", "sending", "exit", "done"}]
        BY <2>1 DEF ThreadType
    <2>4. calls \in [Clients -> {0, 1, 2}]
        BY DEF ThreadType
    <2>5. calls' \in [Clients -> {0, 1, 2}]
        BY ONLY <2>1, <2>4
    <2> QED BY <2>1, <2>2, <2>3, <2>5 DEF ThreadType
<1> QED BY <1>1, <1>2, <1>3, <1>4

(* The end of an accept() on a socket that listens keeps the types.        *)
LEMMA ReleaseType ==
    ASSUME TypeOK, NEW s \in Starters, NEW left \in SUBSET Peers, blocked_on[s] # NoSocket,
           UNCHANGED sent, Release(s, left)
    PROVE  ListenType' /\ NetType'
<1>1. blocked_on[s] \in Starters
    BY DEF TypeOK, LoopType
<1>2. PICK connections : Reset(connections)
    BY DEF Release
<1>3. NetType'
    BY <1>2, ResetType DEF TypeOK
<1>4. /\ \E some \in SUBSET Peers : backlog' = [backlog EXCEPT ![blocked_on[s]] = some]
      /\ \E state \in ListenerState : listener' = [listener EXCEPT ![blocked_on[s]] = state]
    BY <1>1 DEF Release, TypeOK, ListenType, ListenerState
<1> QED BY <1>1, <1>3, <1>4 DEF TypeOK, ListenType

(* Every step of start() and its accept loop keeps the types.  *)
LEMMA StarterType ==
    ASSUME TypeOK, NEW s \in Starters, Starter(s)
    PROVE  TypeOK'
<1> USE DEF TypeOK
<1>1. CASE StartSocket(s)
    BY <1>1, Frame DEF StartSocket, StatusType, LoopType, ListenType, ListenerState
<1>2. CASE StartBind(s)
    BY <1>2, Frame DEF StartBind, StatusType, LoopType, ListenType, ListenerState
<1>3. CASE StartRunning(s)
    BY <1>3, Frame DEF StartRunning, StatusType, LoopType, ThreadType
<1>4. CASE StartListen(s)
    BY <1>4, Frame DEF StartListen, LoopType, ListenType, ListenerState
<1>5. CASE NewClient(s)
    <2>1. next_client + 1 \in 1..MaxClients /\ next_client + 1 \in Clients
        BY <1>5, ConstantFacts DEF NewClient, HeapType, Clients
    <2> QED BY <1>5, <2>1, Frame DEF NewClient, StatusType, LoopType, HeapType
<1>6. CASE Accept(s)
    <2>1. PICK p \in backlog[blocked_on[s]] :
              Spawn(s, p) /\ Release(s, backlog[blocked_on[s]] \ {p})
        BY <1>6 DEF Accept
    <2>2. blocked_on[s] # NoSocket /\ backlog[blocked_on[s]] \in SUBSET Peers
        BY <1>6 DEF Accept, ListenType, LoopType
    <2>3. ListenType' /\ NetType'
        BY <2>1, <2>2, ReleaseType DEF Spawn
    <2> QED BY <2>1, <2>2, <2>3, SpawnType
<1>7. CASE AcceptFails(s)
    <2>1. ListenType' /\ NetType'
        BY <1>7, Frame DEF AcceptFails, Spawn, net_vars
    <2> QED BY <1>7, <2>1, SpawnType DEF AcceptFails
<1>9. CASE AcceptError(s)
    <2>1. blocked_on[s] # NoSocket /\ backlog[blocked_on[s]] \in SUBSET Peers
        BY <1>9 DEF AcceptError, ListenType, LoopType
    <2>2. ListenType' /\ NetType'
        BY <1>9, <2>1, ReleaseType DEF AcceptError, Spawn
    <2> QED BY <1>9, <2>2, SpawnType DEF AcceptError
<1>8. CASE SpawnFails(s)
    BY <1>8, Frame DEF SpawnFails, Die
<1> QED BY <1>1, <1>2, <1>3, <1>4, <1>5, <1>6, <1>7, <1>8, <1>9 DEF Starter, Started

(* What send does to the connection, and to the process, has its type.     *)
LEMMA SendType ==
    ASSUME TypeOK, NEW sock, Room(sock), UNCHANGED sent, Send(sock)
    PROVE  NetType' /\ crash' \in {"no", "spawn", "throw", "overread", "sigpipe", "race"}
<1>1. CASE sock \in Peers /\ peer[sock] = "open" /\ UNCHANGED <<peer, stream, crash>>
           /\ unread' = [unread EXCEPT ![sock] = @ + 1]
    <2>1. unread[sock] + 1 \in 0..SendCapacity
        BY <1>1, ServerAssumption DEF Room, TypeOK, NetType
    <2>2. unread' \in [Peers -> 0..SendCapacity]
        BY <1>1, <2>1 DEF TypeOK, NetType
    <2> QED BY <1>1, <2>2 DEF TypeOK, NetType
<1>2. CASE UNCHANGED <<peer, stream, unread>> /\ crash' \in {crash, "sigpipe"}
    BY <1>2 DEF TypeOK, NetType
<1>3. CASE Reset({sock}) /\ UNCHANGED crash
    BY <1>3, ResetType DEF TypeOK
<1> QED BY <1>1, <1>2, <1>3 DEF Send

(* Every step of client_handler keeps the types.  *)
LEMMA HandlerType ==
    ASSUME TypeOK, NEW c \in Clients, Handler(c)
    PROVE  TypeOK'
<1> USE DEF TypeOK
<1>1. CASE AddParamBegin(c)
    <2>1. ThreadType' /\ ParamType'
        BY <1>1, LenProperties DEF AddParamBegin, ThreadType, ParamType, Pushing
    <2> QED BY <1>1, <2>1, Frame DEF AddParamBegin
<1>2. CASE AddParamEnd(c)
    <2> DEFINE param   == own_params(c)[calls[c] + 1]
               written == [param_list EXCEPT ![slot[c]] = param]
    <2>1. calls[c] \in {0, 1}
        BY <1>2 DEF AddParamEnd, ThreadType
    <2>2. param \in Params /\ Hole \in Params
        <3>1. ServerParam \in Params /\ ClientParam(c) \in Params /\ Hole \in Params
            BY ConstantFacts DEF ServerParam, ClientParam, Hole, Params
        <3>2. param \in {ServerParam, ClientParam(c)}
            BY <2>1 DEF own_params
        <3> QED BY <3>1, <3>2
    <2>3. written \in Seq(Params)
        <3> HIDE DEF param
        <3>1. param_list \in Seq(Params)
            BY DEF ParamType
        <3>2. CASE slot[c] \in 1..Len(param_list)
            BY <2>2, <3>1, <3>2, ExceptSeq
        <3>3. CASE slot[c] \notin 1..Len(param_list)
            <4>1. written = param_list
                BY <3>1, <3>3, LenProperties
            <4> QED BY <3>1, <4>1
        <3> QED BY <3>2, <3>3
    <2>4. param_list' \in {Append(param_list, param), written, Append(written, Hole)}
        BY <1>2 DEF AddParamEnd
    <2>5. param_list' \in Seq(Params)
        BY <2>2, <2>3, <2>4, AppendProperties DEF ParamType
    <2>6. ThreadType' /\ ParamType'
        BY <1>2, <2>1, <2>5 DEF AddParamEnd, LastParam, ThreadType, ParamType
    <2> QED BY <1>2, <2>6, Frame DEF AddParamEnd
<1>3. CASE Loop(c)
    BY <1>3, Frame DEF Loop, Leave, ThreadType
<1>4. CASE Recv(c)
    <2> DEFINE p == client_sock[c]
               Texts == Seq(STRING)
    <2>1. p \in Peers /\ stream[p] \in Texts
        BY <1>4 DEF Recv, HeapType, NetType
    <2>2. PICK n \in 1..Len(stream[p]) :
              stream' = [stream EXCEPT ![p] = SubSeq(@, n + 1, Len(@))]
        BY <1>4 DEF Recv
    <2>3. SubSeq(stream[p], n + 1, Len(stream[p])) \in Texts
        BY <2>1, SubSeqProperties
    <2>4. NetType'
        BY <1>4, <2>1, <2>2, <2>3 DEF Recv, NetType
    <2>5. \A data : handled(data) \in SUBSET Nat
        <3> TAKE data
        <3> DEFINE size == Len(substrings(data, delimiter_positions(data, ";")))
        <3>1. DOMAIN parse(data) = 1..size
            BY DEF parse
        <3>2. 1..size \subseteq Nat
            <4> HIDE DEF size
            <4> QED OBVIOUS
        <3> QED BY <3>1, <3>2 DEF handled
    <2>6. ThreadType' /\ crash' \in {"no", "spawn", "throw", "overread", "sigpipe", "race"}
        <3>1. PICK data : \/ /\ todo' = [todo EXCEPT ![c] = handled(data)]
                             /\ pc' = [pc EXCEPT ![c] = "handle"]
                             /\ UNCHANGED crash
                          \/ /\ crash' \in {"throw", "overread"}
                             /\ UNCHANGED <<todo, pc>>
            BY <1>4 DEF Recv
        <3>2. todo' \in [Clients -> SUBSET Nat]
            <4>1. todo \in [Clients -> SUBSET Nat]
                BY DEF ThreadType
            <4>2. \E found \in SUBSET Nat : todo' = [todo EXCEPT ![c] = found] \/ UNCHANGED todo
                BY <2>5, <3>1
            <4> QED BY ONLY <4>1, <4>2
        <3>3. late' \in [Clients -> Nat] /\ UNCHANGED <<calls, slot, target, out>>
            BY <1>4 DEF Recv, ThreadType
        <3> QED BY <3>1, <3>2, <3>3 DEF ThreadType
    <2> QED BY <1>4, <2>4, <2>6, Frame DEF Recv
<1>5. CASE RecvEnd(c)
    BY <1>5, Frame DEF RecvEnd, Leave, ThreadType
<1>6. CASE Hello(c)
    <2>1. get_param("client") \in Pointers
        BY GetParamType DEF ParamType
    <2>2. ThreadType' /\ ParamType'
        BY <1>6, <2>1 DEF Hello, ThreadType, ParamType, Pushing
    <2> QED BY <1>6, <2>2, Frame DEF Hello
<1>7. CASE SendData(c)
    <2>1. PICK sock : \/ /\ Room(sock) /\ Send(sock)
                         /\ pc' = [pc EXCEPT ![c] = "handle"] /\ UNCHANGED out
                      \/ /\ ~ Room(sock) /\ UNCHANGED <<peer, stream, unread, crash>>
                         /\ pc' = [pc EXCEPT ![c] = "sending"]
                         /\ out' = [out EXCEPT ![c] = sock]
        BY <1>7 DEF SendData
    <2>2. NetType' /\ crash' \in {"no", "spawn", "throw", "overread", "sigpipe", "race"}
        BY <1>7, <2>1, SendType, Frame DEF SendData, net_vars
    <2>3. ParamType' /\ target' \in [Clients -> Pointers] /\ UNCHANGED <<calls, slot, todo, late>>
        BY <1>7, ConstantFacts DEF SendData, ThreadType, ParamType
    <2>4. out' \in [Clients -> Peers \cup {NoSocket}]
        BY <2>1 DEF Room, ThreadType
    <2>5. ThreadType'
        BY <2>1, <2>3, <2>4 DEF ThreadType
    <2> QED BY <1>7, <2>2, <2>3, <2>5, Frame DEF SendData
<1>10. CASE SendLate(c)
    <2>1. NetType' /\ crash' \in {"no", "spawn", "throw", "overread", "sigpipe", "race"}
        BY <1>10, SendType DEF SendLate
    <2>2. ThreadType'
        BY <1>10 DEF SendLate, ThreadType
    <2> QED BY <1>10, <2>1, <2>2, Frame DEF SendLate
<1>8. CASE Handled(c)
    BY <1>8, Frame DEF Handled, ThreadType
<1>9. CASE Exit(c)
    BY <1>9, Frame DEF Exit, ThreadType, HeapType
<1> QED BY <1>1, <1>2, <1>3, <1>4, <1>5, <1>6, <1>7, <1>8, <1>9, <1>10 DEF Handler

(* So do stop(), a crash, the peers and a stuttering step.  *)
LEMMA OtherType ==
    ASSUME TypeOK, Stopper \/ Corrupted \/ Network
    PROVE  TypeOK'
<1> USE DEF TypeOK
<1>1. CASE StopClose
    <2>1. ListenType'
        BY <1>1 DEF StopClose, after_close, ListenType, ListenerState
    <2>2. NetType'
        BY <1>1, ResetType, Frame DEF StopClose, net_vars
    <2> QED BY <1>1, <2>1, <2>2, Frame DEF StopClose
<1>2. CASE StopIdle
    BY <1>2, Frame DEF StopIdle, StatusType
<1>3. CASE Corrupted
    BY <1>3, Frame DEF Corrupted, Die
<1>4. CASE Network
    <2>1. PICK p \in Peers : Connect(p) \/ PeerSend(p) \/ PeerRead(p) \/ PeerClose(p)
        BY <1>4 DEF Network
    <2>2. CASE Connect(p)
        BY <2>2, Frame DEF Connect, ListenType, NetType
    <2>3. CASE PeerSend(p)
        <3>1. \A m \in Messages : stream[p] \o m \in Seq(STRING)
            BY ServerAssumption, ConcatProperties DEF NetType
        <3>2. sent[p] + 1 \in Nat /\ sent[p] + 1 <= MaxMessages[p]
            <4>1. sent[p] \in Nat
                BY DEF NetType
            <4>2. sent[p] < MaxMessages[p]
                BY <2>3 DEF PeerSend
            <4>3. MaxMessages[p] \in Nat
                BY ConstantFacts
            <4> QED BY <4>1, <4>2, <4>3
        <3>3. /\ sent' = [sent EXCEPT ![p] = @ + 1] /\ UNCHANGED <<peer, unread>>
              /\ \E m \in Messages : stream' = [stream EXCEPT ![p] = @ \o m]
            BY <2>3 DEF PeerSend
        <3>4. sent' \in [Peers -> Nat] /\ \A q \in Peers : sent'[q] <= MaxMessages[q]
            BY <3>2, <3>3 DEF NetType
        <3>5. stream' \in [Peers -> Seq(STRING)]
            <4> DEFINE Texts == Seq(STRING)
            <4>1. stream \in [Peers -> Texts] /\ \A m \in Messages : stream[p] \o m \in Texts
                BY <3>1 DEF NetType
            <4> HIDE DEF Texts
            <4>2. stream' \in [Peers -> Texts]
                BY <3>3, <4>1
            <4> QED BY <4>2 DEF Texts
        <3>6. NetType'
            BY <3>3, <3>4, <3>5 DEF NetType
        <3> QED BY <2>3, <3>6, Frame DEF PeerSend
    <2>4. CASE PeerClose(p)
        <3>1. NetType'
            <4>1. CASE Reset({p})
                BY <2>4, <4>1, ResetType DEF PeerClose
            <4>2. CASE ~ Reset({p})
                <5>1. /\ peer' = [peer EXCEPT ![p] = "closed"]
                      /\ unread' = [unread EXCEPT ![p] = 0] /\ UNCHANGED <<stream, sent>>
                    BY <2>4, <4>2 DEF PeerClose
                <5>2. 0 \in 0..SendCapacity
                    BY ServerAssumption
                <5>3. unread' \in [Peers -> 0..SendCapacity]
                    BY <5>1, <5>2 DEF NetType
                <5> QED BY <5>1, <5>3 DEF NetType
            <4> QED BY <4>1, <4>2
        <3> QED BY <2>4, <3>1, Frame DEF PeerClose
    <2>5. CASE PeerRead(p)
        <3>1. unread[p] - 1 \in 0..SendCapacity
            BY <2>5, ServerAssumption DEF PeerRead, NetType
        <3>2. unread' \in [Peers -> 0..SendCapacity]
            BY <2>5, <3>1 DEF PeerRead, NetType
        <3> QED BY <2>5, <3>2, Frame DEF PeerRead, NetType
    <2> QED BY <2>1, <2>2, <2>3, <2>4, <2>5
<1> QED BY <1>1, <1>2, <1>3, <1>4 DEF Stopper

(***************************************************************************)
(* Every variable of the server always has its type.                       *)
(***************************************************************************)
THEOREM TypeCorrect == Spec => []TypeOK
<1>1. TypeOK /\ [Next]_vars => TypeOK'
    <2> SUFFICES ASSUME TypeOK, [Next]_vars PROVE TypeOK'
        OBVIOUS
    <2>1. CASE Next
        BY <2>1, StarterType, HandlerType, OtherType DEF Next
    <2>2. CASE UNCHANGED vars
        BY <2>2, Frame DEF vars, TypeOK
    <2> QED BY <2>1, <2>2
<1> QED BY <1>1, InitType, PTL DEF Spec

-----------------------------------------------------------------------------
(* Ownership of the eb_client objects.                                     *)

(***************************************************************************)
(* OneOwner is not inductive: that the object an accept loop allocates has *)
(* no owner yet comes from the order of allocation, and that the loop owns *)
(* the one it passes on from its being inside accept().                    *)
(***************************************************************************)
OwnerInv ==
    /\ OneOwner
    /\ \A c \in Clients : heap[c] = "unused" <=> c > next_client
    /\ \A s \in Starters : start_pc[s] = "accept" <=> pending[s] \in Clients

(* A step that moves one handler, and neither starts nor ends it.          *)
LEMMA OwnerServingStep ==
    ASSUME TypeOK, OwnerInv, NEW c \in Clients, pc[c] \notin {"none", "done"},
           NEW next \in {"add", "adding", "loop", "recv", "handle", "send", "sending", "exit"},
           pc' = [pc EXCEPT ![c] = next],
           UNCHANGED <<next_client, heap, pending, start_pc>>
    PROVE  OwnerInv'
BY DEF TypeOK, ThreadType, OwnerInv, OneOwner

(* OwnerInv holds after a step that leaves its variables alone.  *)
LEMMA OwnerFrame ==
    OwnerInv /\ UNCHANGED <<next_client, heap, pending, start_pc, pc>> => OwnerInv'
BY DEF OwnerInv, OneOwner

(* A step of start() that leaves the clients alone.                        *)
LEMMA OwnerStartStep ==
    ASSUME TypeOK, OwnerInv, NEW s \in Starters, start_pc[s] # "accept",
           NEW next, next # "accept",
           start_pc' = [start_pc EXCEPT ![s] = next],
           UNCHANGED <<next_client, heap, pending, pc>>
    PROVE  OwnerInv'
BY DEF TypeOK, LoopType, OwnerInv, OneOwner

(* The accept loop keeps OwnerInv.  *)
LEMMA OwnerStarter ==
    ASSUME TypeOK, OwnerInv, NEW s \in Starters, Starter(s)
    PROVE  OwnerInv'
<1>1. CASE StartSocket(s)
    BY <1>1, OwnerStartStep, OwnerFrame DEF StartSocket, heap_vars, thread_vars
<1>2. CASE StartBind(s)
    BY <1>2, OwnerStartStep DEF StartBind, heap_vars, thread_vars
<1>3. CASE StartRunning(s)
    BY <1>3, OwnerStartStep DEF StartRunning, heap_vars
<1>4. CASE StartListen(s)
    BY <1>4, OwnerStartStep DEF StartListen, heap_vars, thread_vars
<1>5. CASE NewClient(s)
    <2> DEFINE c == next_client + 1
    <2>1. c \in Clients /\ heap[c] = "unused" /\ c # NULL
        BY <1>5, ConstantFacts DEF NewClient, TypeOK, HeapType, OwnerInv, Clients
    <2>2. /\ next_client' = c /\ heap' = [heap EXCEPT ![c] = "live"]
          /\ pending' = [pending EXCEPT ![s] = c] /\ pc' = pc
          /\ start_pc' = [start_pc EXCEPT ![s] = "accept"]
        BY <1>5 DEF NewClient, thread_vars
    <2>3. OneOwner'
        <3>1. pc[c] = "none" /\ \A t \in Starters : pending[t] # c
            BY <2>1 DEF OwnerInv, OneOwner
        <3>2. pending[s] = NULL
            BY <1>5 DEF NewClient, TypeOK, LoopType, OwnerInv
        <3> HIDE DEF c
        <3> USE <2>1, <2>2, <3>1, <3>2 DEF TypeOK, HeapType, LoopType, OwnerInv, OneOwner
        <3>3. ASSUME NEW d \in Clients
              PROVE  heap'[d] = "live" <=> \/ \E t \in Starters : pending'[t] = d
                                           \/ pc'[d] \notin {"none", "done"}
            <4>1. CASE d = c BY <4>1
            <4>2. CASE d # c BY <4>2, ConstantFacts
            <4> QED BY <4>1, <4>2
        <3>4. ASSUME NEW d \in Clients
              PROVE  /\ heap'[d] = "freed" <=> pc'[d] = "done"
                     /\ (\E t \in Starters : pending'[t] = d) => pc'[d] = "none"
            OBVIOUS
        <3>5. \A t, u \in Starters : pending'[t] = pending'[u] => t = u \/ pending'[t] = NULL
            OBVIOUS
        <3> QED BY <3>3, <3>4, <3>5
    <2>4. \A d \in Clients : heap'[d] = "unused" <=> d > next_client'
        BY <2>1, <2>2 DEF TypeOK, HeapType, OwnerInv, Clients
    <2>5. \A t \in Starters : start_pc'[t] = "accept" <=> pending'[t] \in Clients
        BY <2>1, <2>2 DEF TypeOK, LoopType, OwnerInv
    <2> QED BY <2>3, <2>4, <2>5 DEF OwnerInv
<1>6. CASE Accept(s) \/ AcceptFails(s) \/ AcceptError(s)
    <2> DEFINE c == pending[s]
    <2>1. start_pc[s] = "accept" /\ \E sock : Spawn(s, sock)
        BY <1>6 DEF Accept, AcceptFails, AcceptError
    <2>2. /\ pending' = [pending EXCEPT ![s] = NULL] /\ pc' = [pc EXCEPT ![c] = "add"]
          /\ start_pc' = [start_pc EXCEPT ![s] = "new"] /\ UNCHANGED <<next_client, heap>>
        BY <2>1 DEF Spawn
    <2>3. c \in Clients /\ pc[c] = "none" /\ c # NULL
        BY <2>1, ConstantFacts DEF OwnerInv, OneOwner
    <2>4. OneOwner'
        BY <2>2, <2>3, ConstantFacts DEF TypeOK, ThreadType, LoopType, OwnerInv, OneOwner
    <2>5. \A t \in Starters : start_pc'[t] = "accept" <=> pending'[t] \in Clients
        BY <2>2, ConstantFacts DEF TypeOK, LoopType, OwnerInv
    <2> QED BY <2>2, <2>4, <2>5 DEF OwnerInv
<1>7. CASE SpawnFails(s)
    BY <1>7, OwnerFrame DEF SpawnFails, Die, loop_vars, heap_vars, thread_vars
<1> QED BY <1>1, <1>2, <1>3, <1>4, <1>5, <1>6, <1>7 DEF Starter, Started

(* client_handler keeps OwnerInv.  *)
LEMMA OwnerHandler ==
    ASSUME TypeOK, OwnerInv, NEW c \in Clients, Handler(c)
    PROVE  OwnerInv'
<1> USE DEF heap_vars, loop_vars
<1>1. CASE AddParamBegin(c) BY <1>1, OwnerServingStep DEF AddParamBegin
<1>2. CASE AddParamEnd(c)   BY <1>2, OwnerServingStep DEF AddParamEnd
<1>3. CASE Loop(c)          BY <1>3, OwnerServingStep DEF Loop, Leave
<1>4. CASE Recv(c)
    <2>1. pc' = [pc EXCEPT ![c] = "handle"] \/ UNCHANGED pc
        BY <1>4 DEF Recv
    <2> QED BY <1>4, <2>1, OwnerServingStep, OwnerFrame DEF Recv
<1>5. CASE RecvEnd(c)       BY <1>5, OwnerServingStep DEF RecvEnd, Leave
<1>6. CASE Hello(c)         BY <1>6, OwnerServingStep DEF Hello
<1>7. CASE SendData(c)      BY <1>7, OwnerServingStep DEF SendData
<1>10. CASE SendLate(c)     BY <1>10, OwnerServingStep DEF SendLate
<1>8. CASE Handled(c)       BY <1>8, OwnerServingStep DEF Handled
<1>9. CASE Exit(c)
    <2>1. /\ heap' = [heap EXCEPT ![c] = "freed"] /\ pc' = [pc EXCEPT ![c] = "done"]
          /\ pc[c] = "exit" /\ UNCHANGED <<next_client, pending, start_pc>>
        BY <1>9 DEF Exit
    <2>2. OneOwner'
        BY <2>1 DEF TypeOK, ThreadType, HeapType, OwnerInv, OneOwner
    <2>3. \A d \in Clients : heap'[d] = "unused" <=> d > next_client'
        BY <2>1 DEF TypeOK, HeapType, OwnerInv, OneOwner
    <2> QED BY <2>1, <2>2, <2>3 DEF OwnerInv
<1> QED BY <1>1, <1>2, <1>3, <1>4, <1>5, <1>6, <1>7, <1>8, <1>9, <1>10 DEF Handler

(* So do stop(), a crash, the peers and a stuttering step.  *)
LEMMA OwnerOther ==
    ASSUME OwnerInv, Stopper \/ Corrupted \/ Network
    PROVE  OwnerInv'
<1> UNCHANGED <<next_client, heap, pending, start_pc, pc>>
    BY DEF Stopper, StopClose, StopIdle, Corrupted, Die, Network, Connect, PeerSend,
           PeerRead, PeerClose, heap_vars, loop_vars, thread_vars
<1> QED BY OwnerFrame

(* OwnerInv, with the types, is an invariant of the server: each eb_client
   that exists has its one owner, and those not allocated have none.  *)
THEOREM OwnerInvHolds == Spec => []OwnerInv
<1>1. Init => OwnerInv
    BY ConstantFacts DEF Init, OwnerInv, OneOwner, Clients
<1>2. TypeOK /\ OwnerInv /\ [Next]_vars => OwnerInv'
    <2> SUFFICES ASSUME TypeOK, OwnerInv, [Next]_vars PROVE OwnerInv'
        OBVIOUS
    <2>1. CASE Next
        BY <2>1, OwnerStarter, OwnerHandler, OwnerOther DEF Next
    <2>2. CASE UNCHANGED vars
        BY <2>2, OwnerFrame DEF vars, loop_vars, heap_vars, thread_vars
    <2> QED BY <2>1, <2>2
<1> QED BY <1>1, <1>2, TypeCorrect, PTL DEF Spec

(***************************************************************************)
(* No two threads ever own the same eb_client, and it is deleted when its  *)
(* owner ends, not before.                                                 *)
(***************************************************************************)
THEOREM OwnershipHolds == Spec => []OneOwner
<1>1. OwnerInv => OneOwner
    BY DEF OwnerInv
<1> QED BY <1>1, OwnerInvHolds, PTL

-----------------------------------------------------------------------------
(* The server implements EBClientLife.                                     *)

(* owner is a function on the clients.  *)
LEMMA OwnerDomain ==
    /\ owner = [c \in Clients |-> owner[c]]
    /\ owner' = [c \in Clients |-> owner'[c]]
BY DEF owner

(* The four owners, as the invariant has them.                             *)
LEMMA OwnerOf ==
    ASSUME TypeOK, OwnerInv, NEW c \in Clients
    PROVE  /\ owner[c] = "nobody"  <=> c > next_client
           /\ owner[c] = "loop"    <=> \E s \in Starters : pending[s] = c
           /\ owner[c] = "handler" <=> pc[c] \notin {"none", "done"}
           /\ owner[c] = "deleted" <=> heap[c] = "freed"
BY DEF owner, TypeOK, HeapType, OwnerInv, OneOwner

(* A step that touches no object, and neither starts nor ends a handler.   *)
LEMMA LifeStutter ==
    ASSUME TypeOK, OwnerInv, UNCHANGED <<heap, pending>>,
           \A c \in Clients : pc'[c] \in {"none", "done"} <=> pc[c] \in {"none", "done"}
    PROVE  UNCHANGED owner
BY DEF owner

(* Each step of the accept loop is a step of EBClientLife, or a stutter.  *)
LEMMA LifeStarter ==
    ASSUME TypeOK, OwnerInv, OwnerInv', TypeOK', NEW s \in Starters, Starter(s)
    PROVE  [Life!Next]_owner
<1> USE DEF heap_vars, loop_vars, thread_vars
<1>1. CASE NewClient(s)
    <2> DEFINE c == next_client + 1
    <2>1. c \in Clients /\ next_client \in Nat
        BY <1>1 DEF NewClient, TypeOK, HeapType, Clients
    <2>2. /\ next_client' = c /\ heap' = [heap EXCEPT ![c] = "live"] /\ UNCHANGED pc
          /\ pending' = [pending EXCEPT ![s] = c] /\ start_pc[s] = "new"
        BY <1>1 DEF NewClient
    <2>3. pending[s] = NULL
        BY <2>2 DEF TypeOK, LoopType, OwnerInv
    <2>4. owner[c] = "nobody" /\ \A d \in Clients : d < c => owner[d] # "nobody"
        BY <2>1, OwnerOf DEF Clients
    <2>5. \A d \in Clients : owner'[d] = IF d = c THEN "loop" ELSE owner[d]
        <3> HIDE DEF c
        <3> SUFFICES ASSUME NEW d \in Clients
                     PROVE  owner'[d] = IF d = c THEN "loop" ELSE owner[d]
            OBVIOUS
        <3>1. CASE d = c
            BY <3>1, <2>1, <2>2 DEF owner, TypeOK, HeapType, LoopType
        <3>2. CASE d # c
            BY <3>2, <2>1, <2>2, <2>3, ConstantFacts DEF owner, TypeOK, HeapType, LoopType
        <3> QED BY <3>1, <3>2
    <2>6. owner' = [owner EXCEPT ![c] = "loop"]
        BY <2>1, <2>5, OwnerDomain
    <2> QED BY <2>1, <2>4, <2>6 DEF Life!Next, Life!Allocate
<1>2. CASE Accept(s) \/ AcceptFails(s) \/ AcceptError(s)
    <2> DEFINE c == pending[s]
    <2>1. start_pc[s] = "accept" /\ \E sock : Spawn(s, sock)
        BY <1>2 DEF Accept, AcceptFails, AcceptError
    <2>2. /\ pending' = [pending EXCEPT ![s] = NULL] /\ pc' = [pc EXCEPT ![c] = "add"]
          /\ UNCHANGED heap
        BY <2>1 DEF Spawn
    <2>3. c \in Clients /\ owner[c] = "loop"
        BY <2>1, OwnerOf DEF OwnerInv
    <2>4. \A t \in Starters : pending'[t] # c
        BY <2>2, <2>3, ConstantFacts DEF TypeOK, LoopType, OwnerInv, OneOwner
    <2>5. \A d \in Clients : owner'[d] = IF d = c THEN "handler" ELSE owner[d]
        <3> HIDE DEF c
        <3> SUFFICES ASSUME NEW d \in Clients
                     PROVE  owner'[d] = IF d = c THEN "handler" ELSE owner[d]
            OBVIOUS
        <3>1. CASE d = c
            BY <3>1, <2>2, <2>3, <2>4 DEF owner, TypeOK, ThreadType
        <3>2. CASE d # c
            <4>1. pc'[d] = pc[d] /\ heap'[d] = heap[d]
                BY <3>2, <2>2 DEF TypeOK, ThreadType
            <4>2. (\E t \in Starters : pending'[t] = d) <=> \E t \in Starters : pending[t] = d
                BY <3>2, <2>2, ConstantFacts DEF c, TypeOK, LoopType
            <4> QED BY <3>2, <4>1, <4>2 DEF owner
        <3> QED BY <3>1, <3>2
    <2>6. owner' = [owner EXCEPT ![c] = "handler"]
        BY <2>3, <2>5, OwnerDomain
    <2> QED BY <2>3, <2>6 DEF Life!Next, Life!Pass
<1>3. CASE ~ (NewClient(s) \/ Accept(s) \/ AcceptFails(s) \/ AcceptError(s))
    <2>1. UNCHANGED <<heap, pending, pc>>
        BY <1>3 DEF Starter, Started, StartSocket, StartBind, StartRunning, StartListen,
               SpawnFails, Die
    <2> QED BY <2>1, LifeStutter
<1> QED BY <1>1, <1>2, <1>3

(* Each step of client_handler is a step of EBClientLife, or a stutter.  *)
LEMMA LifeHandler ==
    ASSUME TypeOK, OwnerInv, NEW c \in Clients, Handler(c)
    PROVE  [Life!Next]_owner
<1> USE DEF heap_vars, loop_vars
<1>0. pc \in [Clients -> {"none", "add", "adding", "loop", "recv", "handle",
                          "send", "sending", "exit", "done"}]
    BY DEF TypeOK, ThreadType
<1>1. CASE Exit(c)
    <2>1. /\ pc[c] = "exit" /\ pc' = [pc EXCEPT ![c] = "done"]
          /\ heap' = [heap EXCEPT ![c] = "freed"] /\ UNCHANGED pending
        BY <1>1 DEF Exit
    <2>2. owner[c] = "handler"
        BY <2>1, OwnerOf
    <2>3. owner' = [owner EXCEPT ![c] = "deleted"]
        <3>1. \A d \in Clients : owner'[d] = IF d = c THEN "deleted" ELSE owner[d]
            BY <1>0, <2>1 DEF owner, TypeOK, HeapType
        <3> QED BY <3>1, OwnerDomain
    <2> QED BY <2>2, <2>3 DEF Life!Next, Life!Delete
<1>2. CASE ~ Exit(c)
    <2>1. UNCHANGED <<heap, pending>>
        BY <1>2 DEF Handler, AddParamBegin, AddParamEnd, Loop, Recv, RecvEnd, Hello,
               SendData, SendLate, Handled
    <2>2. /\ pc[c] \notin {"none", "done"}
          /\ \/ UNCHANGED pc
             \/ \E next \in {"add", "adding", "loop", "recv", "handle", "send", "sending", "exit"} :
                    pc' = [pc EXCEPT ![c] = next]
        <3>1. CASE Recv(c) BY <3>1 DEF Recv
        <3>2. CASE ~ Recv(c)
            BY <1>2, <3>2 DEF Handler, AddParamBegin, AddParamEnd, Loop, RecvEnd, Leave,
                   Hello, SendData, SendLate, Handled
        <3> QED BY <3>1, <3>2
    <2> QED BY <1>0, <2>1, <2>2, LifeStutter
<1> QED BY <1>1, <1>2

(***************************************************************************)
(* The server implements EBClientLife: every object is allocated in turn,  *)
(* passed to one thread and deleted once, in every interleaving.           *)
(***************************************************************************)
THEOREM ServerImplementsLife == Spec => ObjectsLiveOnce
<1>1. Init => Life!Init
    BY DEF Init, Life!Init, owner
<1>2. TypeOK /\ OwnerInv /\ TypeOK' /\ OwnerInv' /\ [Next]_vars => [Life!Next]_owner
    <2> SUFFICES ASSUME TypeOK, OwnerInv, TypeOK', OwnerInv', [Next]_vars
                 PROVE  [Life!Next]_owner
        OBVIOUS
    <2>1. CASE \E s \in Starters : Starter(s)
        BY <2>1, LifeStarter
    <2>2. CASE \E c \in Clients : Handler(c)
        BY <2>2, LifeHandler
    <2>3. CASE Stopper \/ Corrupted \/ Network \/ UNCHANGED vars
        <3>1. UNCHANGED <<heap, pending, pc>>
            BY <2>3 DEF Stopper, StopClose, StopIdle, Corrupted, Die, Network, Connect,
                   PeerSend, PeerRead, PeerClose, vars, heap_vars, loop_vars, thread_vars
        <3> QED BY <3>1, LifeStutter
    <2> QED BY <2>1, <2>2, <2>3 DEF Next
<1> QED BY <1>1, <1>2, TypeCorrect, OwnerInvHolds, PTL DEF Spec, ObjectsLiveOnce, Life!Spec

-----------------------------------------------------------------------------
(* The shared parameter list.                                              *)

(***************************************************************************)
(* As long as no two accesses to param_list have overlapped, a "client"    *)
(* parameter has a "server" parameter before it: a hello that finds a      *)
(* client finds the server, and its early return never drops a request.    *)
(***************************************************************************)
ServerBeforeClient ==
    ~ raced =>
        \A i \in 1..Len(param_list) : param_list[i].key = "client" =>
            \E j \in 1..(i - 1) : param_list[j] = ServerParam

(***************************************************************************)
(* The invariant behind ServerBeforeClient and FirstRegistrationWins.  As  *)
(* long as no accesses have overlapped, one handler at most is inside      *)
(* push_back, at the end of the list; a handler whose first add_param is   *)
(* over has put a "server" in it; and what a hello has found is what every *)
(* later one will find.                                                    *)
(***************************************************************************)
OnePusher ==
    \A c \in Clients : pc[c] = "adding" =>
        /\ slot[c] = Len(param_list) + 1
        /\ \A d \in Clients : pc[d] = "adding" => d = c

ServerRegistered ==
    \A c \in Clients : calls[c] # 0 => \E j \in 1..Len(param_list) : param_list[j] = ServerParam

FoundIsFinal ==
    /\ answered \subseteq {get_param("client")} \ {NULL}
    /\ \A c \in Clients : pc[c] = "send" => target[c] = get_param("client") /\ target[c] # NULL

ParamInv == ~ raced => OnePusher /\ ServerRegistered /\ FoundIsFinal /\ ServerBeforeClient

(* What is found stays found when the list grows.                          *)
LEMMA Appended ==
    ASSUME param_list \in Seq(Params), NEW param \in Params,
           param_list' = Append(param_list, param)
    PROVE  /\ Len(param_list) \in Nat /\ Len(param_list') = Len(param_list) + 1
           /\ \A i \in 1..Len(param_list) : param_list'[i] = param_list[i]
           /\ param_list'[Len(param_list) + 1] = param
           /\ \A key : get_param(key) # NULL => get_param(key)' = get_param(key)
<1>1. /\ Len(param_list) \in Nat /\ Len(param_list') = Len(param_list) + 1
      /\ \A i \in 1..Len(param_list) : param_list'[i] = param_list[i]
      /\ param_list'[Len(param_list) + 1] = param
    BY AppendProperties, LenProperties
<1>2. ASSUME NEW key, get_param(key) # NULL PROVE get_param(key)' = get_param(key)
    <2>1. PICK i \in Matches(key) : /\ \A j \in Matches(key) : i <= j
                                    /\ get_param(key) = param_list[i].ptr
        BY <1>2, GetParam
    <2>2. i \in Matches(key)' /\ \A j \in Matches(key)' : i <= j
        BY <1>1, <2>1 DEF Matches
    <2>3. Matches(key)' \subseteq Nat
        BY <1>1 DEF Matches
    <2> DEFINE first == CHOOSE n \in Matches(key)' : \A j \in Matches(key)' : n <= j
    <2>4. first \in Matches(key)' /\ \A j \in Matches(key)' : first <= j
        BY <2>2
    <2>5. first = i
        <3> HIDE DEF first
        <3> QED BY <2>2, <2>3, <2>4
    <2>6. get_param(key)' = param_list'[first].ptr
        BY <2>2 DEF get_param
    <2>7. param_list'[i] = param_list[i]
        BY <1>1, <2>1 DEF Matches
    <2> QED BY <2>1, <2>5, <2>6, <2>7
<1> QED BY <1>1, <1>2

(* Steps that neither touch the list nor bring a handler to it.            *)
LEMMA ParamFrame ==
    ASSUME TypeOK, ParamInv, UNCHANGED <<param_list, raced, answered, slot, target>>,
           \A d \in Clients : pc'[d] \in {"adding", "send"} => pc'[d] = pc[d],
           \A d \in Clients : calls'[d] \in {0, calls[d]}
    PROVE  ParamInv'
<1> SUFFICES ASSUME ~ raced'
             PROVE  OnePusher' /\ ServerRegistered' /\ FoundIsFinal' /\ ServerBeforeClient'
    BY DEF ParamInv
<1>1. ~ raced /\ OnePusher /\ ServerRegistered /\ FoundIsFinal /\ ServerBeforeClient
    BY DEF ParamInv
<1>2. OnePusher' /\ ServerRegistered'
    BY <1>1 DEF OnePusher, ServerRegistered
<1>3. FoundIsFinal'
    BY <1>1 DEF FoundIsFinal, get_param, Matches
<1>4. ServerBeforeClient'
    BY <1>1 DEF ServerBeforeClient
<1> QED BY <1>2, <1>3, <1>4

(* The second half of add_param keeps ParamInv.  *)
LEMMA ParamAddEnd ==
    ASSUME TypeOK, ParamInv, NEW c \in Clients, AddParamEnd(c)
    PROVE  ParamInv'
<1> SUFFICES ASSUME ~ raced'
             PROVE  OnePusher' /\ ServerRegistered' /\ FoundIsFinal' /\ ServerBeforeClient'
    BY DEF ParamInv
<1>1. ~ raced /\ OnePusher /\ ServerRegistered /\ FoundIsFinal /\ ServerBeforeClient
    BY DEF ParamInv, AddParamEnd
<1> DEFINE param == own_params(c)[calls[c] + 1]
<1>2. /\ pc[c] = "adding" /\ calls[c] \in {0, 1} /\ Clients = DOMAIN pc
      /\ param_list \in Seq(Params) /\ calls \in [Clients -> {0, 1, 2}]
    <2>1. pc[c] = "adding" /\ Clients = DOMAIN pc /\ calls \in [Clients -> {0, 1, 2}]
        BY DEF AddParamEnd, TypeOK, ThreadType
    <2>2. calls[c] < 2
        BY <2>1 DEF TypeOK, ThreadType
    <2> QED BY <2>1, <2>2 DEF TypeOK, ParamType
<1>3. /\ calls[c] = 0 => param = ServerParam
      /\ calls[c] = 1 => param = ClientParam(c)
    BY DEF own_params
<1>4. param \in Params
    <2>1. ServerParam \in Params /\ ClientParam(c) \in Params
        BY ConstantFacts DEF ServerParam, ClientParam, Params
    <2> QED BY <2>1, <1>2, <1>3
<1>5. slot[c] = Len(param_list) + 1 /\ \A d \in Clients : pc[d] = "adding" => d = c
    BY <1>1, <1>2 DEF OnePusher
<1>6. /\ param_list' = Append(param_list, param)
      /\ calls' = [calls EXCEPT ![c] = @ + 1]
      /\ pc' = [pc EXCEPT ![c] = IF LastParam(c) THEN "loop" ELSE "add"]
      /\ slot' = [slot EXCEPT ![c] = 1]
      /\ UNCHANGED <<target, answered>>
    BY <1>5 DEF AddParamEnd
<1> HIDE DEF param
<1>7. OnePusher'
    BY <1>2, <1>5, <1>6 DEF OnePusher
<1>8. ServerRegistered'
    <2> SUFFICES ASSUME NEW d \in Clients, calls'[d] # 0
                 PROVE  \E j \in 1..Len(param_list') : param_list'[j] = ServerParam
        BY DEF ServerRegistered
    <2>1. CASE d = c /\ calls[c] = 0
        BY <2>1, <1>3, <1>4, <1>6, <1>2, Appended
    <2>2. CASE ~ (d = c /\ calls[c] = 0)
        <3>1. calls[d] # 0
            BY <2>2, <1>2, <1>6
        <3> QED BY <3>1, <1>1, <1>2, <1>4, <1>6, Appended DEF ServerRegistered
    <2> QED BY <2>1, <2>2
<1>9. FoundIsFinal'
    BY <1>1, <1>2, <1>4, <1>6, Appended DEF FoundIsFinal
<1>10. ServerBeforeClient'
    <2> SUFFICES ASSUME NEW i \in 1..Len(param_list'), param_list'[i].key = "client"
                 PROVE  \E j \in 1..(i - 1) : param_list'[j] = ServerParam
        BY DEF ServerBeforeClient
    <2>1. CASE i \in 1..Len(param_list)
        <3>1. PICK j \in 1..(i - 1) : param_list[j] = ServerParam
            BY <2>1, <1>1, <1>2, <1>4, <1>6, Appended DEF ServerBeforeClient
        <3>2. j \in 1..Len(param_list)
            BY <2>1, <1>2, LenProperties
        <3> QED BY <3>1, <3>2, <1>2, <1>4, <1>6, Appended
    <2>2. CASE i = Len(param_list) + 1
        <3>1. param.key = "client"
            BY <2>2, <1>2, <1>4, <1>6, Appended
        <3>2. calls[c] = 1
            BY <3>1, <1>2, <1>3 DEF ServerParam
        <3>3. PICK j \in 1..Len(param_list) : param_list[j] = ServerParam
            BY <3>2, <1>1 DEF ServerRegistered
        <3> QED BY <2>2, <3>3, <1>2, <1>4, <1>6, Appended
    <2> QED BY <2>1, <2>2, <1>2, <1>4, <1>6, Appended
<1> QED BY <1>7, <1>8, <1>9, <1>10

(* client_handler keeps ParamInv.  *)
LEMMA ParamHandler ==
    ASSUME TypeOK, ParamInv, NEW c \in Clients, Handler(c)
    PROVE  ParamInv'
<1> USE DEF param_vars
<1>0. pc \in [Clients -> {"none", "add", "adding", "loop", "recv", "handle",
                          "send", "sending", "exit", "done"}]
    BY DEF TypeOK, ThreadType
<1>1. CASE AddParamBegin(c)
    <2> SUFFICES ASSUME ~ raced'
                 PROVE  OnePusher' /\ ServerRegistered' /\ FoundIsFinal' /\ ServerBeforeClient'
        BY DEF ParamInv
    <2>1. /\ ~ raced /\ OnePusher /\ ServerRegistered /\ FoundIsFinal /\ ServerBeforeClient
          /\ \A d \in Clients \ {c} : pc[d] # "adding"
          /\ pc' = [pc EXCEPT ![c] = "adding"]
          /\ slot' = [slot EXCEPT ![c] = Len(param_list) + 1]
          /\ UNCHANGED <<calls, target, param_list, answered>>
        BY <1>1 DEF AddParamBegin, Pushing, ParamInv
    <2>2. slot'[c] = Len(param_list) + 1
        BY <2>1 DEF TypeOK, ThreadType
    <2>3. OnePusher'
        BY <1>0, <2>1, <2>2 DEF OnePusher
    <2>4. ServerRegistered' /\ ServerBeforeClient'
        BY <2>1 DEF ServerRegistered, ServerBeforeClient
    <2>5. FoundIsFinal'
        BY <1>0, <2>1 DEF FoundIsFinal, get_param, Matches
    <2> QED BY <2>3, <2>4, <2>5
<1>2. CASE AddParamEnd(c)   BY <1>2, ParamAddEnd
<1>3. CASE Loop(c)          BY <1>0, <1>3, ParamFrame DEF Loop, Leave
<1>4. CASE Recv(c)
    <2>1. pc' = [pc EXCEPT ![c] = "handle"] \/ UNCHANGED pc
        BY <1>4 DEF Recv
    <2> QED BY <1>0, <1>4, <2>1, ParamFrame DEF Recv
<1>5. CASE RecvEnd(c)       BY <1>0, <1>5, ParamFrame DEF RecvEnd, Leave
<1>6. CASE Hello(c)
    <2> SUFFICES ASSUME ~ raced'
                 PROVE  OnePusher' /\ ServerRegistered' /\ FoundIsFinal' /\ ServerBeforeClient'
        BY DEF ParamInv
    <2>1. /\ ~ raced /\ OnePusher /\ ServerRegistered /\ FoundIsFinal /\ ServerBeforeClient
          /\ UNCHANGED <<calls, slot, param_list, answered>>
        BY <1>6 DEF Hello, ParamInv
    <2>2. \/ /\ pc' = [pc EXCEPT ![c] = "send"] /\ get_param("client") # NULL
             /\ target' = [target EXCEPT ![c] = get_param("client")]
          \/ pc' = [pc EXCEPT ![c] = "handle"] /\ target' = [target EXCEPT ![c] = @]
        BY <1>6 DEF Hello
    <2>3. get_param("client")' = get_param("client")
        BY <2>1 DEF get_param, Matches
    <2>4. FoundIsFinal'
        BY <1>0, <2>1, <2>2, <2>3 DEF FoundIsFinal, TypeOK, ThreadType
    <2>5. OnePusher' /\ ServerRegistered' /\ ServerBeforeClient'
        BY <1>0, <2>1, <2>2 DEF OnePusher, ServerRegistered, ServerBeforeClient
    <2> QED BY <2>4, <2>5
<1>7. CASE SendData(c)
    <2> SUFFICES ASSUME ~ raced'
                 PROVE  OnePusher' /\ ServerRegistered' /\ FoundIsFinal' /\ ServerBeforeClient'
        BY DEF ParamInv
    <2>1. /\ ~ raced /\ OnePusher /\ ServerRegistered /\ FoundIsFinal /\ ServerBeforeClient
          /\ UNCHANGED <<calls, slot, param_list>>
          /\ pc[c] = "send"
          /\ \E next \in {"handle", "sending"} : pc' = [pc EXCEPT ![c] = next]
          /\ target' = [target EXCEPT ![c] = NULL]
          /\ answered' = answered \cup {target[c]}
        BY <1>7 DEF SendData, ParamInv
    <2>2. get_param("client")' = get_param("client")
        BY <2>1 DEF get_param, Matches
    <2>3. FoundIsFinal'
        BY <1>0, <2>1, <2>2 DEF FoundIsFinal
    <2>4. OnePusher' /\ ServerRegistered' /\ ServerBeforeClient'
        BY <1>0, <2>1 DEF OnePusher, ServerRegistered, ServerBeforeClient
    <2> QED BY <2>3, <2>4
<1>10. CASE SendLate(c)     BY <1>0, <1>10, ParamFrame DEF SendLate
<1>8. CASE Handled(c)       BY <1>0, <1>8, ParamFrame DEF Handled
<1>9. CASE Exit(c)          BY <1>0, <1>9, ParamFrame DEF Exit
<1> QED BY <1>1, <1>2, <1>3, <1>4, <1>5, <1>6, <1>7, <1>8, <1>9, <1>10 DEF Handler

(* So do the other threads, a crash, the peers and a stuttering step.  *)
LEMMA ParamOther ==
    ASSUME TypeOK, ParamInv, Stopper \/ Corrupted \/ Network \/ \E s \in Starters : Starter(s)
    PROVE  ParamInv'
<1> USE DEF param_vars, thread_vars
<1>0. UNCHANGED <<pc, calls, slot, target, param_vars>> => ParamInv'
    BY ParamFrame
<1>1. CASE Stopper \/ Corrupted \/ Network
    BY <1>0, <1>1 DEF Stopper, StopClose, StopIdle, Corrupted, Die, Network, Connect,
                      PeerSend, PeerRead, PeerClose
<1>2. CASE \E s \in Starters : Starter(s)
    <2>1. PICK s \in Starters : Starter(s)
        BY <1>2
    <2>2. CASE Accept(s) \/ AcceptFails(s) \/ AcceptError(s)
        <3>1. PICK sock : Spawn(s, sock)
            BY <2>2 DEF Accept, AcceptFails, AcceptError
        <3>2. /\ pc' = [pc EXCEPT ![pending[s]] = "add"]
              /\ calls' = [calls EXCEPT ![pending[s]] = 0]
              /\ UNCHANGED <<slot, target, param_list, raced, answered>>
            BY <3>1 DEF Spawn
        <3> QED BY <3>2, ParamFrame DEF TypeOK, ThreadType
    <2>3. CASE ~ (Accept(s) \/ AcceptFails(s) \/ AcceptError(s))
        BY <1>0, <2>1, <2>3 DEF Starter, Started, StartSocket, StartBind, StartRunning,
               StartListen, NewClient, SpawnFails, Die
    <2> QED BY <2>2, <2>3
<1> QED BY <1>1, <1>2

(* ParamInv, with the types, is an invariant of the server: until two
   accesses to param_list overlap, it is what the finished calls appended.  *)
THEOREM ParamInvHolds == Spec => []ParamInv
<1>1. Init => ParamInv
    <2> SUFFICES ASSUME Init PROVE OnePusher /\ ServerRegistered /\ FoundIsFinal /\ ServerBeforeClient
        BY DEF ParamInv
    <2>1. OnePusher /\ ServerRegistered /\ FoundIsFinal
        BY DEF Init, OnePusher, ServerRegistered, FoundIsFinal
    <2>2. ServerBeforeClient
        BY EmptySeq DEF Init, ServerBeforeClient
    <2> QED BY <2>1, <2>2
<1>2. TypeOK /\ ParamInv /\ [Next]_vars => ParamInv'
    <2> SUFFICES ASSUME TypeOK, ParamInv, [Next]_vars PROVE ParamInv'
        OBVIOUS
    <2>1. CASE Next
        BY <2>1, ParamHandler, ParamOther DEF Next
    <2>2. CASE UNCHANGED vars
        BY <2>2, ParamFrame DEF vars, thread_vars, param_vars
    <2> QED BY <2>1, <2>2
<1> QED BY <1>1, <1>2, TypeCorrect, PTL DEF Spec

(***************************************************************************)
(* Until two accesses to the list overlap, a hello that finds a client     *)
(* finds the server.                                                       *)
(***************************************************************************)
THEOREM ServerIsFound == Spec => []ServerBeforeClient
<1>1. ParamInv => ServerBeforeClient
    BY DEF ParamInv, ServerBeforeClient
<1> QED BY <1>1, ParamInvHolds, PTL

(***************************************************************************)
(* Until two accesses to the list overlap, every answer goes to the client *)
(* that registered first: this is what the shared "client" parameter does. *)
(***************************************************************************)
THEOREM AnswersGoToTheFirst == Spec => []FirstRegistrationWins
<1>1. ParamInv => FirstRegistrationWins
    BY DEF ParamInv, FoundIsFinal, FirstRegistrationWins
<1> QED BY <1>1, ParamInvHolds, PTL

-----------------------------------------------------------------------------
(* Chunks received after stop().                                           *)

LateInv ==
    /\ AtMostOneLateChunk
    /\ status = "RUNNING" => \A c \in Clients : late[c] = 0
    /\ \A c \in Clients : Alive /\ pc[c] = "recv" => late[c] = 0

(* LateInv holds after a step that leaves its variables alone.  *)
LEMMA LateFrame ==
    ASSUME TypeOK, LateInv, UNCHANGED late, Alive' => Alive,
           status' # status => status' = "IDLE",
           \A c \in Clients : pc'[c] = "recv" => pc[c] = "recv" \/ status = "RUNNING"
    PROVE  LateInv'
BY DEF TypeOK, StatusType, LateInv, AtMostOneLateChunk, Alive

(* client_handler keeps LateInv.  *)
LEMMA LateHandler ==
    ASSUME TypeOK, LateInv, NEW c \in Clients, Handler(c)
    PROVE  LateInv'
<1> USE DEF status_vars, Alive
<1>0. /\ pc \in [Clients -> {"none", "add", "adding", "loop", "recv", "handle",
                             "send", "sending", "exit", "done"}]
      /\ late \in [Clients -> Nat]
    BY DEF TypeOK, ThreadType
<1>1. CASE AddParamBegin(c) BY <1>0, <1>1, LateFrame DEF AddParamBegin
<1>2. CASE AddParamEnd(c)   BY <1>0, <1>2, LateFrame DEF AddParamEnd
<1>3. CASE Loop(c)          BY <1>0, <1>3, LateFrame DEF Loop, Leave, Running
<1>4. CASE Recv(c)
    <2>1. /\ late' = [late EXCEPT ![c] = IF status = "IDLE" THEN @ + 1 ELSE @]
          /\ pc[c] = "recv" /\ Alive /\ status' = status
        BY <1>4 DEF Recv
    <2>3. \/ pc' = [pc EXCEPT ![c] = "handle"] /\ UNCHANGED crash
          \/ pc' = pc /\ crash' \in {"throw", "overread"}
        BY <1>4 DEF Recv
    <2>2. late[c] = 0
        BY <2>1 DEF LateInv
    <2> QED BY <1>0, <2>1, <2>2, <2>3 DEF LateInv, AtMostOneLateChunk
<1>5. CASE RecvEnd(c)       BY <1>0, <1>5, LateFrame DEF RecvEnd, Leave
<1>6. CASE Hello(c)         BY <1>0, <1>6, LateFrame DEF Hello
<1>7. CASE SendData(c)      BY <1>0, <1>7, LateFrame DEF SendData
<1>10. CASE SendLate(c)     BY <1>0, <1>10, LateFrame DEF SendLate
<1>8. CASE Handled(c)       BY <1>0, <1>8, LateFrame DEF Handled
<1>9. CASE Exit(c)          BY <1>0, <1>9, LateFrame DEF Exit
<1> QED BY <1>1, <1>2, <1>3, <1>4, <1>5, <1>6, <1>7, <1>8, <1>9, <1>10 DEF Handler

(* So do the other threads, a crash, the peers and a stuttering step.  *)
LEMMA LateOther ==
    ASSUME TypeOK, LateInv, Stopper \/ Corrupted \/ Network \/ \E s \in Starters : Starter(s)
    PROVE  LateInv'
<1> USE DEF status_vars, thread_vars, Alive
<1>1. CASE Stopper \/ Corrupted \/ Network
    BY <1>1, LateFrame DEF Stopper, StopClose, StopIdle, Corrupted, Die, Network, Connect,
                           PeerSend, PeerRead, PeerClose
<1>2. CASE \E s \in Starters : Starter(s)
    <2>1. PICK s \in Starters : Starter(s)
        BY <1>2
    <2>2. CASE Accept(s) \/ AcceptFails(s) \/ AcceptError(s)
        <3>1. PICK sock : Spawn(s, sock)
            BY <2>2 DEF Accept, AcceptFails, AcceptError
        <3>2. pc' = [pc EXCEPT ![pending[s]] = "add"] /\ UNCHANGED <<late, status, crash>>
            BY <3>1 DEF Spawn
        <3> QED BY <3>2, LateFrame DEF TypeOK, ThreadType
    <2>3. CASE StartRunning(s)
        <3>1. late' = [c \in Clients |-> 0]
            BY <2>3 DEF StartRunning
        <3> QED BY <3>1 DEF LateInv, AtMostOneLateChunk
    <2>4. CASE StartSocket(s) \/ StartBind(s) \/ StartListen(s) \/ NewClient(s) \/ SpawnFails(s)
        BY <2>4, LateFrame DEF StartSocket, StartBind, StartListen, NewClient, SpawnFails, Die
    <2> QED BY <2>1, <2>2, <2>3, <2>4 DEF Starter, Started
<1> QED BY <1>1, <1>2

(***************************************************************************)
(* However the threads interleave with stop(), and with a restart, a       *)
(* handler reads at most one more chunk once the server is idle.           *)
(***************************************************************************)
THEOREM StopIsPrompt == Spec => []AtMostOneLateChunk
<1>1. Init => LateInv
    BY DEF Init, LateInv, AtMostOneLateChunk
<1>2. TypeOK /\ LateInv /\ [Next]_vars => LateInv'
    <2> SUFFICES ASSUME TypeOK, LateInv, [Next]_vars PROVE LateInv'
        OBVIOUS
    <2>1. CASE Next
        BY <2>1, LateHandler, LateOther DEF Next
    <2>2. CASE UNCHANGED vars
        BY <2>2, LateFrame DEF vars, status_vars, thread_vars, Alive
    <2> QED BY <2>1, <2>2
<1>3. LateInv => AtMostOneLateChunk
    BY DEF LateInv
<1> QED BY <1>1, <1>2, <1>3, TypeCorrect, PTL DEF Spec

-----------------------------------------------------------------------------
(* Stopping.                                                               *)

(***************************************************************************)
(* IdleIsClosed is not inductive: stop() closes before it clears status,   *)
(* so from the close on the socket is no listener, whatever status says;   *)
(* the only start() cannot set status again, which it has done once before *)
(* it listens, and has no other socket than its own.                       *)
(***************************************************************************)
HasRun(s) == start_pc[s] \in {"listen", "new", "accept"}

ClosedInv ==
    \A s \in Starters : Starters = {s} =>
        /\ start_pc[s] # "idle" => socket = s
        /\ ~ HasRun(s) => status = "IDLE" /\ stop_pc = "idle"
        /\ stop_pc = "closed" \/ (status = "IDLE" /\ HasRun(s))
               => listener[s] \in {"lingering", "closed"}

(* Nothing happens to the only call of start().                            *)
LEMMA ClosedFrame ==
    ASSUME ClosedInv, UNCHANGED <<start_pc, socket, status, stop_pc, listener>>
    PROVE  ClosedInv'
BY DEF ClosedInv, HasRun

LEMMA ClosedStarter ==
    ASSUME TypeOK, ClosedInv, NEW s \in Starters, Starters = {s}, Starter(s)
    PROVE  ClosedInv'
<1>1. /\ start_pc \in [Starters -> {"idle", "bind", "running", "listen", "new", "accept"}]
      /\ listener \in [Starters -> ListenerState]
    BY DEF TypeOK, LoopType, ListenType
<1>2. /\ start_pc[s] # "idle" => socket = s
      /\ ~ HasRun(s) => status = "IDLE" /\ stop_pc = "idle"
      /\ stop_pc = "closed" \/ (status = "IDLE" /\ HasRun(s))
             => listener[s] \in {"lingering", "closed"}
    BY DEF ClosedInv
<1> SUFFICES /\ start_pc'[s] # "idle" => socket' = s
             /\ ~ HasRun(s)' => status' = "IDLE" /\ stop_pc' = "idle"
             /\ stop_pc' = "closed" \/ (status' = "IDLE" /\ HasRun(s)')
                    => listener'[s] \in {"lingering", "closed"}
    BY DEF ClosedInv
<1>3. CASE StartSocket(s)
    BY <1>1, <1>2, <1>3 DEF StartSocket, HasRun
<1>4. CASE StartBind(s)
    BY <1>1, <1>2, <1>4 DEF StartBind, HasRun, status_vars
<1>5. CASE StartRunning(s)
    BY <1>1, <1>2, <1>5 DEF StartRunning, HasRun
<1>6. CASE StartListen(s)
    <2>1. UNCHANGED <<socket, status, stop_pc>> /\ HasRun(s) /\ HasRun(s)'
        BY <1>1, <1>6 DEF StartListen, HasRun, status_vars
    <2>2. listener[s] \in {"lingering", "closed"} => listener'[s] = listener[s]
        BY <1>1, <1>6 DEF StartListen
    <2> QED BY <1>1, <1>2, <1>6, <2>1, <2>2 DEF StartListen
<1>7. CASE NewClient(s)
    BY <1>1, <1>2, <1>7 DEF NewClient, HasRun, status_vars, listen_vars
<1>8. CASE Accept(s)
    <2>1. UNCHANGED <<socket, status, stop_pc>> /\ HasRun(s) /\ HasRun(s)'
        BY <1>1, <1>8 DEF Accept, Spawn, HasRun, status_vars
    <2>2. listener'[s] \in {listener[s], "closed"}
        BY <1>1, <1>8 DEF Accept, Release
    <2> QED BY <1>2, <1>8, <2>1, <2>2 DEF Accept
<1>9. CASE AcceptError(s)
    <2>1. UNCHANGED <<socket, status, stop_pc>> /\ HasRun(s) /\ HasRun(s)'
        BY <1>1, <1>9 DEF AcceptError, Spawn, HasRun, status_vars
    <2>2. listener'[s] \in {listener[s], "closed"}
        BY <1>1, <1>9 DEF AcceptError, Release
    <2> QED BY <1>2, <1>9, <2>1, <2>2 DEF AcceptError
<1>11. CASE AcceptFails(s)
    BY <1>1, <1>2, <1>11 DEF AcceptFails, Spawn, HasRun, status_vars, listen_vars
<1>10. CASE SpawnFails(s)
    BY <1>2, <1>10 DEF SpawnFails, Die, HasRun, status_vars, loop_vars, listen_vars
<1> QED BY <1>3, <1>4, <1>5, <1>6, <1>7, <1>8, <1>9, <1>10, <1>11 DEF Starter, Started

LEMMA ClosedStopper ==
    ASSUME TypeOK, ClosedInv, Stopper
    PROVE  ClosedInv'
<1> SUFFICES ASSUME NEW s \in Starters, Starters = {s}
             PROVE  /\ start_pc'[s] # "idle" => socket' = s
                    /\ ~ HasRun(s)' => status' = "IDLE" /\ stop_pc' = "idle"
                    /\ stop_pc' = "closed" \/ (status' = "IDLE" /\ HasRun(s)')
                           => listener'[s] \in {"lingering", "closed"}
    BY DEF ClosedInv
<1>1. /\ start_pc[s] # "idle" => socket = s
      /\ ~ HasRun(s) => status = "IDLE" /\ stop_pc = "idle"
      /\ stop_pc = "closed" \/ (status = "IDLE" /\ HasRun(s))
             => listener[s] \in {"lingering", "closed"}
    BY DEF ClosedInv
<1>2. UNCHANGED <<start_pc, socket>>
    BY DEF Stopper, StopClose, StopIdle, status_vars, loop_vars
<1>3. CASE StopClose
    <2>1. status = "RUNNING" /\ status' = status
        BY <1>3 DEF StopClose, status_vars
    <2>2. HasRun(s) /\ HasRun(s)' /\ socket = s
        BY <1>1, <1>2, <2>1 DEF HasRun
    <2>3. listener'[s] \in {"lingering", "closed"}
        BY <1>3, <2>2 DEF StopClose, after_close
    <2> QED BY <1>2, <2>2, <2>3
<1>4. CASE StopIdle
    BY <1>1, <1>2, <1>4 DEF StopIdle, HasRun, listen_vars
<1> QED BY <1>3, <1>4 DEF Stopper

LEMMA ClosedStep == TypeOK /\ ClosedInv /\ [Next]_vars => ClosedInv'
<1> SUFFICES ASSUME TypeOK, ClosedInv, [Next]_vars PROVE ClosedInv'
    OBVIOUS
<1>1. ASSUME NEW s \in Starters, Starter(s) PROVE ClosedInv'
    <2>1. CASE Starters = {s}
        BY <1>1, <2>1, ClosedStarter
    <2>2. CASE Starters # {s}
        BY <2>2 DEF ClosedInv
    <2> QED BY <2>1, <2>2
<1>2. CASE Stopper
    BY <1>2, ClosedStopper
<1>3. ASSUME NEW c \in Clients, Handler(c) PROVE ClosedInv'
    <2>1. UNCHANGED <<start_pc, socket, status, stop_pc, listener>>
        BY <1>3 DEF Handler, AddParamBegin, AddParamEnd, Loop, Recv, RecvEnd, Hello, SendData,
                    SendLate, Handled, Exit, status_vars, loop_vars, listen_vars
    <2> QED BY <2>1, ClosedFrame
<1>4. CASE Corrupted \/ Network \/ UNCHANGED vars
    <2>1. UNCHANGED <<start_pc, socket, status, stop_pc, listener>>
        BY <1>4 DEF Corrupted, Die, Network, Connect, PeerSend, PeerRead, PeerClose, vars, status_vars,
                    loop_vars, listen_vars
    <2> QED BY <2>1, ClosedFrame
<1> QED BY <1>1, <1>2, <1>3, <1>4 DEF Next

(***************************************************************************)
(* With one call of start(), an idle server that has run holds its port no *)
(* longer, or only by the accept() that was blocked on it.                 *)
(***************************************************************************)
THEOREM IdleServerIsClosed == Spec => []IdleIsClosed
<1>1. Init => ClosedInv
    BY DEF Init, ClosedInv, HasRun
<1>2. ClosedInv => IdleIsClosed
    BY DEF ClosedInv, IdleIsClosed, HasRun
<1> QED BY <1>1, <1>2, ClosedStep, TypeCorrect, PTL DEF Spec

=============================================================================
