------------------------------ MODULE TCPServer ------------------------------
(***************************************************************************)
(* EB::TCP::Server (linux/EB/TCP) with the EB::Protocol::Base object       *)
(* (linux/EB/Protocol) all its threads share, and the `hello' handler      *)
(* (linux/handlers.h).                                                     *)
(*                                                                         *)
(* Threads: one per caller of start(), which runs the accept loop; one     *)
(* that calls stop(); and one detached client_handler per iteration of the *)
(* accept loop.  An iteration allocates one eb_client, so the client       *)
(* object and its thread carry the same number c \in Clients.              *)
(*                                                                         *)
(* The code takes no lock.  status and server->socket are plain ints, read *)
(* and written whole; param_list is a std::vector, whose push_back is two  *)
(* steps here, so that overlapping ones are seen.  After an overlap the    *)
(* vector may hold an element too few or one never constructed, and the    *)
(* process may die of it at any time (Corrupted).                          *)
(***************************************************************************)
EXTENDS EBString

CONSTANTS Starters,     \* the calls of start(); each also names the listening
                        \* socket it creates
          Peers,        \* the remote ends; each connects at most once
          NoSocket,     \* a descriptor of nothing (-1, or one never opened)
          Messages,     \* the byte strings a peer may send
          MaxMessages,  \* bounds on the messages of each peer
          MaxClients,   \* bound on the iterations of all accept loops
          MayStop,      \* whether the application calls stop()
          BufferSize,   \* socket_settings::buffer_size
          SendCapacity  \* answers the buffers of a connection hold

ASSUME ServerAssumption ==
    /\ MaxClients \in Nat \ {0}
    /\ MaxMessages \in [Peers -> Nat]
    /\ BufferSize \in Nat \ {0}
    /\ SendCapacity \in Nat /\ MayStop \in BOOLEAN
    /\ NoSocket \notin Starters \cup Peers
    /\ \A m \in Messages : m \in Seq(STRING) /\ m # <<>>

Clients == 1..MaxClients
NULL    == 0
This    == MaxClients + 1      \* the Server object, as a pointer
Pointers == Clients \cup {NULL, This}
Params   == [key : {"server", "client", ""}, ptr : Pointers]

VARIABLES
    status,       \* Server::status
    last_error,   \* Server::last_error_code
    socket,       \* server->socket
    listener,     \* state of each listening socket
    backlog,      \* connections waiting to be accepted, per listening socket
    start_pc,     \* where each call of start() is
    pending,      \* the eb_client the accept loop has allocated
    blocked_on,   \* the listening socket a blocked accept() holds
    stop_pc,      \* where stop() is
    next_client,  \* number of eb_client objects allocated so far
    heap,         \* state of each eb_client object
    client_sock,  \* eb_client::socket
    pc,           \* where each client_handler is
    calls,        \* add_param calls each client_handler has finished
    slot,         \* index at which a push_back in progress will write
    todo,         \* pairs of the current chunk whose handler is still to be called
    target,       \* the "client" parameter a `hello' call has read
    out,          \* the socket a send() waits on
    late,         \* history: chunks each thread received since IDLE was set
    param_list,   \* Base::param_list
    raced,        \* history: two accesses to param_list overlapped
    answered,     \* history: the clients `hello' has sent to
    peer,         \* state of each remote end
    stream,       \* bytes sent by a peer and not yet received
    unread,       \* answers sent to a peer that it has not read
    sent,         \* messages sent, per peer
    crash         \* why the process died, or "no"

status_vars == <<status, last_error, socket>>
loop_vars   == <<start_pc, pending, blocked_on>>
listen_vars == <<listener, backlog>>
heap_vars   == <<next_client, heap, client_sock>>
thread_vars == <<pc, calls, slot, todo, target, out, late>>
param_vars  == <<param_list, raced, answered>>
net_vars    == <<peer, stream, unread, sent>>
vars == <<status_vars, loop_vars, listen_vars, stop_pc, heap_vars, thread_vars,
          param_vars, net_vars, crash>>

Init ==
    /\ status = "IDLE" /\ last_error = "NO_ERROR" /\ socket = NoSocket
    /\ start_pc   = [s \in Starters |-> "idle"]
    /\ pending    = [s \in Starters |-> NULL]
    /\ blocked_on = [s \in Starters |-> NoSocket]
    /\ listener   = [s \in Starters |-> "none"]
    /\ backlog    = [s \in Starters |-> {}]
    /\ stop_pc = "idle"
    /\ next_client = 0
    /\ heap        = [c \in Clients |-> "unused"]
    /\ client_sock = [c \in Clients |-> NoSocket]
    /\ pc     = [c \in Clients |-> "none"]
    /\ calls  = [c \in Clients |-> 0]
    /\ slot   = [c \in Clients |-> 1]
    /\ todo   = [c \in Clients |-> {}]
    /\ target = [c \in Clients |-> NULL]
    /\ out    = [c \in Clients |-> NoSocket]
    /\ late   = [c \in Clients |-> 0]
    /\ param_list = <<>> /\ raced = FALSE /\ answered = {}
    /\ peer   = [p \in Peers |-> "away"]
    /\ stream = [p \in Peers |-> <<>>]
    /\ unread = [p \in Peers |-> 0]
    /\ sent   = [p \in Peers |-> 0]
    /\ crash = "no"

-----------------------------------------------------------------------------
(* Protocol::Base: the parameters and the look-up.                         *)

ServerParam    == [key |-> "server", ptr |-> This]
ClientParam(c) == [key |-> "client", ptr |-> c]
Hole           == [key |-> "", ptr |-> NULL]     \* never constructed

(* The add_param calls of client_handler, in order.                        *)
own_params(c) == << ServerParam, ClientParam(c) >>

Matches(key) == {i \in 1..Len(param_list) : param_list[i].key = key}

get_param_last(key) ==
    IF Matches(key) = {} THEN NULL
    ELSE LET last == CHOOSE i \in Matches(key) : \A j \in Matches(key) : j <= i
         IN  param_list[last].ptr

get_param(key) ==
    IF Matches(key) = {} THEN NULL
    ELSE LET first == CHOOSE i \in Matches(key) : \A j \in Matches(key) : i <= j
         IN  param_list[first].ptr

Pushing(c) == \E d \in Clients \ {c} : pc[d] = "adding"

-----------------------------------------------------------------------------
(* Server::start, up to the accept loop.                                   *)

Alive == crash = "no"

(***************************************************************************)
(* The port is taken: another listener is bound to it, or a connection     *)
(* accepted on it lives on; the code never closes one.                     *)
(***************************************************************************)
PortTaken(s) ==
    \/ \E t \in Starters \ {s} : listener[t] \in {"bound", "listening", "lingering"}
    \/ \E c \in Clients : client_sock[c] \in Peers /\ peer[client_sock[c]] # "reset"

StartSocket(s) ==
    /\ Alive /\ start_pc[s] = "idle"
    /\ \/ /\ socket' = s
          /\ listener' = [listener EXCEPT ![s] = "created"]
          /\ start_pc' = [start_pc EXCEPT ![s] = "bind"]
          /\ UNCHANGED last_error
       \/ /\ socket' = NoSocket
          /\ last_error' = "SOCKET_CREATE"
          /\ UNCHANGED <<listener, start_pc>>
    /\ UNCHANGED <<status, pending, blocked_on, backlog, stop_pc, heap_vars,
                   thread_vars, param_vars, net_vars, crash>>

(***************************************************************************)
(* The result of bind is not looked at.  A later start() may have replaced *)
(* server->socket, which is what every step after the first reads.         *)
(***************************************************************************)
StartBind(s) ==
    /\ Alive /\ start_pc[s] = "bind"
    /\ start_pc' = [start_pc EXCEPT ![s] = "running"]
    /\ \/ /\ socket # NoSocket /\ listener[socket] = "created" /\ ~ PortTaken(socket)
          /\ listener' = [listener EXCEPT ![socket] = "bound"]
       \/ UNCHANGED listener
    /\ UNCHANGED <<status_vars, pending, blocked_on, backlog, stop_pc, heap_vars,
                   thread_vars, param_vars, net_vars, crash>>

StartRunning(s) ==
    /\ Alive /\ start_pc[s] = "running"
    /\ start_pc' = [start_pc EXCEPT ![s] = "listen"]
    /\ last_error' = "NO_ERROR"
    /\ status' = "RUNNING"
    /\ late' = [c \in Clients |-> 0]
    /\ UNCHANGED <<socket, pending, blocked_on, listen_vars, stop_pc, heap_vars,
                   pc, calls, slot, todo, target, out, param_vars, net_vars, crash>>

(* A socket that is not bound listens on a port nobody knows: "deaf".      *)
StartListen(s) ==
    /\ Alive /\ start_pc[s] = "listen"
    /\ start_pc' = [start_pc EXCEPT ![s] = "new"]
    /\ listener' = [t \in Starters |->
                       IF t # socket THEN listener[t]
                       ELSE CASE listener[t] = "bound"   -> "listening"
                              [] listener[t] = "created" -> "deaf"
                              [] OTHER                   -> listener[t]]
    /\ UNCHANGED <<status_vars, pending, blocked_on, backlog, stop_pc, heap_vars,
                   thread_vars, param_vars, net_vars, crash>>

-----------------------------------------------------------------------------
(* The accept loop.                                                        *)

(***************************************************************************)
(* new eb_client(), and the call of accept(): it blocks on a socket that   *)
(* listens, and on any other fails at once.                                *)
(***************************************************************************)
Blocking == socket # NoSocket /\ listener[socket] \in {"listening", "deaf"}

NewClient(s) ==
    /\ Alive /\ start_pc[s] = "new" /\ next_client < MaxClients
    /\ next_client' = next_client + 1
    /\ heap' = [heap EXCEPT ![next_client + 1] = "live"]
    /\ pending' = [pending EXCEPT ![s] = next_client + 1]
    /\ blocked_on' = [blocked_on EXCEPT ![s] = IF Blocking THEN socket ELSE NoSocket]
    /\ start_pc' = [start_pc EXCEPT ![s] = "accept"]
    /\ UNCHANGED <<status_vars, listen_vars, stop_pc, client_sock, thread_vars,
                   param_vars, net_vars, crash>>

(* The last reference to a closed listener is gone: its backlog is reset.  *)
Reset(connections) ==
    /\ peer'   = [p \in Peers |-> IF p \in connections THEN "reset" ELSE peer[p]]
    /\ stream' = [p \in Peers |-> IF p \in connections THEN <<>> ELSE stream[p]]
    /\ unread' = [p \in Peers |-> IF p \in connections THEN 0 ELSE unread[p]]

(* accept() has returned sock: log, std::thread, detach.                   *)
Spawn(s, sock) ==
    LET c == pending[s]
    IN  /\ client_sock' = [client_sock EXCEPT ![c] = sock]
        /\ pending' = [pending EXCEPT ![s] = NULL]
        /\ blocked_on' = [blocked_on EXCEPT ![s] = NoSocket]
        /\ start_pc' = [start_pc EXCEPT ![s] = "new"]
        /\ pc' = [pc EXCEPT ![c] = "add"]
        /\ calls' = [calls EXCEPT ![c] = 0]
        /\ UNCHANGED <<status_vars, stop_pc, next_client, heap, slot, todo,
                       target, out, late, param_vars, sent, crash>>

(***************************************************************************)
(* accept() returns and leaves some connections waiting; if it was the     *)
(* last to hold a closed listener, they are reset.                         *)
(***************************************************************************)
Release(s, left) ==
    LET l == blocked_on[s]
        freed == listener[l] = "lingering" /\ \A t \in Starters \ {s} : blocked_on[t] # l
    IN  /\ backlog' = [backlog EXCEPT ![l] = IF freed THEN {} ELSE left]
        /\ listener' = [listener EXCEPT ![l] = IF freed THEN "closed" ELSE @]
        /\ Reset(IF freed THEN left ELSE {})

Accept(s) ==
    /\ Alive /\ start_pc[s] = "accept" /\ blocked_on[s] # NoSocket
    /\ \E p \in backlog[blocked_on[s]] :
          Spawn(s, p) /\ Release(s, backlog[blocked_on[s]] \ {p})

(***************************************************************************)
(* The result of accept is not looked at: a thread is made for it anyway.  *)
(* It fails at once on a socket that does not listen, and may fail at any  *)
(* time on one that does (no descriptor or memory is left, a signal).      *)
(***************************************************************************)
AcceptFails(s) ==
    /\ Alive /\ start_pc[s] = "accept" /\ blocked_on[s] = NoSocket
    /\ Spawn(s, NoSocket)
    /\ UNCHANGED <<listen_vars, peer, stream, unread>>

AcceptError(s) ==
    /\ Alive /\ start_pc[s] = "accept" /\ blocked_on[s] # NoSocket
    /\ Spawn(s, NoSocket)
    /\ Release(s, backlog[blocked_on[s]])

Die(cause) ==
    /\ crash' = cause
    /\ UNCHANGED <<status_vars, loop_vars, listen_vars, stop_pc, heap_vars,
                   thread_vars, param_vars, net_vars>>

(* std::thread throws when no thread can be made; nothing catches it.      *)
SpawnFails(s) ==
    /\ Alive /\ start_pc[s] = "accept"
    /\ Die("spawn")

(* The steps that start() owes once it has its socket.                     *)
Started(s) ==
    \/ StartBind(s) \/ StartRunning(s) \/ StartListen(s)
    \/ NewClient(s) \/ Accept(s) \/ AcceptFails(s)

Starter(s) == StartSocket(s) \/ Started(s) \/ AcceptError(s) \/ SpawnFails(s)

-----------------------------------------------------------------------------
(* Server::stop.  close() leaves the socket listening while an accept() is *)
(* blocked on it: "lingering".                                             *)

Held(l) ==
    /\ \E s \in Starters : blocked_on[s] = l
    /\ listener[l] \in {"listening", "lingering"}

after_close_forgotten(l) == listener[l]
after_close(l) == IF Held(l) THEN "lingering" ELSE "closed"

StopClose ==
    /\ MayStop /\ Alive /\ stop_pc = "idle" /\ status = "RUNNING"
    /\ stop_pc' = "closed"
    /\ listener' = [s \in Starters |-> IF s = socket THEN after_close(s) ELSE listener[s]]
    /\ LET dropped == UNION {backlog[s] : s \in {t \in Starters : t = socket /\ ~ Held(t)}}
       IN  /\ backlog' = [s \in Starters |-> backlog[s] \ dropped]
           /\ Reset(dropped)
    /\ UNCHANGED <<status_vars, loop_vars, heap_vars, thread_vars, param_vars, sent, crash>>

StopIdle ==
    /\ Alive /\ stop_pc = "closed"
    /\ stop_pc' = "idle"
    /\ status' = "IDLE"
    /\ UNCHANGED <<last_error, socket, loop_vars, listen_vars, heap_vars,
                   thread_vars, param_vars, net_vars, crash>>

Stopper == StopClose \/ StopIdle

-----------------------------------------------------------------------------
(* Server::client_handler.                                                 *)

(* push_back: the end of the vector is read, then the element is written.  *)
AddParamBegin(c) ==
    /\ Alive /\ pc[c] = "add"
    /\ pc' = [pc EXCEPT ![c] = "adding"]
    /\ slot' = [slot EXCEPT ![c] = Len(param_list) + 1]
    /\ raced' = (raced \/ Pushing(c))
    /\ UNCHANGED <<status_vars, loop_vars, listen_vars, stop_pc, heap_vars, calls,
                   todo, target, out, late, param_list, answered, net_vars, crash>>

LastParam_late(c) == calls[c] = 2
LastParam(c) == calls[c] = 1

AddParamEnd(c) ==
    /\ Alive /\ pc[c] = "adding"
    /\ LET param == own_params(c)[calls[c] + 1]
       IN  IF slot[c] = Len(param_list) + 1
           THEN param_list' = Append(param_list, param)
           ELSE LET written == [param_list EXCEPT ![slot[c]] = param]
                IN  param_list' \in {written, Append(written, Hole)}
    /\ calls' = [calls EXCEPT ![c] = @ + 1]
    /\ slot' = [slot EXCEPT ![c] = 1]
    /\ pc' = [pc EXCEPT ![c] = IF LastParam(c) THEN "loop" ELSE "add"]
    /\ UNCHANGED <<status_vars, loop_vars, listen_vars, stop_pc, heap_vars, todo,
                   target, out, late, raced, answered, net_vars, crash>>

Running_unchecked == TRUE
Running == status = "RUNNING"

Leave_undeleted(c) == pc' = [pc EXCEPT ![c] = "done"]
Leave(c) == pc' = [pc EXCEPT ![c] = "exit"]

Loop(c) ==
    /\ Alive /\ pc[c] = "loop"
    /\ IF Running THEN pc' = [pc EXCEPT ![c] = "recv"] ELSE Leave(c)
    /\ UNCHANGED <<status_vars, loop_vars, listen_vars, stop_pc, heap_vars, calls,
                   slot, todo, target, out, late, param_vars, net_vars, crash>>

(* The buffer as a C string: it ends at the first NUL.                     *)
c_string(chunk) ==
    LET nuls == delimiter_positions(chunk, "NUL")
    IN  IF nuls = <<>> THEN chunk ELSE SubSeq(chunk, 1, nuls[1])

(***************************************************************************)
(* recv returns a prefix of the stream, wherever TCP cuts it.  The chunk   *)
(* is parsed on its own: handle() calls a handler per known key, or an     *)
(* exception ends the process.  A full buffer without a NUL is read past   *)
(* its end before it is cut, which may end it too.                         *)
(***************************************************************************)
Recv(c) ==
    /\ Alive /\ pc[c] = "recv" /\ client_sock[c] # NoSocket
    /\ LET p == client_sock[c]
       IN  \E n \in 1..Len(stream[p]) :
             LET chunk == SubSeq(stream[p], 1, n)
                 data  == c_string(chunk)
             IN  /\ n <= BufferSize
                 /\ stream' = [stream EXCEPT ![p] = SubSeq(@, n + 1, Len(@))]
                 /\ late' = [late EXCEPT ![c] = IF status = "IDLE" THEN @ + 1 ELSE @]
                 /\ \/ /\ ~ ParseThrows(data)
                       /\ todo' = [todo EXCEPT ![c] = handled(data)]
                       /\ pc' = [pc EXCEPT ![c] = "handle"]
                       /\ UNCHANGED crash
                    \/ /\ \/ ParseThrows(data) /\ crash' = "throw"
                          \/ n = BufferSize /\ data = chunk /\ crash' = "overread"
                       /\ UNCHANGED <<todo, pc>>
    /\ UNCHANGED <<status_vars, loop_vars, listen_vars, stop_pc, heap_vars, calls,
                   slot, target, out, param_vars, peer, unread, sent>>

(* recv has returned 0 or -1.                                              *)
HungUp_error_only(c) == client_sock[c] # NoSocket => peer[client_sock[c]] = "reset"

HungUp(c) ==
    client_sock[c] # NoSocket => /\ peer[client_sock[c]] \in {"closed", "reset"}
                                 /\ stream[client_sock[c]] = <<>>

RecvEnd(c) ==
    /\ Alive /\ pc[c] = "recv" /\ HungUp(c)
    /\ Leave(c)
    /\ UNCHANGED <<status_vars, loop_vars, listen_vars, stop_pc, heap_vars, calls,
                   slot, todo, target, out, late, param_vars, net_vars, crash>>

(* hello, up to send_data: returns early if a parameter is missing.        *)
Hello(c) ==
    /\ Alive /\ pc[c] = "handle" /\ todo[c] # {}
    /\ LET found == get_param("server") # NULL /\ get_param("client") # NULL
       IN  /\ pc' = [pc EXCEPT ![c] = IF found THEN "send" ELSE "handle"]
           /\ target' = [target EXCEPT ![c] = IF found THEN get_param("client") ELSE @]
           /\ \E i \in todo[c] : /\ \A j \in todo[c] : i <= j
                                 /\ todo' = [todo EXCEPT ![c] = @ \ {i}]
    /\ raced' = (raced \/ Pushing(c))
    /\ UNCHANGED <<status_vars, loop_vars, listen_vars, stop_pc, heap_vars, calls,
                   slot, out, late, param_list, answered, net_vars, crash>>

(***************************************************************************)
(* client->socket: once the object is freed, what its memory holds, the    *)
(* old socket or that of an object allocated since, or nothing of use.     *)
(***************************************************************************)
SocketOf(t) ==
    IF heap[t] = "live" THEN {client_sock[t]}
    ELSE {client_sock[t], NoSocket} \cup {client_sock[d] : d \in {e \in Clients : heap[e] = "live"}}

(***************************************************************************)
(* send: waits as long as the buffers to an open peer are full.  To a peer *)
(* that has closed it draws a reset, and after a reset it raises SIGPIPE   *)
(* unless the socket reports another error first.                          *)
(***************************************************************************)
Room(sock) == sock \in Peers /\ peer[sock] = "open" => unread[sock] < SendCapacity

Send(sock) ==
    \/ /\ sock \in Peers /\ peer[sock] = "open"
       /\ unread' = [unread EXCEPT ![sock] = @ + 1]
       /\ UNCHANGED <<peer, stream, crash>>
    \/ /\ sock # NoSocket => peer[sock] # "open"
       /\ UNCHANGED <<peer, stream, unread, crash>>
    \/ /\ sock \in Peers /\ peer[sock] = "closed"
       /\ Reset({sock})
       /\ UNCHANGED crash
    \/ /\ sock \in Peers /\ peer[sock] = "reset"
       /\ crash' = "sigpipe"
       /\ UNCHANGED <<peer, stream, unread>>

SendData(c) ==
    /\ Alive /\ pc[c] = "send"
    /\ answered' = answered \cup {target[c]}
    /\ target' = [target EXCEPT ![c] = NULL]
    /\ \E sock \in SocketOf(target[c]) :
          \/ /\ Room(sock) /\ Send(sock)
             /\ pc' = [pc EXCEPT ![c] = "handle"]
             /\ UNCHANGED out
          \/ /\ ~ Room(sock)
             /\ pc' = [pc EXCEPT ![c] = "sending"]
             /\ out' = [out EXCEPT ![c] = sock]
             /\ UNCHANGED <<peer, stream, unread, crash>>
    /\ UNCHANGED <<status_vars, loop_vars, listen_vars, stop_pc, heap_vars, calls,
                   slot, todo, late, param_list, raced, sent>>

(* A send() that has waited.                                               *)
SendLate(c) ==
    /\ Alive /\ pc[c] = "sending" /\ Room(out[c])
    /\ Send(out[c])
    /\ out' = [out EXCEPT ![c] = NoSocket]
    /\ pc' = [pc EXCEPT ![c] = "handle"]
    /\ UNCHANGED <<status_vars, loop_vars, listen_vars, stop_pc, heap_vars, calls,
                   slot, todo, target, late, param_vars, sent>>

Handled(c) ==
    /\ Alive /\ pc[c] = "handle" /\ todo[c] = {}
    /\ pc' = [pc EXCEPT ![c] = "loop"]
    /\ UNCHANGED <<status_vars, loop_vars, listen_vars, stop_pc, heap_vars, calls,
                   slot, todo, target, out, late, param_vars, net_vars, crash>>

(* delete client; its socket is not closed, its parameters stay.           *)
Exit(c) ==
    /\ Alive /\ pc[c] = "exit"
    /\ pc' = [pc EXCEPT ![c] = "done"]
    /\ heap' = [heap EXCEPT ![c] = "freed"]
    /\ UNCHANGED <<status_vars, loop_vars, listen_vars, stop_pc, next_client,
                   client_sock, calls, slot, todo, target, out, late, param_vars,
                   net_vars, crash>>

Handler(c) ==
    \/ AddParamBegin(c) \/ AddParamEnd(c) \/ Loop(c) \/ Recv(c) \/ RecvEnd(c)
    \/ Hello(c) \/ SendData(c) \/ SendLate(c) \/ Handled(c) \/ Exit(c)

Corrupted == Alive /\ raced /\ Die("race")

-----------------------------------------------------------------------------
(* The network, and the specification.                                     *)

Connect(p) ==
    /\ Alive /\ peer[p] = "away"
    /\ \E s \in Starters :
          /\ listener[s] \in {"listening", "lingering"}
          /\ backlog' = [backlog EXCEPT ![s] = @ \cup {p}]
    /\ peer' = [peer EXCEPT ![p] = "open"]
    /\ UNCHANGED <<status_vars, loop_vars, listener, stop_pc, heap_vars,
                   thread_vars, param_vars, stream, unread, sent, crash>>

PeerSend(p) ==
    /\ Alive /\ peer[p] = "open" /\ sent[p] < MaxMessages[p]
    /\ \E m \in Messages : stream' = [stream EXCEPT ![p] = @ \o m]
    /\ sent' = [sent EXCEPT ![p] = @ + 1]
    /\ UNCHANGED <<status_vars, loop_vars, listen_vars, stop_pc, heap_vars,
                   thread_vars, param_vars, peer, unread, crash>>

PeerClose(p) ==
    /\ Alive /\ peer[p] = "open"
    /\ \/ /\ peer' = [peer EXCEPT ![p] = "closed"]
          /\ unread' = [unread EXCEPT ![p] = 0]
          /\ UNCHANGED stream
       \/ Reset({p})
    /\ UNCHANGED <<status_vars, loop_vars, listen_vars, stop_pc, heap_vars,
                   thread_vars, param_vars, sent, crash>>

(* A peer may leave its answers unread as long as it likes.                *)
PeerRead(p) ==
    /\ Alive /\ peer[p] = "open" /\ unread[p] > 0
    /\ unread' = [unread EXCEPT ![p] = @ - 1]
    /\ UNCHANGED <<status_vars, loop_vars, listen_vars, stop_pc, heap_vars,
                   thread_vars, param_vars, peer, stream, sent, crash>>

Network == \E p \in Peers : Connect(p) \/ PeerSend(p) \/ PeerRead(p) \/ PeerClose(p)

Next ==
    \/ \E s \in Starters : Starter(s)
    \/ Stopper
    \/ \E c \in Clients : Handler(c)
    \/ Corrupted
    \/ Network

(***************************************************************************)
(* The scheduler runs every thread that can take a step: one inside        *)
(* accept(), recv() or send() can when the call has something to return.   *)
(* Peers, and the caller of stop() before its call, owe nothing.           *)
(***************************************************************************)
Fairness ==
    /\ \A s \in Starters : WF_vars(Started(s))
    /\ \A c \in Clients : WF_vars(Handler(c))
    /\ WF_vars(StopIdle)

Spec == Init /\ [][Next]_vars
FairSpec == Spec /\ Fairness

-----------------------------------------------------------------------------
(* Properties.                                                             *)

StatusType ==
    /\ status \in {"IDLE", "RUNNING"}
    /\ last_error \in {"NO_ERROR", "SOCKET_CREATE"}
    /\ socket \in Starters \cup {NoSocket}

LoopType ==
    /\ start_pc \in [Starters -> {"idle", "bind", "running", "listen", "new", "accept"}]
    /\ pending \in [Starters -> Clients \cup {NULL}]
    /\ blocked_on \in [Starters -> Starters \cup {NoSocket}]

ListenerState == {"none", "created", "bound", "listening", "deaf", "lingering", "closed"}

ListenType ==
    /\ listener \in [Starters -> ListenerState]
    /\ backlog \in [Starters -> SUBSET Peers]

HeapType ==
    /\ next_client \in 0..MaxClients
    /\ heap \in [Clients -> {"unused", "live", "freed"}]
    /\ client_sock \in [Clients -> Peers \cup {NoSocket}]

ThreadType ==
    /\ pc \in [Clients -> {"none", "add", "adding", "loop", "recv", "handle",
                           "send", "sending", "exit", "done"}]
    /\ calls \in [Clients -> {0, 1, 2}]
    /\ slot \in [Clients -> Nat \ {0}]
    /\ todo \in [Clients -> SUBSET Nat]
    /\ target \in [Clients -> Pointers]
    /\ out \in [Clients -> Peers \cup {NoSocket}]
    /\ late \in [Clients -> Nat]
    /\ \A c \in Clients : pc[c] \in {"add", "adding"} => calls[c] < 2

ParamType ==
    /\ param_list \in Seq(Params)
    /\ raced \in BOOLEAN
    /\ answered \in SUBSET Pointers

NetType ==
    /\ peer \in [Peers -> {"away", "open", "closed", "reset"}]
    /\ stream \in [Peers -> Seq(STRING)]
    /\ unread \in [Peers -> 0..SendCapacity]
    /\ sent \in [Peers -> Nat] /\ \A p \in Peers : sent[p] <= MaxMessages[p]

(***************************************************************************)
(* Every variable has its type: pointers are NULL, a client or the server, *)
(* and a handler that still registers has a parameter left to register.    *)
(***************************************************************************)
TypeOK ==
    /\ StatusType /\ LoopType /\ ListenType /\ HeapType /\ ThreadType
    /\ ParamType /\ NetType
    /\ stop_pc \in {"idle", "closed"}
    /\ crash \in {"no", "spawn", "throw", "overread", "sigpipe", "race"}

(***************************************************************************)
(* Every eb_client has one owner, the accept loop that allocated it or the *)
(* handler it was passed to, until that handler deletes it.  (That others  *)
(* may still use it then, through param_list, is for SendsToALiveClient.)  *)
(***************************************************************************)
OneOwner ==
    /\ \A c \in Clients :
          /\ heap[c] = "live" <=> \/ \E s \in Starters : pending[s] = c
                                  \/ pc[c] \notin {"none", "done"}
          /\ heap[c] = "freed" <=> pc[c] = "done"
          /\ (\E s \in Starters : pending[s] = c) => pc[c] = "none"
    /\ \A s, t \in Starters : pending[s] = pending[t] => s = t \/ pending[s] = NULL

(* The owner of each eb_client, and the life EBClientLife gives it.        *)
owner ==
    [c \in Clients |->
        IF heap[c] = "unused" THEN "nobody"
        ELSE IF heap[c] = "freed" THEN "deleted"
        ELSE IF \E s \in Starters : pending[s] = c THEN "loop"
        ELSE IF pc[c] \notin {"none", "done"} THEN "handler"
        ELSE "lost"]

Life == INSTANCE EBClientLife WITH Clients <- Clients, owner <- owner

(***************************************************************************)
(* The server implements EBClientLife: the steps of all its threads        *)
(* together give each object that life, in this order.                     *)
(***************************************************************************)
ObjectsLiveOnce == Life!Spec

(***************************************************************************)
(* As long as no two accesses have overlapped, every answer ever sent went *)
(* to the client that registered first, whoever asked: parameters are only *)
(* appended and the first match is returned.                               *)
(***************************************************************************)
FirstRegistrationWins == ~ raced => answered \subseteq {get_param("client")}

(* After stop() a handler reads at most one more chunk.                    *)
AtMostOneLateChunk == \A c \in Clients : late[c] <= 1

(***************************************************************************)
(* With one call of start(): once stop() has made the server idle, its     *)
(* port is released, or held only by the accept() that was blocked on it.  *)
(***************************************************************************)
IdleIsClosed ==
    \A s \in Starters :
        Starters = {s} /\ status = "IDLE" /\ start_pc[s] \in {"listen", "new", "accept"}
            => listener[s] \in {"lingering", "closed"}

(***************************************************************************)
(* "Sending data to client." (the log line of send_data): the object hello *)
(* is about to send to is a client that exists.                            *)
(***************************************************************************)
SendsToALiveClient ==
    \A c \in Clients : pc[c] = "send" => target[c] \in Clients /\ heap[target[c]] = "live"

Serving(c) == pc[c] \notin {"none", "done"}

(* Inside a send() to a peer that is there and does not read.              *)
Stuck(c) == pc[c] = "sending" /\ ~ Room(out[c])

(***************************************************************************)
(* The handler of a connection that has ended, ends, unless it is for ever *)
(* inside a send() to a peer, another one, that never reads its answers.   *)
(***************************************************************************)
EndedConnectionIsReleased ==
    \A c \in Clients :
        \/ (Serving(c) /\ client_sock[c] \in Peers /\ peer[client_sock[c]] # "open")
               ~> (pc[c] = "done" \/ ~ Alive)
        \/ <>[]Stuck(c)

(***************************************************************************)
(* Once the server is idle, every handler that is not parked in recv on a  *)
(* silent connection ends, and so does a parked one when that connection   *)
(* says anything, unless the server is started again or the handler is for *)
(* ever inside a send() to a peer that never reads its answers.            *)
(***************************************************************************)
Busy(c) ==
    /\ Serving(c)
    /\ pc[c] = "recv" => HungUp(c) \/ stream[client_sock[c]] # <<>>

StopDrains ==
    \A c \in Clients :
        \/ (status = "IDLE" /\ Busy(c)) ~> (pc[c] = "done" \/ status = "RUNNING" \/ ~ Alive)
        \/ <>[]Stuck(c)

=============================================================================
