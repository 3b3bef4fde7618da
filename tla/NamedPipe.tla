------------------------------ MODULE NamedPipe ------------------------------
(***************************************************************************)
(* EB::Windows::Pipe (win/pipe.h, win/pipe.cpp): the named pipe server, a  *)
(* thread per connected client, and the clients in their own processes.    *)
(*                                                                         *)
(* Threads: the one that runs create_server; those that call the set_      *)
(* functions, whose test of is_started and assignment are two steps, since *)
(* nothing locks them; a client_handler per instance of the pipe; and one  *)
(* process per NamedPipeClient.                                            *)
(*                                                                         *)
(* The pipe is a byte stream: what a client writes is a sequence of        *)
(* requests <<client, n>>, and a read may return several of them; the      *)
(* bytes of a reply carry the request it answers.  <<client, 0>> marks a   *)
(* write of no bytes, which ends a read that returns no bytes.             *)
(***************************************************************************)
EXTENDS Integers, Sequences

CONSTANTS Clients,      \* the client processes
          Setters,      \* the threads that call the set_ functions
          MaxPipes,     \* bound on the pipe instances the server creates
          MaxRequests,  \* bound on the requests of a client
          MaxSets,      \* bound on the calls of the set_ functions
          BufferSizes,  \* the values of NamedPipeServer::buffer_size
          ReadSize,     \* NamedPipeClient::buffer_size
          Capacity,     \* bytes the system buffers in each direction
          MaxReply,     \* bound on the length of a reply
          Nobody        \* no client

ASSUME PipeAssumption ==
    /\ {MaxPipes, MaxRequests, ReadSize, Capacity, MaxReply} \subseteq Nat \ {0}
    /\ MaxSets \in Nat
    /\ BufferSizes \subseteq Nat \ {0} /\ BufferSizes # {}
    /\ MaxReply <= Capacity
    /\ Nobody \notin Clients

Pipes == 1..MaxPipes

VARIABLES
    server_pc,      \* where create_server is
    is_started,     \* NamedPipeServer::is_started
    server_error,   \* NamedPipeServer::last_error
    data_handler,   \* whether NamedPipeServer::data_handler is set
    buffer_size,    \* NamedPipeServer::buffer_size
    setter_pc,      \* which member each setter is about to assign
    sets,           \* calls of the set_ functions so far
    late_sets,      \* history: assignments each made after is_started was set
    overlapped,     \* history: the setters inside a call when it was set
    started_with,   \* history: the configuration at that moment
    last_pipe,      \* the instance create_server made last
    pipe_state,     \* state of each instance
    client_of,      \* the client an instance is connected to
    pipe_data,      \* what each client_handler was given
    thread_pc,      \* where each client_handler is
    request,        \* its request_buffer, cut at bytes_read
    reply_buffer,   \* the reply buffers, each cut at its reply_bytes
    failed,         \* history: the instances on which a call of the system
                    \* has failed though the client was there
    requests,       \* bytes on the way to the server, per instance
    replies,        \* bytes on the way to the client, per instance
    client_pc,      \* where each client is
    client_error,   \* NamedPipeClient::last_error
    asked,          \* requests each client has written
    emptied,        \* history: the clients that have made an empty write
    got             \* history: reply bytes each client has read

server_vars == <<server_pc, is_started, last_pipe>>
config_vars == <<data_handler, buffer_size, setter_pc, sets, late_sets>>
start_vars  == <<overlapped, started_with>>
pipe_vars   == <<pipe_state, client_of>>
thread_vars == <<pipe_data, thread_pc, request, reply_buffer>>
data_vars   == <<requests, replies>>
client_vars == <<client_pc, client_error, asked, emptied, got>>
vars == <<server_vars, server_error, config_vars, start_vars, pipe_vars, thread_vars,
          failed, data_vars, client_vars>>

Configuration == [size |-> buffer_size, handler |-> data_handler]

Init ==
    /\ server_pc = "idle" /\ is_started = FALSE /\ server_error = "NONE"
    /\ data_handler = FALSE /\ buffer_size \in BufferSizes
    /\ setter_pc = [s \in Setters |-> "idle"] /\ sets = 0
    /\ late_sets = [s \in Setters |-> 0]
    /\ overlapped = {} /\ started_with = Configuration
    /\ last_pipe = 0
    /\ pipe_state   = [i \in Pipes |-> "none"]
    /\ client_of    = [i \in Pipes |-> Nobody]
    /\ pipe_data    = [i \in Pipes |-> [size |-> 0, handler |-> FALSE]]
    /\ thread_pc    = [i \in Pipes |-> "none"]
    /\ request      = [i \in Pipes |-> <<>>]
    /\ reply_buffer = [i \in Pipes |-> <<>>]
    /\ failed       = {}
    /\ requests     = [i \in Pipes |-> <<>>]
    /\ replies      = [i \in Pipes |-> <<>>]
    /\ client_pc    = [c \in Clients |-> "new"]
    /\ client_error = [c \in Clients |-> "NONE"]
    /\ asked        = [c \in Clients |-> 0]
    /\ emptied      = {}
    /\ got          = [c \in Clients |-> <<>>]

-----------------------------------------------------------------------------
(* NamedPipeServer::set_buffer_size and set_data_handler.                  *)

MaySet_unchecked == TRUE
MaySet == ~ is_started

SetCheck(s) ==
    /\ setter_pc[s] = "idle" /\ sets < MaxSets
    /\ sets' = sets + 1
    /\ IF MaySet
       THEN /\ \E member \in {"data_handler", "buffer_size"} :
                  setter_pc' = [setter_pc EXCEPT ![s] = member]
            /\ UNCHANGED server_error
       ELSE /\ server_error' = "SERVER_IS_RUNNING"
            /\ UNCHANGED setter_pc
    /\ UNCHANGED <<server_vars, data_handler, buffer_size, late_sets, start_vars,
                   pipe_vars, thread_vars, failed, data_vars, client_vars>>

(* The caller may pass NULL as a handler.                                  *)
SetAssign(s) ==
    /\ \/ /\ setter_pc[s] = "data_handler"
          /\ data_handler' \in BOOLEAN
          /\ UNCHANGED buffer_size
       \/ /\ setter_pc[s] = "buffer_size"
          /\ buffer_size' \in BufferSizes
          /\ UNCHANGED data_handler
    /\ setter_pc' = [setter_pc EXCEPT ![s] = "idle"]
    /\ server_error' = "NONE"
    /\ late_sets' = [late_sets EXCEPT ![s] = IF is_started THEN @ + 1 ELSE @]
    /\ UNCHANGED <<server_vars, sets, start_vars, pipe_vars, thread_vars, failed,
                   data_vars, client_vars>>

Setter(s) == SetCheck(s) \/ SetAssign(s)

-----------------------------------------------------------------------------
(* NamedPipeServer::create_server.                                         *)

CreateServer ==
    /\ server_pc = "idle" /\ last_pipe < MaxPipes
    /\ \/ /\ ~ data_handler
          /\ server_error' = "DataHandler_IS_NULL"
          /\ UNCHANGED server_pc
       \/ /\ data_handler
          /\ server_pc' = "start"
          /\ UNCHANGED server_error
    /\ UNCHANGED <<is_started, last_pipe, config_vars, start_vars, pipe_vars,
                   thread_vars, failed, data_vars, client_vars>>

(* Every return leaves is_started as it is, so it is never reset.          *)
StartServer ==
    /\ server_pc = "start"
    /\ server_pc' = "create"
    /\ is_started' = TRUE
    /\ IF is_started THEN UNCHANGED start_vars
       ELSE /\ overlapped' = {s \in Setters : setter_pc[s] # "idle"}
            /\ started_with' = Configuration
    /\ UNCHANGED <<last_pipe, server_error, config_vars, pipe_vars, thread_vars, failed,
                   data_vars, client_vars>>

Return(error) ==
    /\ server_pc' = "idle"
    /\ server_error' = error

CreateNamedPipe ==
    /\ server_pc = "create" /\ last_pipe < MaxPipes
    /\ \/ /\ last_pipe' = last_pipe + 1
          /\ pipe_state' = [pipe_state EXCEPT ![last_pipe + 1] = "listening"]
          /\ server_pc' = "connect"
          /\ UNCHANGED server_error
       \/ /\ Return("CreateNamedPipe_FAILED")
          /\ UNCHANGED <<last_pipe, pipe_state>>
    /\ UNCHANGED <<is_started, config_vars, start_vars, client_of, thread_vars,
                   failed, data_vars, client_vars>>

(***************************************************************************)
(* ConnectNamedPipe waits for a client.  If one is already there it fails  *)
(* with ERROR_PIPE_CONNECTED, which is a success; if one has come and gone *)
(* it fails with ERROR_NO_DATA; and it may fail for any other reason.      *)
(***************************************************************************)
is_connected_strict(state) == FALSE
is_connected(state) == state = "connected"

Abandon ==
    /\ server_pc' = "create"
    /\ pipe_state' = [pipe_state EXCEPT ![last_pipe] = "closed"]
    /\ failed' = IF is_connected(pipe_state[last_pipe]) THEN failed \cup {last_pipe}
                                                        ELSE failed

ConnectNamedPipe ==
    /\ server_pc = "connect"
    /\ \/ /\ pipe_state[last_pipe] = "listening"
          /\ server_pc' = "blocked"
          /\ UNCHANGED <<server_error, pipe_state, failed>>
       \/ /\ server_error' = "NONE"
          /\ \/ /\ is_connected(pipe_state[last_pipe])
                /\ server_pc' = "spawn" /\ UNCHANGED <<pipe_state, failed>>
             \/ Abandon
    /\ UNCHANGED <<is_started, last_pipe, config_vars, start_vars, client_of,
                   thread_vars, data_vars, client_vars>>

(* A client that has come is a success, even when it has gone again.       *)
Connected ==
    /\ server_pc = "blocked" /\ pipe_state[last_pipe] # "listening"
    /\ server_error' = "NONE"
    /\ \/ server_pc' = "spawn" /\ UNCHANGED <<pipe_state, failed>>
       \/ Abandon
    /\ UNCHANGED <<is_started, last_pipe, config_vars, start_vars, client_of,
                   thread_vars, data_vars, client_vars>>

(* When no thread can be made, pipe_data is deleted and the pipe is not.   *)
Spawn ==
    /\ server_pc = "spawn"
    /\ \/ /\ pipe_data' = [pipe_data EXCEPT ![last_pipe] = Configuration]
          /\ thread_pc' = [thread_pc EXCEPT ![last_pipe] = "start"]
          /\ server_pc' = "create"
          /\ UNCHANGED server_error
       \/ /\ Return("CreateThread_FAILED")
          /\ UNCHANGED <<pipe_data, thread_pc>>
    /\ UNCHANGED <<is_started, last_pipe, config_vars, start_vars, pipe_vars, request,
                   reply_buffer, failed, data_vars, client_vars>>

Server ==
    \/ CreateServer \/ StartServer \/ CreateNamedPipe
    \/ ConnectNamedPipe \/ Connected \/ Spawn

-----------------------------------------------------------------------------
(* NamedPipeServer::client_handler.                                        *)

(* A missing handler, or a buffer that cannot be allocated, is a return    *)
(* that leaves the pipe open and pipe_data allocated.                      *)
Callable_unchecked(i) == TRUE
Callable(i) == pipe_data[i].handler

HandlerStart(i) ==
    /\ thread_pc[i] = "start"
    /\ \/ thread_pc' = [thread_pc EXCEPT ![i] = "returned"]
       \/ Callable(i) /\ thread_pc' = [thread_pc EXCEPT ![i] = "read"]
    /\ UNCHANGED <<server_vars, server_error, config_vars, start_vars, pipe_vars, pipe_data,
                   request, reply_buffer, failed, data_vars, client_vars>>

(***************************************************************************)
(* ReadFile returns what is there, up to the buffer.  It fails once the    *)
(* client is gone and everything is read, and returns no bytes for an      *)
(* empty write; it may also fail for a reason of the system, which it owes *)
(* nobody.  Whatever the reason, the handler stops serving.                *)
(***************************************************************************)
Empty(token) == token[2] = 0

Arrived(i) ==
    {n \in 1..Len(requests[i]) : n <= pipe_data[i].size /\ ~ Empty(requests[i][n])
                                 /\ \A k \in 1..n : ~ Empty(requests[i][k])}

Readable_when_full(i) == pipe_data[i].size \in Arrived(i)
Readable(i) == Arrived(i) # {}

Ended(i) ==
    \/ requests[i] = <<>> /\ pipe_state[i] = "broken"
    \/ requests[i] # <<>> /\ Empty(Head(requests[i]))

SystemFails(i) == failed' = IF pipe_state[i] = "broken" THEN failed ELSE failed \cup {i}

after_failed_read_retried == "read"
after_failed_read == "close"

Read(i) ==
    /\ thread_pc[i] = "read"
    /\ \/ /\ Readable(i)
          /\ \E n \in Arrived(i) :
                /\ \A m \in Arrived(i) : m <= n
                /\ request'  = [request  EXCEPT ![i] = SubSeq(requests[i], 1, n)]
                /\ requests' = [requests EXCEPT ![i] = SubSeq(@, n + 1, Len(@))]
          /\ thread_pc' = [thread_pc EXCEPT ![i] = "handle"]
       \/ /\ Ended(i)
          /\ thread_pc' = [thread_pc EXCEPT ![i] = after_failed_read]
          /\ requests' = [requests EXCEPT ![i] = IF @ = <<>> THEN @ ELSE Tail(@)]
          /\ UNCHANGED request
    /\ UNCHANGED <<server_vars, server_error, config_vars, start_vars, pipe_vars,
                   pipe_data, reply_buffer, failed, replies, client_vars>>

ReadError(i) ==
    /\ thread_pc[i] = "read" /\ SystemFails(i)
    /\ thread_pc' = [thread_pc EXCEPT ![i] = after_failed_read]
    /\ UNCHANGED <<server_vars, server_error, config_vars, start_vars, pipe_vars,
                   pipe_data, request, reply_buffer, data_vars, client_vars>>

(* Each thread allocates its own reply buffer.                             *)
reply_buffer_shared(i) == 1
reply_buffer_of(i) == i

(***************************************************************************)
(* The application's data_handler: it answers, or asks for no reply, or    *)
(* leaves reply_bytes alone, which then still holds the last length.       *)
(***************************************************************************)
Handle(i) ==
    /\ thread_pc[i] = "handle"
    /\ LET b == reply_buffer_of(i)
           answered == request[i][Len(request[i])]
       IN  \/ \E n \in 0..MaxReply :
                 reply_buffer' = [reply_buffer EXCEPT ![b] = [k \in 1..n |-> answered]]
           \/ UNCHANGED reply_buffer
    /\ thread_pc' = [thread_pc EXCEPT ![i] = "write"]
    /\ UNCHANGED <<server_vars, server_error, config_vars, start_vars, pipe_vars, pipe_data,
                   request, failed, data_vars, client_vars>>

(***************************************************************************)
(* WriteFile waits for room, and fails once the client is gone; it may     *)
(* fail for a reason of the system, or write only some of the reply.       *)
(***************************************************************************)
Write(i) ==
    /\ thread_pc[i] = "write"
    /\ LET reply == reply_buffer[reply_buffer_of(i)]
           next(where) == thread_pc' = [thread_pc EXCEPT ![i] = where]
       IN  \/ reply = <<>> /\ next("read") /\ UNCHANGED replies
           \/ /\ reply # <<>> /\ pipe_state[i] = "broken"
              /\ next("close") /\ UNCHANGED replies
           \/ /\ reply # <<>> /\ pipe_state[i] # "broken"
              /\ Len(replies[i]) + Len(reply) <= Capacity
              /\ replies' = [replies EXCEPT ![i] = @ \o reply]
              /\ next("read")
    /\ UNCHANGED <<server_vars, server_error, config_vars, start_vars, pipe_vars,
                   pipe_data, request, reply_buffer, failed, requests, client_vars>>

WriteError(i) ==
    /\ thread_pc[i] = "write" /\ pipe_state[i] # "broken" /\ SystemFails(i)
    /\ LET reply == reply_buffer[reply_buffer_of(i)]
       IN  \E n \in 0..(Len(reply) - 1) :
              /\ Len(replies[i]) + n <= Capacity
              /\ replies' = [replies EXCEPT ![i] = @ \o SubSeq(reply, 1, n)]
    /\ thread_pc' = [thread_pc EXCEPT ![i] = "close"]
    /\ UNCHANGED <<server_vars, server_error, config_vars, start_vars, pipe_vars,
                   pipe_data, request, reply_buffer, requests, client_vars>>

(***************************************************************************)
(* FlushFileBuffers waits for a client that is still there to read its     *)
(* replies, unless it fails; then disconnect, which discards what is left, *)
(* close, and delete of pipe_data.                                         *)
(***************************************************************************)
Disconnect(i) ==
    /\ thread_pc[i] = "close"
    /\ thread_pc' = [thread_pc EXCEPT ![i] = "done"]
    /\ pipe_state' = [pipe_state EXCEPT ![i] = "closed"]
    /\ replies'  = [replies  EXCEPT ![i] = <<>>]
    /\ requests' = [requests EXCEPT ![i] = <<>>]
    /\ UNCHANGED <<server_vars, server_error, config_vars, start_vars, client_of,
                   pipe_data, request, reply_buffer, client_vars>>

Close(i) ==
    /\ Disconnect(i)
    /\ replies[i] = <<>> \/ pipe_state[i] = "broken"
    /\ UNCHANGED failed

FlushError(i) == Disconnect(i) /\ SystemFails(i)

client_handler(i) == HandlerStart(i) \/ Read(i) \/ Handle(i) \/ Write(i) \/ Close(i)
handler_error(i)  == ReadError(i) \/ WriteError(i) \/ FlushError(i)

-----------------------------------------------------------------------------
(* NamedPipeClient.                                                        *)

Fail(c, error) ==
    /\ client_pc'    = [client_pc EXCEPT ![c] = "failed"]
    /\ client_error' = [client_error EXCEPT ![c] = error]

Listening == {i \in Pipes : pipe_state[i] = "listening"}
Existing  == {i \in Pipes : pipe_state[i] \notin {"none", "closed"}}

(* The constructor's loop: CreateFile, and WaitNamedPipe if all are busy.  *)
OpenPipe(c) ==
    /\ client_pc[c] = "new"
    /\ \/ \E i \in Listening :
             /\ pipe_state' = [pipe_state EXCEPT ![i] = "connected"]
             /\ client_of'  = [client_of EXCEPT ![i] = c]
             /\ client_pc'  = [client_pc EXCEPT ![c] = "mode"]
             /\ UNCHANGED client_error
       \/ /\ Listening = {} /\ Existing # {}
          /\ client_pc' = [client_pc EXCEPT ![c] = "wait"]
          /\ UNCHANGED <<pipe_vars, client_error>>
       \/ /\ Existing = {}
          /\ Fail(c, "CANT_OPEN_PIPE")
          /\ UNCHANGED pipe_vars
    /\ UNCHANGED <<server_vars, server_error, config_vars, start_vars, thread_vars, failed,
                   data_vars, asked, emptied, got>>

WaitPipe(c) ==
    /\ client_pc[c] = "wait"
    /\ \/ /\ Listening # {}
          /\ client_pc' = [client_pc EXCEPT ![c] = "new"]
          /\ UNCHANGED client_error
       \/ Fail(c, "WaitNamedPipe_TIMEOUTED")
    /\ UNCHANGED <<server_vars, server_error, config_vars, start_vars, pipe_vars, thread_vars,
                   failed, data_vars, asked, emptied, got>>

(* A failure leaves the pipe connected.                                    *)
SetMode(c) ==
    /\ client_pc[c] = "mode"
    /\ \/ /\ client_pc' = [client_pc EXCEPT ![c] = "open"]
          /\ client_error' = [client_error EXCEPT ![c] = "NONE"]
       \/ Fail(c, "SetNamedPipeHandleState_FAILED")
    /\ UNCHANGED <<server_vars, server_error, config_vars, start_vars, pipe_vars, thread_vars,
                   failed, data_vars, asked, emptied, got>>

(* write and read are refused by is_pipe_open after a failed constructor.  *)
ClientRefused(c) ==
    /\ client_pc[c] = "failed"
    /\ client_error' = [client_error EXCEPT ![c] = "PIPE_IS_NOT_OPEN"]
    /\ UNCHANGED <<server_vars, server_error, config_vars, start_vars, pipe_vars, thread_vars,
                   failed, data_vars, client_pc, asked, emptied, got>>

(***************************************************************************)
(* WriteFile waits for room, and nothing else is done meanwhile.  It may   *)
(* fail for any reason, and does if the server has hung up; or only a part *)
(* of the request is written, which is a request to its reader.            *)
(***************************************************************************)
ClientWaits(c, i) ==
    /\ client_pc[c] = "open" /\ client_of[i] = c
    /\ pipe_state[i] = "connected" /\ Len(requests[i]) = Capacity
    /\ client_pc' = [client_pc EXCEPT ![c] = "writing"]
    /\ UNCHANGED <<server_vars, server_error, config_vars, start_vars, pipe_vars, thread_vars,
                   failed, data_vars, client_error, asked, emptied, got>>

ClientWrite(c, i) ==
    /\ client_pc[c] \in {"open", "writing"} /\ client_of[i] = c
    /\ client_pc' = [client_pc EXCEPT ![c] = "open"]
    /\ \/ /\ pipe_state[i] = "connected" /\ Len(requests[i]) < Capacity
          /\ \/ /\ asked[c] < MaxRequests
                /\ \E error \in {"NONE", "NOT_ALL_BYTES_WRITTEN"} :
                      client_error' = [client_error EXCEPT ![c] = error]
                /\ requests' = [requests EXCEPT ![i] = Append(@, <<c, asked[c] + 1>>)]
                /\ asked' = [asked EXCEPT ![c] = @ + 1]
                /\ UNCHANGED emptied
             \/ /\ c \notin emptied
                /\ client_error' = [client_error EXCEPT ![c] = "NONE"]
                /\ requests' = [requests EXCEPT ![i] = Append(@, <<c, 0>>)]
                /\ emptied' = emptied \cup {c}
                /\ UNCHANGED asked
       \/ /\ client_error' = [client_error EXCEPT ![c] = "WriteFile_FAILED"]
          /\ UNCHANGED <<requests, asked, emptied>>
    /\ UNCHANGED <<server_vars, server_error, config_vars, start_vars, pipe_vars, thread_vars,
                   failed, replies, got>>

(* A failed ReadFile leaves last_error as it was.                          *)
ClientRead(c, i) ==
    /\ client_pc[c] = "open" /\ client_of[i] = c
    /\ replies[i] # <<>>
    /\ LET n == IF Len(replies[i]) < ReadSize THEN Len(replies[i]) ELSE ReadSize
       IN  /\ got' = [got EXCEPT ![c] = @ \o SubSeq(replies[i], 1, n)]
           /\ replies' = [replies EXCEPT ![i] = SubSeq(@, n + 1, Len(@))]
    /\ client_error' = [client_error EXCEPT ![c] = "NONE"]
    /\ UNCHANGED <<server_vars, server_error, config_vars, start_vars, pipe_vars, thread_vars,
                   failed, requests, client_pc, asked, emptied>>

(* The process ends; only this closes its end of the pipe.                 *)
ClientExit(c) ==
    /\ client_pc[c] \in {"mode", "open", "writing", "failed"}
    /\ client_pc' = [client_pc EXCEPT ![c] = "gone"]
    /\ pipe_state' = [i \in Pipes |-> IF client_of[i] = c /\ pipe_state[i] = "connected"
                                      THEN "broken" ELSE pipe_state[i]]
    /\ UNCHANGED <<server_vars, server_error, config_vars, start_vars, client_of, thread_vars,
                   failed, data_vars, client_error, asked, emptied, got>>

Client(c) ==
    \/ OpenPipe(c) \/ WaitPipe(c) \/ SetMode(c) \/ ClientRefused(c) \/ ClientExit(c)
    \/ \E i \in Pipes : ClientWaits(c, i) \/ ClientWrite(c, i) \/ ClientRead(c, i)

-----------------------------------------------------------------------------
Next ==
    \/ \E s \in Setters : Setter(s)
    \/ Server
    \/ \E i \in Pipes : client_handler(i) \/ handler_error(i)
    \/ \E c \in Clients : Client(c)

(* The server's threads are scheduled; nobody else owes a step, and the    *)
(* system owes no failure.                                                 *)
Fairness ==
    /\ WF_vars(Server)
    /\ \A i \in Pipes : WF_vars(client_handler(i))

Spec == Init /\ [][Next]_vars
FairSpec == Spec /\ Fairness

-----------------------------------------------------------------------------
(* Properties.                                                             *)

Tokens == Clients \X (0..MaxRequests)

(***************************************************************************)
(* Every variable has its type, and a handler that serves has the          *)
(* data_handler it calls, though one may be set to NULL at any time before *)
(* the thread starts.                                                      *)
(***************************************************************************)
TypeOK ==
    /\ server_pc \in {"idle", "start", "create", "connect", "blocked", "spawn"}
    /\ is_started \in BOOLEAN /\ data_handler \in BOOLEAN
    /\ server_error \in {"NONE", "CreateNamedPipe_FAILED", "CreateThread_FAILED",
                         "DataHandler_IS_NULL", "SERVER_IS_RUNNING"}
    /\ buffer_size \in BufferSizes
    /\ setter_pc \in [Setters -> {"idle", "data_handler", "buffer_size"}]
    /\ sets \in 0..MaxSets /\ late_sets \in [Setters -> Nat]
    /\ overlapped \subseteq Setters
    /\ started_with \in [size : BufferSizes, handler : BOOLEAN]
    /\ last_pipe \in 0..MaxPipes
    /\ pipe_state \in [Pipes -> {"none", "listening", "connected", "broken", "closed"}]
    /\ client_of \in [Pipes -> Clients \cup {Nobody}]
    /\ pipe_data \in [Pipes -> [size : BufferSizes \cup {0}, handler : BOOLEAN]]
    /\ thread_pc \in [Pipes -> {"none", "start", "read", "handle", "write", "close",
                                "done", "returned"}]
    /\ failed \subseteq Pipes
    /\ request \in [Pipes -> Seq(Tokens)] /\ reply_buffer \in [Pipes -> Seq(Tokens)]
    /\ requests \in [Pipes -> Seq(Tokens)] /\ replies \in [Pipes -> Seq(Tokens)]
    /\ client_pc \in [Clients -> {"new", "wait", "mode", "open", "writing", "failed",
                                  "gone"}]
    /\ client_error \in [Clients -> {"NONE", "CANT_OPEN_PIPE", "WaitNamedPipe_TIMEOUTED",
                            "SetNamedPipeHandleState_FAILED", "WriteFile_FAILED",
                            "NOT_ALL_BYTES_WRITTEN",
                            "PIPE_IS_NOT_OPEN"}]
    /\ asked \in [Clients -> 0..MaxRequests] /\ emptied \subseteq Clients
    /\ got \in [Clients -> Seq(Tokens)]
    /\ \A i \in Pipes : thread_pc[i] = "handle" => pipe_data[i].handler

(* The bytes of answers each client has read or will find in its pipe.     *)
stream ==
    [c \in Clients |->
        IF \E i \in Pipes : client_of[i] = c
        THEN got[c] \o replies[CHOOSE i \in Pipes : client_of[i] = c]
        ELSE got[c]]

(* A client is served until it goes, or is hung up on after a failed call. *)
here ==
    [c \in Clients |->
        /\ client_pc[c] # "gone"
        /\ \A i \in failed : client_of[i] = c => pipe_state[i] # "closed"]

Session == INSTANCE PipeSession WITH here <- here, stream <- stream

(***************************************************************************)
(* The pipe implements PipeSession: a client reads answers to its own      *)
(* requests only, in the order it asked, and loses none while it stays and *)
(* is not hung up on after a failed call, however the handler threads      *)
(* interleave, requests coalesce and replies are split or sent again.      *)
(***************************************************************************)
AnswersAreASession == Session!Spec

(***************************************************************************)
(* The server hangs up only on a client that is gone or has made an empty  *)
(* write, or after the system has refused it a call for that client: on no *)
(* other, not even on one that connects before ConnectNamedPipe is called. *)
(***************************************************************************)
NeverHangsUpFirst ==
    \A i \in Pipes : pipe_state[i] = "closed" /\ client_of[i] # Nobody
                         => \/ client_pc[client_of[i]] = "gone"
                            \/ client_of[i] \in emptied
                            \/ i \in failed

(***************************************************************************)
(* After is_started is set, the configuration is assigned once at most by  *)
(* each thread that was inside a set_ function at that moment, and by no   *)
(* other; if there was none, every handler is given the configuration the  *)
(* server started with.  (That may lack the data_handler that was tested   *)
(* before.)                                                                *)
(***************************************************************************)
ConfigurationIsFixed ==
    is_started =>
        /\ \A s \in Setters : late_sets[s] <= IF s \in overlapped THEN 1 ELSE 0
        /\ overlapped = {} =>
               \A i \in Pipes : thread_pc[i] # "none" => pipe_data[i] = started_with

(***************************************************************************)
(* Requests that have reached a serving handler are read while their       *)
(* client stays and makes no empty write and the system refuses nothing,   *)
(* unless the handler waits for ever to write a reply into a pipe that the *)
(* client has left full: it may itself be waiting for room for its next    *)
(* request, each for the other.                                            *)
(***************************************************************************)
Serving(i) == thread_pc[i] \in {"read", "handle", "write"}
Stuck(i) ==
    /\ pipe_state[i] # "broken"
    /\ thread_pc[i] = "write" /\ Len(replies[i]) + Len(reply_buffer[i]) > Capacity

RequestsAreRead ==
    \A i \in Pipes :
        \/ (Serving(i) /\ requests[i] # <<>>)
               ~> \/ requests[i] = <<>> \/ pipe_state[i] # "connected"
                  \/ i \in failed \/ client_of[i] \in emptied
        \/ <>[]Stuck(i)

(* The thread and the pipe of a client that is gone are released.          *)
GoneIsReleased ==
    \A i \in Pipes : (Serving(i) /\ pipe_state[i] = "broken") ~> (pipe_state[i] = "closed")

=============================================================================
