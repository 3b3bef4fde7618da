--------------------------- MODULE NamedPipeProofs ---------------------------
(***************************************************************************)
(* Theorems about NamedPipe, for any number of clients, instances and      *)
(* requests: its types, ConfigurationIsFixed and NeverHangsUpFirst, and    *)
(* that it implements PipeSession.  The refinement rests on an order: what *)
(* has been sent to a client is no newer than the reply buffer, the reply  *)
(* buffer no newer than the request being handled, and that no newer than  *)
(* the requests that wait.                                                 *)
(***************************************************************************)
EXTENDS NamedPipe, SequenceTheorems, TLAPS

-----------------------------------------------------------------------------
(* The elements of a sequence.                                             *)
Elems(s) == {s[k] : k \in 1..Len(s)}

LEMMA ElemsOfEmpty == Elems(<<>>) = {}
BY DEF Elems

LEMMA ElemsOfConcat ==
    ASSUME NEW S, NEW s \in Seq(S), NEW t \in Seq(S)
    PROVE  /\ s \o t \in Seq(S)
           /\ Elems(s \o t) = Elems(s) \cup Elems(t)
<1>1. /\ s \o t \in Seq(S) /\ Len(s \o t) = Len(s) + Len(t)
      /\ Len(s) \in Nat /\ Len(t) \in Nat
      /\ \A k \in 1..(Len(s) + Len(t)) :
             (s \o t)[k] = IF k <= Len(s) THEN s[k] ELSE t[k - Len(s)]
    BY ConcatProperties
<1>2. ASSUME NEW x \in Elems(s \o t) PROVE x \in Elems(s) \cup Elems(t)
    <2>1. PICK k \in 1..(Len(s) + Len(t)) : x = (s \o t)[k]
        BY <1>1 DEF Elems
    <2>2. CASE k <= Len(s)
        <3>1. k \in 1..Len(s) /\ x = s[k]
            BY <1>1, <2>1, <2>2
        <3> QED BY <3>1 DEF Elems
    <2>3. CASE ~ (k <= Len(s))
        <3>1. k - Len(s) \in 1..Len(t) /\ x = t[k - Len(s)]
            BY <1>1, <2>1, <2>3
        <3> QED BY <3>1 DEF Elems
    <2> QED BY <2>2, <2>3
<1>3. ASSUME NEW x \in Elems(s) PROVE x \in Elems(s \o t)
    <2>1. PICK k \in 1..Len(s) : x = s[k]
        BY DEF Elems
    <2>2. k \in 1..Len(s \o t) /\ (s \o t)[k] = x
        BY <1>1, <2>1
    <2> QED BY <2>2 DEF Elems
<1>4. ASSUME NEW x \in Elems(t) PROVE x \in Elems(s \o t)
    <2>1. PICK k \in 1..Len(t) : x = t[k]
        BY DEF Elems
    <2>2. k + Len(s) \in 1..Len(s \o t) /\ (s \o t)[k + Len(s)] = x
        BY <1>1, <2>1
    <2> QED BY <2>2 DEF Elems
<1> QED BY <1>1, <1>2, <1>3, <1>4

LEMMA ElemsOfAppend ==
    ASSUME NEW S, NEW s \in Seq(S), NEW x \in S
    PROVE  /\ Append(s, x) \in Seq(S)
           /\ Elems(Append(s, x)) = Elems(s) \cup {x}
<1> DEFINE one == <<x>>
<1>1. Append(s, x) = s \o one
    BY AppendIsConcat
<1>2. one \in Seq(S) /\ Len(one) = 1 /\ one[1] = x
    OBVIOUS
<1> HIDE DEF one
<1>3. Elems(one) = {x}
    BY <1>2 DEF Elems
<1>4. s \o one \in Seq(S) /\ Elems(s \o one) = Elems(s) \cup Elems(one)
    BY <1>2, ElemsOfConcat
<1> QED BY <1>1, <1>3, <1>4

(* A sequence cut in two.                                                  *)
LEMMA ElemsOfCut ==
    ASSUME NEW S, NEW s \in Seq(S), NEW n \in 0..Len(s)
    PROVE  /\ SubSeq(s, 1, n) \in Seq(S) /\ SubSeq(s, n + 1, Len(s)) \in Seq(S)
           /\ SubSeq(s, 1, n) \o SubSeq(s, n + 1, Len(s)) = s
           /\ Len(SubSeq(s, 1, n)) = n
           /\ Len(SubSeq(s, n + 1, Len(s))) = Len(s) - n
           /\ \A k \in 1..n : SubSeq(s, 1, n)[k] = s[k]
           /\ \A k \in 1..(Len(s) - n) : SubSeq(s, n + 1, Len(s))[k] = s[k + n]
<1> DEFINE a == SubSeq(s, 1, n)
           b == SubSeq(s, n + 1, Len(s))
<1>0. Len(s) \in Nat /\ n \in Nat /\ \A k \in 1..Len(s) : s[k] \in S
    OBVIOUS
<1>1. a \in Seq(S) /\ Len(a) = n /\ \A k \in 1..n : a[k] = s[k]
    <2>1. \A k \in 1..n : s[k] \in S
        BY <1>0
    <2>2. /\ a \in Seq(S) /\ Len(a) = (IF 1 <= n THEN n - 1 + 1 ELSE 0)
          /\ \A k \in 1..(n - 1 + 1) : a[k] = s[1 + k - 1]
        BY <1>0, <2>1, SubSeqProperties
    <2> HIDE DEF a
    <2>3. \A k \in 1..n : 1 + k - 1 = k
        BY <1>0
    <2> QED BY <1>0, <2>2, <2>3
<1>2. b \in Seq(S) /\ Len(b) = Len(s) - n /\ \A k \in 1..(Len(s) - n) : b[k] = s[k + n]
    <2>1. \A k \in (n + 1)..Len(s) : s[k] \in S
        BY <1>0
    <2>2. /\ b \in Seq(S) /\ Len(b) = (IF n + 1 <= Len(s) THEN Len(s) - (n + 1) + 1 ELSE 0)
          /\ \A k \in 1..(Len(s) - (n + 1) + 1) : b[k] = s[(n + 1) + k - 1]
        BY <1>0, <2>1, SubSeqProperties
    <2> HIDE DEF b
    <2>3. \A k \in 1..(Len(s) - n) : (n + 1) + k - 1 = k + n
        BY <1>0
    <2>4. Len(s) - (n + 1) + 1 = Len(s) - n
        BY <1>0
    <2>5. Len(b) = Len(s) - n
        BY <1>0, <2>2
    <2>6. \A k \in 1..(Len(s) - n) : b[k] = s[(n + 1) + k - 1]
        BY <2>2, <2>4
    <2> QED BY <2>2, <2>3, <2>5, <2>6
<1> HIDE DEF a, b
<1>3. /\ a \o b \in Seq(S) /\ Len(a \o b) = Len(s)
      /\ \A k \in 1..Len(s) : (a \o b)[k] = s[k]
    <2>1. /\ a \o b \in Seq(S) /\ Len(a \o b) = Len(a) + Len(b)
          /\ \A k \in 1..(Len(a) + Len(b)) :
                 (a \o b)[k] = IF k <= Len(a) THEN a[k] ELSE b[k - Len(a)]
        <3>1. a \in Seq(S) /\ b \in Seq(S)
            BY <1>1, <1>2
        <3> QED BY <3>1, ConcatProperties
    <2>2. Len(a) + Len(b) = Len(s)
        BY <1>0, <1>1, <1>2
    <2>3. \A k \in 1..Len(s) : (a \o b)[k] = s[k]
        <3> TAKE k \in 1..Len(s)
        <3>1. (a \o b)[k] = IF k <= n THEN a[k] ELSE b[k - n]
            BY <1>1, <2>1, <2>2
        <3>2. CASE k <= n
            BY <1>0, <1>1, <3>1, <3>2
        <3>3. CASE ~ (k <= n)
            <4>1. k - n \in 1..(Len(s) - n) /\ (k - n) + n = k
                BY <1>0, <3>3
            <4> QED BY <1>2, <3>1, <3>3, <4>1
        <3> QED BY <3>2, <3>3
    <2> QED BY <2>1, <2>2, <2>3
<1>4. a \o b = s
    BY <1>3, SeqEqual
<1> QED BY <1>1, <1>2, <1>4 DEF a, b

LEMMA ElemsOfParts ==
    ASSUME NEW S, NEW s \in Seq(S), NEW n \in 0..Len(s)
    PROVE  Elems(s) = Elems(SubSeq(s, 1, n)) \cup Elems(SubSeq(s, n + 1, Len(s)))
<1>1. /\ SubSeq(s, 1, n) \in Seq(S) /\ SubSeq(s, n + 1, Len(s)) \in Seq(S)
      /\ SubSeq(s, 1, n) \o SubSeq(s, n + 1, Len(s)) = s
    BY ElemsOfCut
<1> QED BY <1>1, ElemsOfConcat

(* The same byte n times.                                                  *)
Repeated(x, n) == [k \in 1..n |-> x]

LEMMA ElemsOfRepeated ==
    ASSUME NEW S, NEW x \in S, NEW n \in Nat
    PROVE  /\ Repeated(x, n) \in Seq(S) /\ Len(Repeated(x, n)) = n
           /\ Elems(Repeated(x, n)) \subseteq {x}
<1>1. Repeated(x, n) \in [1..n -> S] /\ \A k \in 1..n : Repeated(x, n)[k] = x
    BY DEF Repeated
<1> HIDE DEF Repeated
<1>2. Repeated(x, n) \in Seq(S) /\ Len(Repeated(x, n)) = n
    BY <1>1
<1> QED BY <1>1, <1>2 DEF Elems

-----------------------------------------------------------------------------
(* What makes the properties inductive.                                    *)

(* Where create_server is, and the instance it made last.                  *)
ServerInv ==
    /\ server_pc \in {"connect", "blocked", "spawn"} =>
           /\ last_pipe \in Pipes /\ thread_pc[last_pipe] = "none"
           /\ pipe_state[last_pipe] \in {"listening", "connected", "broken"}
    /\ server_pc = "spawn" => pipe_state[last_pipe] # "listening"
    /\ \A i \in Pipes : i > last_pipe => pipe_state[i] = "none"

(* An instance that may be closed to its client.                           *)
Over(i) == client_pc[client_of[i]] = "gone" \/ client_of[i] \in emptied \/ i \in failed

(* A handler has a client that was there, and a handler to call.           *)
ThreadInv ==
    \A i \in Pipes :
        /\ thread_pc[i] \in {"start", "read", "handle", "write", "close", "returned"} =>
               pipe_state[i] \in {"connected", "broken"}
        /\ thread_pc[i] \in {"read", "handle", "write"} => pipe_data[i].handler
        /\ thread_pc[i] = "handle" => request[i] # <<>>
        /\ thread_pc[i] = "close" => Over(i)

(* An instance no client has come to is empty.                             *)
FreshInv ==
    \A i \in Pipes :
        pipe_state[i] \in {"none", "listening"} =>
            /\ client_of[i] = Nobody /\ thread_pc[i] = "none"
            /\ reply_buffer[i] = <<>> /\ requests[i] = <<>> /\ replies[i] = <<>>

(* A client has one instance, from its CreateFile on.                      *)
ClientInv ==
    /\ \A i \in Pipes :
          /\ pipe_state[i] = "connected" =>
                 client_of[i] \in Clients /\ client_pc[client_of[i]] # "gone"
          /\ pipe_state[i] = "broken" =>
                 client_of[i] \in Clients /\ client_pc[client_of[i]] = "gone"
    /\ \A i, j \in Pipes : client_of[i] = client_of[j] /\ client_of[i] # Nobody => i = j
    /\ \A c \in Clients : client_pc[c] \in {"new", "wait"} =>
                              got[c] = <<>> /\ \A i \in Pipes : client_of[i] # c

(* The request a handler is about to answer, and what has been answered.   *)
Pending(i) == IF thread_pc[i] = "handle" THEN request[i] ELSE <<>>
Sent(i) == Elems(got[client_of[i]]) \cup Elems(replies[i])

NotAfter(older, newer) == \A x \in older, y \in newer : y[2] # 0 => x[2] <= y[2]

Asked(c, tokens) == \A x \in tokens : x[1] = c /\ x[2] \in 1..asked[c]

Uniform(c, reply) ==
    \E r \in 1..asked[c], n \in 1..MaxReply : reply = Repeated(<<c, r>>, n)

Sorted(s) == \A k, l \in 1..Len(s) : k <= l /\ s[l][2] # 0 => s[k][2] <= s[l][2]

(* The order of all that is on its way between a client and its handler.   *)
DataInv(i) ==
    client_of[i] \in Clients =>
        LET c == client_of[i]
        IN  /\ Asked(c, Sent(i))
            /\ reply_buffer[i] = <<>> \/ Uniform(c, reply_buffer[i])
            /\ Asked(c, Elems(Pending(i)))
            /\ \A x \in Elems(requests[i]) :
                   x[1] = c /\ x[2] \in 0..asked[c] /\ (x[2] = 0 => c \in emptied)
            /\ NotAfter(Sent(i), Elems(reply_buffer[i]))
            /\ NotAfter(Sent(i) \cup Elems(reply_buffer[i]), Elems(Pending(i)))
            /\ NotAfter(Sent(i) \cup Elems(reply_buffer[i]) \cup Elems(Pending(i)),
                        Elems(requests[i]))
            /\ Sorted(requests[i])

(* What is_started says of the threads, of the calls that overlap it and   *)
(* of the configuration.                                                   *)
LateInv ==
    /\ server_pc \notin {"idle", "start"} => is_started
    /\ ~ is_started => /\ \A i \in Pipes : thread_pc[i] = "none"
                       /\ \A s \in Setters : late_sets[s] = 0
    /\ is_started =>
           /\ \A s \in Setters :
                  /\ setter_pc[s] # "idle" => s \in overlapped /\ late_sets[s] = 0
                  /\ late_sets[s] = 0 \/ (late_sets[s] = 1 /\ s \in overlapped)
           /\ overlapped = {} =>
                  /\ Configuration = started_with
                  /\ \A i \in Pipes : thread_pc[i] # "none" => pipe_data[i] = started_with

ControlInv == ServerInv /\ ThreadInv /\ FreshInv /\ ClientInv /\ NeverHangsUpFirst
PipeInv == TypeOK /\ LateInv /\ ControlInv /\ \A i \in Pipes : DataInv(i)

-----------------------------------------------------------------------------
LEMMA PipeInvInit == Init => PipeInv
<1> SUFFICES ASSUME Init PROVE PipeInv
    OBVIOUS
<1>0. /\ <<>> \in Seq(Tokens) /\ 0 \in 0..MaxSets /\ 0 \in 0..MaxPipes /\ 0 \in 0..MaxRequests
      /\ \A i \in Pipes : i > 0
    BY PipeAssumption DEF Pipes
<1>1. TypeOK
    BY <1>0 DEF Init, TypeOK, Configuration
<1>2. LateInv
    BY DEF Init, LateInv
<1>3. ServerInv /\ ThreadInv /\ FreshInv
    BY DEF Init, ServerInv, ThreadInv, FreshInv
<1>4. ClientInv /\ NeverHangsUpFirst
    BY PipeAssumption DEF Init, ClientInv, NeverHangsUpFirst
<1>5. \A i \in Pipes : DataInv(i)
    BY PipeAssumption DEF Init, DataInv
<1> QED BY <1>1, <1>2, <1>3, <1>4, <1>5 DEF PipeInv, ControlInv

(* What types say of one instance and one client.                          *)
LEMMA PipeTypes ==
    ASSUME TypeOK, NEW i \in Pipes
    PROVE  /\ request[i] \in Seq(Tokens) /\ reply_buffer[i] \in Seq(Tokens)
           /\ requests[i] \in Seq(Tokens) /\ replies[i] \in Seq(Tokens)
           /\ pipe_data[i].size \in Nat /\ pipe_data[i].handler \in BOOLEAN
           /\ client_of[i] \in Clients \cup {Nobody}
<1>1. pipe_data[i] \in [size : BufferSizes \cup {0}, handler : BOOLEAN]
    BY DEF TypeOK
<1>2. pipe_data[i].size \in Nat /\ pipe_data[i].handler \in BOOLEAN
    BY <1>1, PipeAssumption
<1> QED BY <1>2 DEF TypeOK

(* What a read may return is at the front of what has arrived.             *)
LEMMA ArrivedBounds ==
    ASSUME TypeOK, NEW i \in Pipes, NEW n \in Arrived(i)
    PROVE  /\ n \in 1..Len(requests[i]) /\ n \in 0..Len(requests[i])
           /\ \A k \in 1..n : requests[i][k][2] # 0
<1>1. requests[i] \in Seq(Tokens) /\ Len(requests[i]) \in Nat
    BY PipeTypes
<1> QED BY <1>1 DEF Arrived, Empty

LEMMA PipeTypeStep == PipeInv /\ [Next]_vars => TypeOK'
<1> SUFFICES ASSUME PipeInv, [Next]_vars PROVE TypeOK'
    OBVIOUS
<1> USE DEF server_vars, config_vars, start_vars, pipe_vars, thread_vars, data_vars, client_vars
<1>0. TypeOK /\ ServerInv /\ ThreadInv /\ LateInv /\ <<>> \in Seq(Tokens)
    BY DEF PipeInv, ControlInv
<1> DEFINE PipeStates   == {"none", "listening", "connected", "broken", "closed"}
           ThreadStates == {"none", "start", "read", "handle", "write", "close",
                            "done", "returned"}
           ClientStates == {"new", "wait", "mode", "open", "writing", "failed", "gone"}
           Errors       == {"NONE", "CANT_OPEN_PIPE", "WaitNamedPipe_TIMEOUTED",
                            "SetNamedPipeHandleState_FAILED", "WriteFile_FAILED",
                            "NOT_ALL_BYTES_WRITTEN", "PIPE_IS_NOT_OPEN"}
<1>a. /\ \A i \in Pipes : i \in Nat /\ i <= MaxPipes
      /\ MaxSets \in Nat /\ MaxPipes \in Nat /\ MaxRequests \in Nat
    BY PipeAssumption DEF Pipes
<1>1. ASSUME NEW s \in Setters, SetCheck(s) PROVE TypeOK'
    <2>1. setter_pc' \in [Setters -> {"idle", "data_handler", "buffer_size"}]
        <3>1. \/ \E member \in {"data_handler", "buffer_size"} :
                     setter_pc' = [setter_pc EXCEPT ![s] = member]
              \/ UNCHANGED setter_pc
            BY <1>1 DEF SetCheck
        <3>2. setter_pc \in [Setters -> {"idle", "data_handler", "buffer_size"}]
            BY <1>0 DEF TypeOK
        <3> QED BY <3>1, <3>2
    <2>2. sets' \in 0..MaxSets
        BY <1>0, <1>1, <1>a DEF SetCheck, TypeOK
    <2> QED BY <1>0, <1>1, <2>1, <2>2 DEF SetCheck, TypeOK
<1>2. ASSUME NEW s \in Setters, SetAssign(s) PROVE TypeOK'
    BY <1>0, <1>2, <1>a DEF SetAssign, TypeOK
<1>3. ASSUME CreateServer \/ StartServer PROVE TypeOK'
    <2>1. overlapped' \subseteq Setters /\ started_with' \in [size : BufferSizes, handler : BOOLEAN]
        BY <1>0, <1>3 DEF CreateServer, StartServer, Configuration, TypeOK
    <2> QED BY <1>0, <1>3, <2>1 DEF CreateServer, StartServer, TypeOK
<1>4. ASSUME CreateNamedPipe PROVE TypeOK'
    <2>1. last_pipe \in 0..MaxPipes /\ last_pipe < MaxPipes
        BY <1>0, <1>4 DEF CreateNamedPipe, TypeOK
    <2>2. last_pipe' \in 0..MaxPipes
        BY <1>4, <1>a, <2>1 DEF CreateNamedPipe
    <2>3. pipe_state' \in [Pipes -> PipeStates]
        BY <1>0, <1>4 DEF CreateNamedPipe, TypeOK
    <2> QED BY <1>0, <1>4, <2>2, <2>3 DEF CreateNamedPipe, Return, TypeOK
<1>5. ASSUME ConnectNamedPipe PROVE TypeOK'
    <2>1. failed' \subseteq Pipes
        BY <1>0, <1>5 DEF ConnectNamedPipe, Abandon, ServerInv, TypeOK
    <2> QED BY <1>0, <1>5, <2>1 DEF ConnectNamedPipe, Abandon, TypeOK
<1>6. ASSUME Connected PROVE TypeOK'
    <2>1. failed' \subseteq Pipes
        BY <1>0, <1>6 DEF Connected, Abandon, ServerInv, TypeOK
    <2> QED BY <1>0, <1>6, <2>1 DEF Connected, Abandon, TypeOK
<1>7. ASSUME Spawn PROVE TypeOK'
    <2>1. [size |-> buffer_size, handler |-> data_handler] \in
              [size : BufferSizes \cup {0}, handler : BOOLEAN]
        BY <1>0 DEF TypeOK
    <2> DEFINE Data == [size : BufferSizes \cup {0}, handler : BOOLEAN]
               data == [size |-> buffer_size, handler |-> data_handler]
    <2> HIDE DEF Data, data
    <2>4. pipe_data \in [Pipes -> Data] /\ data \in Data
        BY <1>0, <2>1 DEF TypeOK, Data, data
    <2>5. pipe_data' = [pipe_data EXCEPT ![last_pipe] = data] \/ pipe_data' = pipe_data
        BY <1>7 DEF Spawn, Configuration, data
    <2>6. pipe_data' \in [Pipes -> Data]
        BY <2>4, <2>5
    <2>7. thread_pc' \in [Pipes -> ThreadStates]
        BY <1>0, <1>7 DEF Spawn, TypeOK
    <2>2. /\ pipe_data' \in [Pipes -> [size : BufferSizes \cup {0}, handler : BOOLEAN]]
          /\ thread_pc' \in [Pipes -> {"none", "start", "read", "handle", "write", "close",
                                       "done", "returned"}]
        BY <2>6, <2>7 DEF Data
    <2>3. \A i \in Pipes : thread_pc'[i] = "handle" => pipe_data'[i].handler
        BY <1>0, <1>7 DEF Spawn, Return, TypeOK, ServerInv
    <2> QED BY <1>0, <1>7, <2>2, <2>3 DEF Spawn, Return, TypeOK
<1>8. ASSUME NEW i \in Pipes, HandlerStart(i) PROVE TypeOK'
    BY <1>0, <1>8 DEF HandlerStart, TypeOK
<1>9. ASSUME NEW i \in Pipes, Read(i) PROVE TypeOK'
    <2>1. CASE Readable(i) /\ \E n \in Arrived(i) :
                   /\ request'  = [request  EXCEPT ![i] = SubSeq(requests[i], 1, n)]
                   /\ requests' = [requests EXCEPT ![i] = SubSeq(@, n + 1, Len(@))]
        <3>1. PICK n \in Arrived(i) :
                   /\ request'  = [request  EXCEPT ![i] = SubSeq(requests[i], 1, n)]
                   /\ requests' = [requests EXCEPT ![i] = SubSeq(@, n + 1, Len(@))]
            BY <2>1
        <3>2. /\ SubSeq(requests[i], 1, n) \in Seq(Tokens)
              /\ SubSeq(requests[i], n + 1, Len(requests[i])) \in Seq(Tokens)
            BY <1>0, ArrivedBounds, PipeTypes, ElemsOfCut
        <3>3. request' \in [Pipes -> Seq(Tokens)] /\ requests' \in [Pipes -> Seq(Tokens)]
            BY <1>0, <3>1, <3>2 DEF TypeOK
        <3> QED BY <1>0, <1>9, <3>3 DEF Read, TypeOK, ThreadInv, after_failed_read
    <2>2. CASE Ended(i) /\ UNCHANGED request /\ thread_pc' = [thread_pc EXCEPT ![i] = "close"]
               /\ requests' = [requests EXCEPT ![i] = IF @ = <<>> THEN @ ELSE Tail(@)]
        <3>1. requests' \in [Pipes -> Seq(Tokens)]
            BY <1>0, <2>2 DEF TypeOK
        <3> QED BY <1>0, <1>9, <2>2, <3>1 DEF Read, TypeOK
    <2> QED BY <1>9, <2>1, <2>2 DEF Read, after_failed_read
<1>9a. ASSUME NEW i \in Pipes, ReadError(i) PROVE TypeOK'
    BY <1>0, <1>9a DEF ReadError, SystemFails, after_failed_read, TypeOK
<1>10. ASSUME NEW i \in Pipes, Handle(i) PROVE TypeOK'
    <2> DEFINE answered == request[i][Len(request[i])]
    <2>1. answered \in Tokens
        BY <1>0, <1>10, PipeTypes DEF Handle, ThreadInv
    <2> HIDE DEF answered
    <2>2. \A n \in 0..MaxReply : Repeated(answered, n) \in Seq(Tokens)
        BY <2>1, ElemsOfRepeated, PipeAssumption
    <2>3. \/ \E n \in 0..MaxReply : reply_buffer' = [reply_buffer EXCEPT ![i] = Repeated(answered, n)]
          \/ UNCHANGED reply_buffer
        BY <1>10 DEF Handle, Repeated, answered, reply_buffer_of
    <2>4. reply_buffer' \in [Pipes -> Seq(Tokens)]
        BY <1>0, <2>2, <2>3 DEF TypeOK
    <2> QED BY <1>0, <1>10, <2>4 DEF Handle, TypeOK
<1>11. ASSUME NEW i \in Pipes, Write(i) PROVE TypeOK'
    <2>1. replies[i] \o reply_buffer[i] \in Seq(Tokens)
        BY <1>0, PipeTypes
    <2>2. replies' \in [Pipes -> Seq(Tokens)]
        BY <1>0, <1>11, <2>1 DEF Write, reply_buffer_of, TypeOK
    <2> QED BY <1>0, <1>11, <2>2 DEF Write, reply_buffer_of, TypeOK
<1>11a. ASSUME NEW i \in Pipes, WriteError(i) PROVE TypeOK'
    <2>1. PICK n \in 0..(Len(reply_buffer[i]) - 1) :
              replies' = [replies EXCEPT ![i] = @ \o SubSeq(reply_buffer[i], 1, n)]
        BY <1>11a DEF WriteError, reply_buffer_of
    <2>2. reply_buffer[i] \in Seq(Tokens) /\ replies[i] \in Seq(Tokens) /\ n \in 0..Len(reply_buffer[i])
        BY <1>0, PipeTypes
    <2>3. SubSeq(reply_buffer[i], 1, n) \in Seq(Tokens)
        BY <2>2, ElemsOfCut
    <2>4. replies[i] \o SubSeq(reply_buffer[i], 1, n) \in Seq(Tokens)
        BY <2>2, <2>3, ElemsOfConcat
    <2>5. replies' \in [Pipes -> Seq(Tokens)]
        BY <1>0, <2>1, <2>4 DEF TypeOK
    <2> QED BY <1>0, <1>11a, <2>5 DEF WriteError, SystemFails, TypeOK
<1>12. ASSUME NEW i \in Pipes, Close(i) \/ FlushError(i) PROVE TypeOK'
    <2>1. /\ pipe_state' \in [Pipes -> PipeStates] /\ thread_pc' \in [Pipes -> ThreadStates]
          /\ failed' \subseteq Pipes
          /\ \A j \in Pipes : thread_pc'[j] = "handle" => thread_pc[j] = "handle"
        BY <1>0, <1>12 DEF Close, FlushError, Disconnect, SystemFails, TypeOK
    <2>2. replies' \in [Pipes -> Seq(Tokens)] /\ requests' \in [Pipes -> Seq(Tokens)]
        <3>1. /\ replies'  = [replies  EXCEPT ![i] = <<>>]
              /\ requests' = [requests EXCEPT ![i] = <<>>]
            BY <1>12 DEF Close, FlushError, Disconnect
        <3>2. replies \in [Pipes -> Seq(Tokens)] /\ requests \in [Pipes -> Seq(Tokens)]
            BY <1>0 DEF TypeOK
        <3> QED BY <1>0, <3>1, <3>2
    <2> QED BY <1>0, <1>12, <2>1, <2>2 DEF Close, FlushError, Disconnect, TypeOK
<1>13. ASSUME NEW c \in Clients, OpenPipe(c) PROVE TypeOK'
    <2>1. pipe_state' \in [Pipes -> PipeStates] /\ client_of' \in [Pipes -> Clients \cup {Nobody}]
        <3>1. \/ UNCHANGED pipe_vars
              \/ \E i \in Pipes : /\ pipe_state' = [pipe_state EXCEPT ![i] = "connected"]
                                  /\ client_of'  = [client_of EXCEPT ![i] = c]
            BY <1>13 DEF OpenPipe, Listening
        <3>2. pipe_state \in [Pipes -> PipeStates] /\ client_of \in [Pipes -> Clients \cup {Nobody}]
            BY <1>0 DEF TypeOK
        <3> QED BY <3>1, <3>2
    <2>2. client_pc' \in [Clients -> ClientStates] /\ client_error' \in [Clients -> Errors]
        BY <1>0, <1>13 DEF OpenPipe, Fail, TypeOK
    <2> QED BY <1>0, <1>13, <2>1, <2>2 DEF OpenPipe, TypeOK
<1>14. ASSUME NEW c \in Clients, WaitPipe(c) \/ SetMode(c) \/ ClientRefused(c) PROVE TypeOK'
    <2>1. client_pc' \in [Clients -> ClientStates]
        <3>1. PICK where \in ClientStates :
                  client_pc' = [client_pc EXCEPT ![c] = where] \/ UNCHANGED client_pc
            BY <1>14 DEF WaitPipe, SetMode, ClientRefused, Fail
        <3>2. client_pc \in [Clients -> ClientStates]
            BY <1>0 DEF TypeOK
        <3> HIDE DEF ClientStates
        <3> QED BY <3>1, <3>2
    <2>2. client_error' \in [Clients -> Errors]
        <3>1. PICK e \in Errors : client_error' = [client_error EXCEPT ![c] = e] \/ UNCHANGED client_error
            BY <1>14 DEF WaitPipe, SetMode, ClientRefused, Fail
        <3>2. client_error \in [Clients -> Errors]
            BY <1>0 DEF TypeOK
        <3> HIDE DEF Errors
        <3> QED BY <3>1, <3>2
    <2> QED BY <1>0, <1>14, <2>1, <2>2 DEF WaitPipe, SetMode, ClientRefused, TypeOK
<1>14a. ASSUME NEW c \in Clients, NEW i \in Pipes, ClientWaits(c, i) PROVE TypeOK'
    BY <1>0, <1>14a DEF ClientWaits, TypeOK
<1>15. ASSUME NEW c \in Clients, NEW i \in Pipes, ClientWrite(c, i) PROVE TypeOK'
    <2>1. asked[c] \in 0..MaxRequests
        BY <1>0 DEF TypeOK
    <2>2. <<c, 0>> \in Tokens /\ (asked[c] < MaxRequests => <<c, asked[c] + 1>> \in Tokens)
        BY <1>a, <2>1 DEF Tokens
    <2>3. /\ Append(requests[i], <<c, 0>>) \in Seq(Tokens)
          /\ asked[c] < MaxRequests => Append(requests[i], <<c, asked[c] + 1>>) \in Seq(Tokens)
        BY <1>0, <2>2, PipeTypes, ElemsOfAppend
    <2>4. requests' \in [Pipes -> Seq(Tokens)]
        BY <1>0, <1>15, <2>3 DEF ClientWrite, TypeOK
    <2>5. asked' \in [Clients -> 0..MaxRequests]
        <3>1. UNCHANGED asked \/ (asked[c] < MaxRequests /\ asked' = [asked EXCEPT ![c] = @ + 1])
            BY <1>15 DEF ClientWrite
        <3>2. asked[c] < MaxRequests => asked[c] + 1 \in 0..MaxRequests
            BY <1>a, <2>1
        <3> QED BY <1>0, <3>1, <3>2 DEF TypeOK
    <2>6. client_error' \in [Clients -> Errors] /\ emptied' \subseteq Clients
        <3>1. PICK e \in Errors : client_error' = [client_error EXCEPT ![c] = e]
            BY <1>15 DEF ClientWrite
        <3>2. client_error \in [Clients -> Errors] /\ emptied' \subseteq Clients
            BY <1>0, <1>15 DEF ClientWrite, TypeOK
        <3> HIDE DEF Errors
        <3> QED BY <3>1, <3>2
    <2>7. client_pc' \in [Clients -> ClientStates]
        BY <1>0, <1>15 DEF ClientWrite, TypeOK
    <2> QED BY <1>0, <1>15, <2>4, <2>5, <2>6, <2>7 DEF ClientWrite, TypeOK
<1>16. ASSUME NEW c \in Clients, NEW i \in Pipes, ClientRead(c, i) PROVE TypeOK'
    <2> DEFINE n == IF Len(replies[i]) < ReadSize THEN Len(replies[i]) ELSE ReadSize
    <2>1. n \in 0..Len(replies[i]) /\ replies[i] \in Seq(Tokens)
        BY <1>0, PipeTypes, PipeAssumption
    <2>2. /\ got' = [got EXCEPT ![c] = @ \o SubSeq(replies[i], 1, n)]
          /\ replies' = [replies EXCEPT ![i] = SubSeq(@, n + 1, Len(@))]
        BY <1>16 DEF ClientRead
    <2> HIDE DEF n
    <2>3. SubSeq(replies[i], 1, n) \in Seq(Tokens) /\ SubSeq(replies[i], n + 1, Len(replies[i])) \in Seq(Tokens)
        BY <2>1, ElemsOfCut
    <2>4. got[c] \o SubSeq(replies[i], 1, n) \in Seq(Tokens)
        BY <1>0, <2>3 DEF TypeOK
    <2>5. got' \in [Clients -> Seq(Tokens)] /\ replies' \in [Pipes -> Seq(Tokens)]
        BY <1>0, <2>2, <2>3, <2>4 DEF TypeOK
    <2> QED BY <1>0, <1>16, <2>5 DEF ClientRead, TypeOK
<1>17. ASSUME NEW c \in Clients, ClientExit(c) PROVE TypeOK'
    BY <1>0, <1>17 DEF ClientExit, TypeOK
<1>18. CASE UNCHANGED vars
    BY <1>0, <1>18 DEF vars, TypeOK
<1> QED BY <1>1, <1>2, <1>3, <1>4, <1>5, <1>6, <1>7, <1>8, <1>9, <1>9a, <1>10, <1>11, <1>11a,
           <1>12, <1>13, <1>14, <1>14a, <1>15, <1>16, <1>17, <1>18
       DEF Next, Setter, Server, client_handler, handler_error, Client

LEMMA LateStep == PipeInv /\ [Next]_vars => LateInv'
<1> SUFFICES ASSUME PipeInv, [Next]_vars PROVE LateInv'
    OBVIOUS
<1> USE DEF server_vars, config_vars, start_vars, pipe_vars, thread_vars, data_vars, client_vars
<1>0. TypeOK /\ LateInv /\ ServerInv
    BY DEF PipeInv, ControlInv
<1>1. ASSUME NEW s \in Setters, SetCheck(s) PROVE LateInv'
    <2>1. /\ UNCHANGED <<server_vars, start_vars, thread_vars, data_handler, buffer_size, late_sets>>
          /\ \A t \in Setters : setter_pc'[t] # "idle" /\ is_started => setter_pc[t] # "idle"
        BY <1>0, <1>1 DEF SetCheck, MaySet, TypeOK
    <2> QED BY <1>0, <2>1 DEF LateInv, Configuration
<1>2. ASSUME NEW s \in Setters, SetAssign(s) PROVE LateInv'
    <2>1. /\ UNCHANGED <<server_vars, start_vars, thread_vars>>
          /\ setter_pc[s] # "idle" /\ setter_pc'[s] = "idle"
          /\ \A t \in Setters : t # s => /\ setter_pc'[t] = setter_pc[t]
                                         /\ late_sets'[t] = late_sets[t]
          /\ ~ is_started => late_sets'[s] = late_sets[s]
          /\ is_started => late_sets'[s] = late_sets[s] + 1
        BY <1>0, <1>2 DEF SetAssign, TypeOK
    <2>2. is_started => s \in overlapped /\ late_sets'[s] = 1
        BY <1>0, <2>1 DEF LateInv
    <2> QED BY <1>0, <2>1, <2>2 DEF LateInv
<1>3. ASSUME StartServer PROVE LateInv'
    <2>1. UNCHANGED <<config_vars, thread_vars>> /\ is_started'
        BY <1>3 DEF StartServer
    <2>2. CASE is_started
        BY <1>0, <1>3, <2>1, <2>2 DEF StartServer, LateInv, Configuration
    <2>3. CASE ~ is_started
        <3>1. overlapped' = {s \in Setters : setter_pc[s] # "idle"} /\ started_with' = Configuration
            BY <1>3, <2>3 DEF StartServer
        <3> QED BY <1>0, <2>1, <2>3, <3>1 DEF LateInv, Configuration
    <2> QED BY <2>2, <2>3
<1>4. ASSUME Spawn PROVE LateInv'
    <2>1. /\ UNCHANGED <<is_started, config_vars, start_vars>> /\ is_started
          /\ last_pipe \in Pipes /\ server_pc' \in {"idle", "create"}
        BY <1>0, <1>4 DEF Spawn, Return, LateInv, ServerInv
    <2>2. \A i \in Pipes : \/ thread_pc'[i] = thread_pc[i] /\ pipe_data'[i] = pipe_data[i]
                           \/ pipe_data'[i] = Configuration
        BY <1>0, <1>4, <2>1 DEF Spawn, TypeOK
    <2> QED BY <1>0, <2>1, <2>2 DEF LateInv, Configuration
<1>5. ASSUME UNCHANGED <<config_vars, start_vars, is_started, pipe_data>>,
             server_pc' \in {"idle", "start"} \/ is_started,
             \A i \in Pipes : thread_pc[i] = "none" <=> thread_pc'[i] = "none"
      PROVE  LateInv'
    BY <1>0, <1>5 DEF LateInv, Configuration
<1>6. ASSUME NEW i \in Pipes, client_handler(i) \/ handler_error(i) PROVE LateInv'
    <2>1. UNCHANGED <<config_vars, start_vars, server_vars, pipe_data>>
        BY <1>6 DEF client_handler, handler_error, HandlerStart, Read, ReadError, Handle, Write,
                    WriteError, Close, FlushError, Disconnect
    <2>2. /\ thread_pc[i] # "none" /\ thread_pc'[i] # "none"
          /\ \A j \in Pipes : j # i => thread_pc'[j] = thread_pc[j]
        BY <1>0, <1>6 DEF client_handler, handler_error, HandlerStart, Read, ReadError, Handle, Write,
                    WriteError, Close, FlushError, Disconnect, after_failed_read, TypeOK
    <2> QED BY <1>0, <1>5, <2>1, <2>2 DEF LateInv
<1>7. ASSUME NEW c \in Clients, Client(c) PROVE LateInv'
    <2>1. UNCHANGED <<config_vars, start_vars, server_vars, thread_vars>>
        BY <1>7 DEF Client, OpenPipe, WaitPipe, SetMode, ClientRefused, ClientExit, ClientWaits,
                    ClientWrite, ClientRead
    <2> QED BY <1>0, <1>5, <2>1 DEF LateInv
<1>8. CASE CreateServer \/ CreateNamedPipe \/ ConnectNamedPipe \/ Connected
    <2>1. /\ UNCHANGED <<config_vars, start_vars, is_started, thread_vars>>
          /\ CreateServer => server_pc' \in {"idle", "start"}
        BY <1>8 DEF CreateServer, CreateNamedPipe, ConnectNamedPipe, Connected
    <2>2. ~ CreateServer => server_pc \notin {"idle", "start"}
        BY <1>8 DEF CreateNamedPipe, ConnectNamedPipe, Connected
    <2> QED BY <1>0, <1>5, <2>1, <2>2 DEF LateInv
<1>9. CASE UNCHANGED vars
    BY <1>0, <1>5, <1>9 DEF vars, LateInv
<1> QED BY <1>1, <1>2, <1>3, <1>4, <1>6, <1>7, <1>8, <1>9 DEF Next, Setter, Server

(***************************************************************************)
(* The control of server, handlers and clients.                            *)
(***************************************************************************)
LEMMA ControlStep == PipeInv /\ [Next]_vars => ControlInv'
<1> SUFFICES ASSUME PipeInv, [Next]_vars PROVE ControlInv'
    OBVIOUS
<1> USE DEF server_vars, config_vars, start_vars, pipe_vars, thread_vars, data_vars, client_vars
<1>0. /\ TypeOK /\ ServerInv /\ ThreadInv /\ FreshInv /\ ClientInv /\ NeverHangsUpFirst
      /\ \A i \in Pipes : DataInv(i)
    BY DEF PipeInv, ControlInv
<1>a. last_pipe \in Int /\ \A i \in Pipes : i \in Int
    BY <1>0, PipeAssumption DEF TypeOK, Pipes
<1>b. Nobody \notin Clients /\ \A i \in Pipes : client_of[i] \in Clients \cup {Nobody}
    BY <1>0, PipeAssumption DEF TypeOK
<1>1. ASSUME NEW s \in Setters, Setter(s) PROVE ControlInv'
    <2>1. UNCHANGED <<server_vars, pipe_vars, thread_vars, failed, data_vars, client_vars>>
        BY <1>1 DEF Setter, SetCheck, SetAssign
    <2> QED BY <1>0, <2>1 DEF ControlInv, ServerInv, ThreadInv, FreshInv, ClientInv, NeverHangsUpFirst, Over
<1>2. ASSUME CreateServer \/ StartServer PROVE ControlInv'
    <2>1. /\ UNCHANGED <<last_pipe, pipe_vars, thread_vars, failed, data_vars, client_vars>>
          /\ server_pc' \in {"idle", "start", "create"}
        BY <1>2 DEF CreateServer, StartServer
    <2> QED BY <1>0, <2>1 DEF ControlInv, ServerInv, ThreadInv, FreshInv, ClientInv, NeverHangsUpFirst, Over
<1>3. ASSUME CreateNamedPipe PROVE ControlInv'
    <2>1. UNCHANGED <<client_of, thread_vars, failed, data_vars, client_vars>>
        BY <1>3 DEF CreateNamedPipe
    <2>2. CASE UNCHANGED <<last_pipe, pipe_state>>
        <3>1. server_pc' = "idle"
            BY <1>3, <2>2, <1>a DEF CreateNamedPipe, Return
        <3> QED BY <1>0, <2>1, <2>2, <3>1
               DEF ControlInv, ServerInv, ThreadInv, FreshInv, ClientInv, NeverHangsUpFirst, Over
    <2>3. CASE /\ last_pipe' = last_pipe + 1 /\ server_pc' = "connect"
               /\ pipe_state' = [pipe_state EXCEPT ![last_pipe + 1] = "listening"]
        <3>1. last_pipe + 1 \in Pipes /\ last_pipe + 1 > last_pipe
            BY <1>0, <1>3, PipeAssumption DEF CreateNamedPipe, TypeOK, Pipes
        <3>2. pipe_state[last_pipe + 1] = "none"
            BY <1>0, <3>1 DEF ServerInv
        <3>3. /\ pipe_state'[last_pipe + 1] = "listening"
              /\ \A i \in Pipes : i # last_pipe + 1 => pipe_state'[i] = pipe_state[i]
            BY <1>0, <2>3, <3>1 DEF TypeOK
        <3>4. thread_pc[last_pipe + 1] = "none" /\ client_of[last_pipe + 1] = Nobody
            BY <1>0, <3>1, <3>2 DEF FreshInv
        <3>5. ServerInv'
            BY <1>0, <1>a, <2>1, <2>3, <3>1, <3>3, <3>4 DEF ServerInv
        <3>6. (ThreadInv /\ FreshInv)'
            BY <1>0, <2>1, <3>1, <3>2, <3>3, <3>4 DEF ThreadInv, FreshInv, Over
        <3>7. (ClientInv /\ NeverHangsUpFirst)'
            BY <1>0, <2>1, <3>1, <3>2, <3>3, <3>4 DEF ClientInv, NeverHangsUpFirst
        <3> QED BY <3>5, <3>6, <3>7 DEF ControlInv
    <2> QED BY <1>3, <2>2, <2>3 DEF CreateNamedPipe
<1>4. ASSUME ConnectNamedPipe \/ Connected PROVE ControlInv'
    <2>1. /\ UNCHANGED <<last_pipe, client_of, thread_vars, data_vars, client_vars>>
          /\ last_pipe \in Pipes /\ thread_pc[last_pipe] = "none"
          /\ pipe_state[last_pipe] \in {"listening", "connected", "broken"}
        BY <1>0, <1>4 DEF ConnectNamedPipe, Connected, ServerInv
    <2>2. CASE UNCHANGED <<pipe_state, failed>> /\ server_pc' \in {"blocked", "spawn"}
               /\ (server_pc' = "spawn" => pipe_state[last_pipe] # "listening")
        BY <1>0, <2>1, <2>2
           DEF ControlInv, ServerInv, ThreadInv, FreshInv, ClientInv, NeverHangsUpFirst, Over
    <2>3. CASE Abandon
        <3>1. /\ pipe_state'[last_pipe] = "closed" /\ server_pc' = "create"
              /\ \A i \in Pipes : i # last_pipe => pipe_state'[i] = pipe_state[i]
              /\ failed \subseteq failed'
              /\ pipe_state[last_pipe] = "connected" => last_pipe \in failed'
            BY <1>0, <2>1, <2>3 DEF Abandon, is_connected, TypeOK
        <3>2. \/ client_of[last_pipe] = Nobody
              \/ client_pc[client_of[last_pipe]] = "gone"
              \/ last_pipe \in failed'
            BY <1>0, <2>1, <3>1 DEF ClientInv, FreshInv
        <3>3. ServerInv'
            BY <1>0, <1>a, <2>1, <3>1 DEF ServerInv
        <3>4. (ThreadInv /\ FreshInv)'
            BY <1>0, <2>1, <3>1 DEF ThreadInv, FreshInv, Over
        <3>5. (ClientInv /\ NeverHangsUpFirst)'
            BY <1>0, <2>1, <3>1, <3>2 DEF ClientInv, NeverHangsUpFirst
        <3> QED BY <3>3, <3>4, <3>5 DEF ControlInv
    <2> QED BY <1>4, <2>1, <2>2, <2>3 DEF ConnectNamedPipe, Connected, is_connected
<1>6. ASSUME Spawn PROVE ControlInv'
    <2>1. /\ UNCHANGED <<last_pipe, pipe_vars, request, reply_buffer, failed, data_vars, client_vars>>
          /\ server_pc' \in {"idle", "create"} /\ last_pipe \in Pipes
          /\ pipe_state[last_pipe] \in {"connected", "broken"}
        BY <1>0, <1>6 DEF Spawn, Return, ServerInv
    <2>2. \/ UNCHANGED <<thread_pc, pipe_data>>
          \/ /\ thread_pc'[last_pipe] = "start"
             /\ \A i \in Pipes : i # last_pipe => thread_pc'[i] = thread_pc[i] /\ pipe_data'[i] = pipe_data[i]
        BY <1>0, <1>6, <2>1 DEF Spawn, TypeOK
    <2>3. ServerInv'
        BY <1>0, <2>1 DEF ServerInv
    <2>4. (ThreadInv /\ FreshInv)'
        BY <1>0, <2>1, <2>2 DEF ThreadInv, FreshInv, Over
    <2>5. (ClientInv /\ NeverHangsUpFirst)'
        BY <1>0, <2>1 DEF ClientInv, NeverHangsUpFirst
    <2> QED BY <2>3, <2>4, <2>5 DEF ControlInv
<1>7. ASSUME NEW i \in Pipes, HandlerStart(i) \/ Handle(i) PROVE ControlInv'
    <2>1. /\ UNCHANGED <<server_vars, pipe_vars, pipe_data, request, failed, data_vars, client_vars>>
          /\ thread_pc[i] \in {"start", "handle"}
          /\ thread_pc'[i] \in {"returned", "read", "write"}
          /\ thread_pc'[i] = "read" => pipe_data[i].handler
          /\ thread_pc[i] = "start" => thread_pc'[i] # "write"
          /\ \A j \in Pipes : j # i => thread_pc'[j] = thread_pc[j] /\ reply_buffer'[j] = reply_buffer[j]
        BY <1>0, <1>7 DEF HandlerStart, Handle, Callable, reply_buffer_of, TypeOK
    <2>2. ServerInv'
        BY <1>0, <2>1 DEF ServerInv
    <2>3. (ThreadInv /\ FreshInv)'
        BY <1>0, <2>1 DEF ThreadInv, FreshInv, Over
    <2>4. (ClientInv /\ NeverHangsUpFirst)'
        BY <1>0, <2>1 DEF ClientInv, NeverHangsUpFirst
    <2> QED BY <2>2, <2>3, <2>4 DEF ControlInv
<1>8. ASSUME NEW i \in Pipes, Read(i) PROVE ControlInv'
    <2>1. /\ UNCHANGED <<server_vars, pipe_vars, pipe_data, reply_buffer, failed, replies, client_vars>>
          /\ thread_pc[i] = "read" /\ thread_pc'[i] \in {"handle", "close"}
          /\ \A j \in Pipes : j # i => /\ thread_pc'[j] = thread_pc[j] /\ request'[j] = request[j]
                                       /\ requests'[j] = requests[j]
        BY <1>0, <1>8 DEF Read, after_failed_read, TypeOK
    <2>2. pipe_state[i] \in {"connected", "broken"} /\ client_of[i] \in Clients
        BY <1>0, <2>1 DEF ThreadInv, ClientInv
    <2>3. ASSUME thread_pc'[i] = "handle" PROVE request'[i] # <<>>
        <3>1. PICK n \in Arrived(i) : request' = [request EXCEPT ![i] = SubSeq(requests[i], 1, n)]
            BY <1>0, <1>8, <2>1, <2>3 DEF Read, after_failed_read, TypeOK
        <3>2. n \in 1..Len(requests[i]) /\ n \in 0..Len(requests[i]) /\ requests[i] \in Seq(Tokens)
            BY <1>0, ArrivedBounds, PipeTypes
        <3>3. Len(SubSeq(requests[i], 1, n)) = n
            BY <3>2, ElemsOfCut
        <3>4. request'[i] = SubSeq(requests[i], 1, n)
            BY <1>0, <3>1 DEF TypeOK
        <3> QED BY <3>2, <3>3, <3>4
    <2>4. ASSUME thread_pc'[i] = "close" PROVE Over(i)
        <3>1. Ended(i)
            BY <1>0, <1>8, <2>1, <2>4 DEF Read, after_failed_read, TypeOK
        <3>2. CASE pipe_state[i] = "broken"
            BY <1>0, <3>2 DEF ClientInv, Over
        <3>3. CASE requests[i] # <<>> /\ Empty(Head(requests[i]))
            <4>1. requests[i] \in Seq(Tokens)
                BY <1>0, PipeTypes
            <4>2. 1 \in 1..Len(requests[i]) /\ Head(requests[i]) = requests[i][1]
                BY <3>3, <4>1
            <4>3. Head(requests[i]) \in Elems(requests[i])
                BY <4>2 DEF Elems
            <4> QED BY <1>0, <2>2, <3>3, <4>3 DEF DataInv, Empty, Over
        <3> QED BY <3>1, <3>2, <3>3 DEF Ended
    <2>5. ServerInv'
        BY <1>0, <2>1 DEF ServerInv
    <2>6. (ThreadInv /\ FreshInv)'
        BY <1>0, <2>1, <2>2, <2>3, <2>4 DEF ThreadInv, FreshInv, Over
    <2>7. (ClientInv /\ NeverHangsUpFirst)'
        BY <1>0, <2>1 DEF ClientInv, NeverHangsUpFirst
    <2> QED BY <2>5, <2>6, <2>7 DEF ControlInv
<1>9. ASSUME NEW i \in Pipes, Write(i) \/ ReadError(i) \/ WriteError(i) PROVE ControlInv'
    <2>1. /\ UNCHANGED <<server_vars, pipe_vars, pipe_data, request, reply_buffer, requests, client_vars>>
          /\ thread_pc[i] \in {"read", "write"} /\ thread_pc'[i] \in {"read", "close"}
          /\ thread_pc'[i] = "close" => pipe_state[i] = "broken" \/ i \in failed'
          /\ failed \subseteq failed'
          /\ \A j \in Pipes : j # i => thread_pc'[j] = thread_pc[j] /\ replies'[j] = replies[j]
        BY <1>0, <1>9 DEF Write, ReadError, WriteError, SystemFails, after_failed_read, TypeOK
    <2>2. pipe_state[i] \in {"connected", "broken"}
        BY <1>0, <2>1 DEF ThreadInv
    <2>3. thread_pc'[i] = "close" => Over(i)'
        BY <1>0, <2>1 DEF ClientInv, Over
    <2>4. ServerInv'
        BY <1>0, <2>1 DEF ServerInv
    <2>5. (ThreadInv /\ FreshInv)'
        BY <1>0, <2>1, <2>2, <2>3 DEF ThreadInv, FreshInv, Over
    <2>6. (ClientInv /\ NeverHangsUpFirst)'
        BY <1>0, <2>1 DEF ClientInv, NeverHangsUpFirst
    <2> QED BY <2>4, <2>5, <2>6 DEF ControlInv
<1>10. ASSUME NEW i \in Pipes, Close(i) \/ FlushError(i) PROVE ControlInv'
    <2>1. /\ UNCHANGED <<server_vars, client_of, pipe_data, request, reply_buffer, client_vars>>
          /\ thread_pc[i] = "close" /\ thread_pc'[i] = "done" /\ pipe_state'[i] = "closed"
          /\ \A j \in Pipes : j # i => /\ thread_pc'[j] = thread_pc[j] /\ pipe_state'[j] = pipe_state[j]
                                       /\ replies'[j] = replies[j] /\ requests'[j] = requests[j]
          /\ failed \subseteq failed'
        BY <1>0, <1>10 DEF Close, FlushError, Disconnect, SystemFails, TypeOK
    <2>2. pipe_state[i] \in {"connected", "broken"} /\ Over(i)
        BY <1>0, <2>1 DEF ThreadInv
    <2>3. ServerInv'
        BY <1>0, <1>a, <2>1, <2>2 DEF ServerInv
    <2>4. (ThreadInv /\ FreshInv)'
        BY <1>0, <2>1 DEF ThreadInv, FreshInv, Over
    <2>5. (ClientInv /\ NeverHangsUpFirst)'
        BY <1>0, <2>1, <2>2 DEF ClientInv, NeverHangsUpFirst, Over
    <2> QED BY <2>3, <2>4, <2>5 DEF ControlInv
<1>11. ASSUME NEW c \in Clients, OpenPipe(c) PROVE ControlInv'
    <2>0. UNCHANGED <<server_vars, thread_vars, failed, data_vars, asked, emptied, got>> /\ client_pc[c] = "new"
        BY <1>11 DEF OpenPipe
    <2>1. CASE \E i \in Listening :
                   /\ pipe_state' = [pipe_state EXCEPT ![i] = "connected"]
                   /\ client_of'  = [client_of EXCEPT ![i] = c]
                   /\ client_pc'  = [client_pc EXCEPT ![c] = "mode"]
        <3>1. PICK i \in Pipes : /\ pipe_state[i] = "listening"
                                 /\ pipe_state' = [pipe_state EXCEPT ![i] = "connected"]
                                 /\ client_of'  = [client_of EXCEPT ![i] = c]
                                 /\ client_pc'  = [client_pc EXCEPT ![c] = "mode"]
            BY <2>1 DEF Listening
        <3>2. /\ pipe_state'[i] = "connected" /\ client_of'[i] = c /\ client_pc'[c] = "mode"
              /\ \A j \in Pipes : j # i => pipe_state'[j] = pipe_state[j] /\ client_of'[j] = client_of[j]
              /\ \A d \in Clients : d # c => client_pc'[d] = client_pc[d]
            BY <1>0, <3>1 DEF TypeOK
        <3>3. thread_pc[i] = "none" /\ \A j \in Pipes : client_of[j] # c
            BY <1>0, <2>0, <3>1 DEF FreshInv, ClientInv
        <3>4. ServerInv'
            BY <1>0, <1>a, <2>0, <3>1, <3>2 DEF ServerInv
        <3>5. (ThreadInv /\ FreshInv)'
            BY <1>0, <1>b, <2>0, <3>2, <3>3 DEF ThreadInv, FreshInv, ClientInv, Over
        <3>6. ClientInv'
            BY <1>0, <1>b, <2>0, <3>2, <3>3 DEF ClientInv
        <3>7. NeverHangsUpFirst'
            BY <1>0, <1>b, <2>0, <3>2, <3>3 DEF NeverHangsUpFirst
        <3> QED BY <3>4, <3>5, <3>6, <3>7 DEF ControlInv
    <2>2. CASE UNCHANGED pipe_vars /\ client_pc' \in {[client_pc EXCEPT ![c] = "wait"],
                                                      [client_pc EXCEPT ![c] = "failed"]}
        <3>1. /\ client_pc'[c] \in {"wait", "failed"}
              /\ \A d \in Clients : d # c => client_pc'[d] = client_pc[d]
            BY <1>0, <2>2 DEF TypeOK
        <3>2. ServerInv'
            BY <1>0, <2>0, <2>2 DEF ServerInv
        <3>3. (ThreadInv /\ FreshInv)'
            BY <1>0, <1>b, <2>0, <2>2, <3>1 DEF ThreadInv, FreshInv, ClientInv, Over
        <3>4. ClientInv'
            BY <1>0, <1>b, <2>0, <2>2, <3>1 DEF ClientInv
        <3>5. NeverHangsUpFirst'
            BY <1>0, <1>b, <2>0, <2>2, <3>1 DEF NeverHangsUpFirst
        <3> QED BY <3>2, <3>3, <3>4, <3>5 DEF ControlInv
    <2> QED BY <1>11, <2>1, <2>2 DEF OpenPipe, Fail
<1>12. ASSUME NEW c \in Clients,
              WaitPipe(c) \/ SetMode(c) \/ ClientRefused(c) \/ \E i \in Pipes : ClientWaits(c, i)
       PROVE  ControlInv'
    <2>0. UNCHANGED <<server_vars, pipe_vars, thread_vars, failed, data_vars, asked, emptied, got>>
        BY <1>12 DEF WaitPipe, SetMode, ClientRefused, ClientWaits
    <2>1. /\ \A d \in Clients : d # c => client_pc'[d] = client_pc[d]
          /\ client_pc[c] # "gone" /\ client_pc'[c] # "gone"
          /\ client_pc'[c] \in {"new", "wait"} => client_pc[c] \in {"new", "wait"}
        BY <1>0, <1>12 DEF WaitPipe, SetMode, ClientRefused, ClientWaits, Fail, TypeOK
    <2>2. ServerInv'
        BY <1>0, <2>0 DEF ServerInv
    <2>3. (ThreadInv /\ FreshInv)'
        BY <1>0, <1>b, <2>0, <2>1 DEF ThreadInv, FreshInv, ClientInv, Over
    <2>4. ClientInv'
        BY <1>0, <2>0, <2>1 DEF ClientInv
    <2>5. NeverHangsUpFirst'
        BY <1>0, <1>b, <2>0, <2>1 DEF NeverHangsUpFirst
    <2> QED BY <2>2, <2>3, <2>4, <2>5 DEF ControlInv
<1>13. ASSUME NEW c \in Clients, NEW i \in Pipes, ClientWrite(c, i) PROVE ControlInv'
    <2>0. UNCHANGED <<server_vars, pipe_vars, thread_vars, failed, replies, got>>
        BY <1>13 DEF ClientWrite
    <2>1. /\ emptied \subseteq emptied' /\ client_of[i] = c
          /\ \A j \in Pipes : j # i => requests'[j] = requests[j]
          /\ \A d \in Clients : d # c => client_pc'[d] = client_pc[d]
          /\ client_pc[c] \in {"open", "writing"} /\ client_pc'[c] = "open"
        BY <1>0, <1>13 DEF ClientWrite, TypeOK
    <2>2. ServerInv'
        BY <1>0, <2>0 DEF ServerInv
    <2>3. (ThreadInv /\ FreshInv)'
        BY <1>0, <1>b, <2>0, <2>1 DEF ThreadInv, FreshInv, ClientInv, Over
    <2>4. (ClientInv /\ NeverHangsUpFirst)'
        BY <1>0, <1>b, <2>0, <2>1 DEF ClientInv, NeverHangsUpFirst
    <2> QED BY <2>2, <2>3, <2>4 DEF ControlInv
<1>14. ASSUME NEW c \in Clients, NEW i \in Pipes, ClientRead(c, i) PROVE ControlInv'
    <2>0. UNCHANGED <<server_vars, pipe_vars, thread_vars, failed, requests, client_pc, asked, emptied>>
        BY <1>14 DEF ClientRead
    <2>1. /\ client_of[i] = c /\ client_pc[c] = "open"
          /\ \A j \in Pipes : j # i => replies'[j] = replies[j]
          /\ \A d \in Clients : d # c => got'[d] = got[d]
        BY <1>0, <1>14 DEF ClientRead, TypeOK
    <2>2. ServerInv'
        BY <1>0, <2>0 DEF ServerInv
    <2>3. (ThreadInv /\ FreshInv)'
        BY <1>0, <1>b, <2>0, <2>1 DEF ThreadInv, FreshInv, Over
    <2>4. (ClientInv /\ NeverHangsUpFirst)'
        BY <1>0, <2>0, <2>1 DEF ClientInv, NeverHangsUpFirst
    <2> QED BY <2>2, <2>3, <2>4 DEF ControlInv
<1>15. ASSUME NEW c \in Clients, ClientExit(c) PROVE ControlInv'
    <2>0. UNCHANGED <<server_vars, client_of, thread_vars, failed, data_vars, asked, emptied, got>>
        BY <1>15 DEF ClientExit
    <2>1. /\ client_pc'[c] = "gone" /\ client_pc[c] \notin {"new", "wait"}
          /\ \A d \in Clients : d # c => client_pc'[d] = client_pc[d]
          /\ \A i \in Pipes : pipe_state'[i] = IF client_of[i] = c /\ pipe_state[i] = "connected"
                                               THEN "broken" ELSE pipe_state[i]
        BY <1>0, <1>15 DEF ClientExit, TypeOK
    <2>2. ServerInv'
        BY <1>0, <2>0, <2>1 DEF ServerInv
    <2>3. (ThreadInv /\ FreshInv)'
        BY <1>0, <1>b, <2>0, <2>1 DEF ThreadInv, FreshInv, ClientInv, Over
    <2>4. ClientInv'
        BY <1>0, <2>0, <2>1 DEF ClientInv
    <2>5. NeverHangsUpFirst'
        BY <1>0, <1>b, <2>0, <2>1 DEF NeverHangsUpFirst
    <2> QED BY <2>2, <2>3, <2>4, <2>5 DEF ControlInv
<1>16. CASE UNCHANGED vars
    BY <1>0, <1>16 DEF vars, ControlInv, ServerInv, ThreadInv, FreshInv, ClientInv, NeverHangsUpFirst, Over
<1> QED BY <1>1, <1>2, <1>3, <1>4, <1>6, <1>7, <1>8, <1>9, <1>10, <1>11, <1>12, <1>13, <1>14,
           <1>15, <1>16 DEF Next, Server, client_handler, handler_error, Client

-----------------------------------------------------------------------------
(***************************************************************************)
(* The order of the data is kept by a step that adds nothing to it, though *)
(* the client may have asked more, and what is on its way may be dropped.  *)
(***************************************************************************)
LEMMA DataKept ==
    ASSUME NEW i \in Pipes, DataInv(i),
           client_of'[i] = client_of[i],
           client_of[i] \in Clients => /\ asked[client_of[i]] \in Nat /\ asked'[client_of[i]] \in Nat
                                       /\ asked[client_of[i]] <= asked'[client_of[i]],
           emptied \subseteq emptied',
           client_of[i] \in Clients => Sent(i)' \subseteq Sent(i),
           reply_buffer'[i] = reply_buffer[i],
           Elems(Pending(i))' \subseteq Elems(Pending(i)),
           requests'[i] = requests[i] \/ requests'[i] = <<>>
    PROVE  DataInv(i)'
<1> SUFFICES ASSUME client_of'[i] \in Clients
             PROVE  DataInv(i)'
    BY DEF DataInv
<1> DEFINE c == client_of[i]
<1>0. c \in Clients /\ client_of'[i] = c
    OBVIOUS
<1>1. /\ Asked(c, Sent(i)) /\ Asked(c, Elems(Pending(i)))
      /\ reply_buffer[i] = <<>> \/ Uniform(c, reply_buffer[i])
      /\ \A x \in Elems(requests[i]) :
             x[1] = c /\ x[2] \in 0..asked[c] /\ (x[2] = 0 => c \in emptied)
      /\ NotAfter(Sent(i), Elems(reply_buffer[i]))
      /\ NotAfter(Sent(i) \cup Elems(reply_buffer[i]), Elems(Pending(i)))
      /\ NotAfter(Sent(i) \cup Elems(reply_buffer[i]) \cup Elems(Pending(i)), Elems(requests[i]))
      /\ Sorted(requests[i])
    BY <1>0 DEF DataInv
<1>2. 1..asked[c] \subseteq 1..asked'[c] /\ 0..asked[c] \subseteq 0..asked'[c]
    BY <1>0
<1>3. Elems(requests[i])' \subseteq Elems(requests[i]) /\ Sorted(requests[i])'
    <2>1. CASE requests'[i] = requests[i]
        BY <1>1, <2>1 DEF Elems, Sorted
    <2>2. CASE requests'[i] = <<>>
        BY <2>2 DEF Elems, Sorted
    <2> QED BY <2>1, <2>2
<1> HIDE DEF c
<1>4. Asked(c, Sent(i))' /\ Asked(c, Elems(Pending(i)))'
    BY <1>0, <1>1, <1>2 DEF Asked, c
<1>5. (reply_buffer[i] = <<>> \/ Uniform(c, reply_buffer[i]))'
    BY <1>0, <1>1, <1>2 DEF Uniform, c
<1>6. \A x \in Elems(requests[i])' :
          x[1] = c' /\ x[2] \in 0..asked'[c'] /\ (x[2] = 0 => c' \in emptied')
    BY <1>0, <1>1, <1>2, <1>3 DEF c
<1>7. Elems(reply_buffer[i])' = Elems(reply_buffer[i])
    BY DEF Elems
<1>8. /\ NotAfter(Sent(i), Elems(reply_buffer[i]))'
      /\ NotAfter(Sent(i) \cup Elems(reply_buffer[i]), Elems(Pending(i)))'
      /\ NotAfter(Sent(i) \cup Elems(reply_buffer[i]) \cup Elems(Pending(i)), Elems(requests[i]))'
    BY <1>0, <1>1, <1>3, <1>7 DEF NotAfter, c
<1> QED BY <1>3, <1>4, <1>5, <1>6, <1>8 DEF DataInv, c

LEMMA AskedIsNat ==
    ASSUME TypeOK
    PROVE  \A c \in Clients : asked[c] \in Nat
BY PipeAssumption DEF TypeOK

(* An instance a step does not touch, but perhaps the place of its thread. *)
LEMMA DataSame ==
    ASSUME TypeOK, NEW i \in Pipes, DataInv(i),
           client_of'[i] = client_of[i], got' = got \/ got'[client_of[i]] = got[client_of[i]],
           replies'[i] = replies[i] \/ replies'[i] = <<>>,
           requests'[i] = requests[i] \/ requests'[i] = <<>>,
           reply_buffer'[i] = reply_buffer[i], emptied \subseteq emptied',
           asked' = asked \/ asked'[client_of[i]] = asked[client_of[i]],
           \/ thread_pc'[i] # "handle"
           \/ thread_pc'[i] = thread_pc[i] /\ request'[i] = request[i]
    PROVE  DataInv(i)'
<1>1. client_of[i] \in Clients => /\ asked[client_of[i]] \in Nat /\ asked'[client_of[i]] \in Nat
                                  /\ asked[client_of[i]] <= asked'[client_of[i]]
    BY AskedIsNat
<1>2. Elems(replies[i])' \subseteq Elems(replies[i])
    BY DEF Elems
<1>3. Sent(i)' \subseteq Sent(i)
    BY <1>2 DEF Sent, Elems
<1>4. Elems(Pending(i))' \subseteq Elems(Pending(i))
    BY DEF Pending, Elems
<1> QED BY <1>1, <1>3, <1>4, DataKept

(* ReadFile takes requests off the front; they are older than those left.  *)
LEMMA ReadKeepsData ==
    ASSUME PipeInv, NEW i \in Pipes, Read(i), NEW j \in Pipes
    PROVE  DataInv(j)'
<1> USE DEF server_vars, config_vars, start_vars, pipe_vars, client_vars
<1>0. TypeOK /\ DataInv(i) /\ DataInv(j) /\ Pending(i) = <<>>
    BY DEF PipeInv, Read, Pending
<1>1. /\ UNCHANGED <<client_of, got, replies, reply_buffer, asked, emptied>>
      /\ thread_pc[i] = "read"
      /\ \A k \in Pipes : k # i => /\ thread_pc'[k] = thread_pc[k] /\ request'[k] = request[k]
                                   /\ requests'[k] = requests[k]
    BY <1>0 DEF Read, TypeOK
<1>2. CASE j # i
    BY <1>0, <1>1, <1>2, DataSame
<1> DEFINE Front(n) ==
               /\ request'  = [request  EXCEPT ![i] = SubSeq(requests[i], 1, n)]
               /\ requests' = [requests EXCEPT ![i] = SubSeq(@, n + 1, Len(@))]
               /\ thread_pc' = [thread_pc EXCEPT ![i] = "handle"]
           Failed ==
               /\ thread_pc' = [thread_pc EXCEPT ![i] = "close"]
               /\ requests' = [requests EXCEPT ![i] = IF @ = <<>> THEN @ ELSE Tail(@)]
<1>3. (\E n \in Arrived(i) : Front(n)) \/ Failed
    BY DEF Read, after_failed_read
<1>4. CASE j = i /\ \E n \in Arrived(i) : Front(n)
    <2>1. PICK n \in Arrived(i) : Front(n)
        BY <1>4
    <2> DEFINE s     == requests[i]
               front == SubSeq(s, 1, n)
               rest  == SubSeq(s, n + 1, Len(s))
               c     == client_of[i]
    <2>2. s \in Seq(Tokens) /\ Len(s) \in Nat /\ n \in 1..Len(s) /\ n \in 0..Len(s)
          /\ \A k \in 1..n : s[k][2] # 0
        BY <1>0, PipeTypes, ArrivedBounds
    <2>3. request'[i] = front /\ requests'[i] = rest /\ Pending(i)' = front
        BY <1>0, <2>1 DEF TypeOK, Pending
    <2> HIDE DEF front, rest
    <2>4. /\ Len(front) = n /\ Len(rest) = Len(s) - n
          /\ \A k \in 1..n : front[k] = s[k]
          /\ \A k \in 1..(Len(s) - n) : rest[k] = s[k + n]
        BY <2>2, ElemsOfCut DEF front, rest
    <2> HIDE DEF s
    <2>5. Elems(s) = Elems(front) \cup Elems(rest)
        BY <2>2, ElemsOfParts DEF front, rest
    <2> SUFFICES ASSUME c \in Clients PROVE DataInv(i)'
        BY <1>1, <1>4 DEF DataInv
    <2>6. /\ Asked(c, Sent(i))
          /\ reply_buffer[i] = <<>> \/ Uniform(c, reply_buffer[i])
          /\ \A x \in Elems(s) : x[1] = c /\ x[2] \in 0..asked[c] /\ (x[2] = 0 => c \in emptied)
          /\ NotAfter(Sent(i), Elems(reply_buffer[i]))
          /\ NotAfter(Sent(i) \cup Elems(reply_buffer[i]), Elems(s))
          /\ Sorted(s)
        BY <1>0 DEF DataInv, s, NotAfter
    <2>7. asked[c] \in Nat
        BY <1>0, AskedIsNat
    <2>8. \A x \in Elems(front) : x[2] # 0
        BY <2>2, <2>4 DEF Elems
    <2>9. Asked(c, Elems(front))
        BY <2>5, <2>6, <2>7, <2>8 DEF Asked
    <2>10. NotAfter(Elems(front), Elems(rest))
        <3> SUFFICES ASSUME NEW x \in Elems(front), NEW y \in Elems(rest), y[2] # 0
                     PROVE  x[2] <= y[2]
            BY DEF NotAfter
        <3>1. PICK k \in 1..n : x = s[k]
            BY <2>4 DEF Elems
        <3>4. PICK l \in 1..Len(rest) : y = rest[l]
            BY DEF Elems
        <3>2. l \in 1..(Len(s) - n) /\ y = s[l + n]
            BY <2>4, <3>4
        <3>3. k \in 1..Len(s) /\ l + n \in 1..Len(s) /\ k <= l + n
            BY <2>2, <3>1, <3>2
        <3> QED BY <2>6, <3>1, <3>2, <3>3 DEF Sorted
    <2>11. Sorted(rest)
        <3> SUFFICES ASSUME NEW k \in 1..Len(rest), NEW l \in 1..Len(rest), k <= l, rest[l][2] # 0
                     PROVE  rest[k][2] <= rest[l][2]
            BY DEF Sorted
        <3>1. k + n \in 1..Len(s) /\ l + n \in 1..Len(s) /\ k + n <= l + n
            BY <2>2, <2>4
        <3>2. rest[k] = s[k + n] /\ rest[l] = s[l + n]
            BY <2>4
        <3> QED BY <2>6, <3>1, <3>2 DEF Sorted
    <2>12. Sent(i)' = Sent(i) /\ Elems(reply_buffer[i])' = Elems(reply_buffer[i])
        BY <1>1 DEF Sent, Elems
    <2>13. NotAfter(Sent(i) \cup Elems(reply_buffer[i]), Elems(front))
        BY <2>5, <2>6 DEF NotAfter
    <2>14. NotAfter(Sent(i) \cup Elems(reply_buffer[i]) \cup Elems(front), Elems(rest))
        BY <2>5, <2>6, <2>10 DEF NotAfter
    <2>15. Elems(Pending(i))' = Elems(front) /\ Elems(requests[i])' = Elems(rest)
        BY <2>3 DEF Elems
    <2>16. c' = c /\ asked' = asked /\ emptied' = emptied
        BY <1>1
    <2>17. (Asked(c, Sent(i)) /\ Asked(c, Elems(Pending(i))))'
        BY <2>6, <2>9, <2>12, <2>15, <2>16 DEF Asked
    <2>18. (reply_buffer[i] = <<>> \/ Uniform(c, reply_buffer[i]))'
        BY <1>1, <2>6, <2>16 DEF Uniform
    <2>19. \A x \in Elems(requests[i])' :
               x[1] = c' /\ x[2] \in 0..asked'[c'] /\ (x[2] = 0 => c' \in emptied')
        BY <2>5, <2>6, <2>15, <2>16
    <2>20. /\ NotAfter(Sent(i), Elems(reply_buffer[i]))'
           /\ NotAfter(Sent(i) \cup Elems(reply_buffer[i]), Elems(Pending(i)))'
           /\ NotAfter(Sent(i) \cup Elems(reply_buffer[i]) \cup Elems(Pending(i)), Elems(requests[i]))'
        BY <2>6, <2>12, <2>13, <2>14, <2>15 DEF NotAfter
    <2>21. Sorted(requests[i])'
        BY <2>3, <2>11 DEF Sorted
    <2> HIDE DEF c
    <2> QED BY <1>4, <2>17, <2>18, <2>19, <2>20, <2>21 DEF DataInv, c
<1>5. CASE j = i /\ Failed
    <2>1. Failed
        BY <1>5
    <2> DEFINE s == requests[i]
               c == client_of[i]
    <2>2. s \in Seq(Tokens)
        BY <1>0, PipeTypes
    <2>3. thread_pc'[i] = "close" /\ requests'[i] = IF s = <<>> THEN s ELSE Tail(s)
        BY <1>0, <2>1 DEF TypeOK
    <2>4. CASE s = <<>>
        BY <1>0, <1>1, <1>5, <2>3, <2>4, DataSame
    <2>5. CASE s # <<>>
        <3> DEFINE rest == Tail(s)
        <3>1. /\ rest \in Seq(Tokens) /\ Len(rest) = Len(s) - 1 /\ Len(s) \in Nat
              /\ \A k \in 1..(Len(s) - 1) : rest[k] = s[k + 1]
            BY <2>2, <2>5, HeadTailProperties
        <3>2. requests'[i] = rest
            BY <2>3, <2>5
        <3> HIDE DEF rest, s
        <3>3. Elems(rest) \subseteq Elems(s)
            BY <3>1 DEF Elems
        <3>4. Sorted(s) => Sorted(rest)
            <4> SUFFICES ASSUME Sorted(s), NEW k \in 1..Len(rest), NEW l \in 1..Len(rest), k <= l,
                                rest[l][2] # 0
                         PROVE  rest[k][2] <= rest[l][2]
                BY DEF Sorted
            <4>1. k + 1 \in 1..Len(s) /\ l + 1 \in 1..Len(s) /\ k + 1 <= l + 1
                BY <3>1
            <4>2. rest[k] = s[k + 1] /\ rest[l] = s[l + 1]
                BY <3>1
            <4> QED BY <4>1, <4>2 DEF Sorted
        <3>5. Elems(requests[i])' = Elems(rest) /\ (Sorted(requests[i])' <=> Sorted(rest))
            BY <3>2 DEF Elems, Sorted
        <3>6. Sent(i)' = Sent(i) /\ Elems(reply_buffer[i])' = Elems(reply_buffer[i])
            BY <1>1 DEF Sent, Elems
        <3>7. Elems(Pending(i))' = {} /\ Elems(Pending(i)) = {}
            BY <1>0, <2>3, ElemsOfEmpty DEF Pending, Elems
        <3> SUFFICES ASSUME c \in Clients PROVE DataInv(i)'
            BY <1>1, <1>5 DEF DataInv
        <3>8. /\ Asked(c, Sent(i))
              /\ reply_buffer[i] = <<>> \/ Uniform(c, reply_buffer[i])
              /\ \A x \in Elems(s) : x[1] = c /\ x[2] \in 0..asked[c] /\ (x[2] = 0 => c \in emptied)
              /\ NotAfter(Sent(i), Elems(reply_buffer[i]))
              /\ NotAfter(Sent(i) \cup Elems(reply_buffer[i]), Elems(s))
              /\ Sorted(s)
            BY <1>0 DEF DataInv, s, NotAfter
        <3>9. (Asked(c, Sent(i)) /\ Asked(c, Elems(Pending(i))))'
            BY <1>1, <3>6, <3>7, <3>8 DEF Asked
        <3>10. (reply_buffer[i] = <<>> \/ Uniform(c, reply_buffer[i]))'
            BY <1>1, <3>8 DEF Uniform
        <3>11. \A x \in Elems(requests[i])' :
                   x[1] = c' /\ x[2] \in 0..asked'[c'] /\ (x[2] = 0 => c' \in emptied')
            BY <1>1, <3>3, <3>5, <3>8
        <3>12. /\ NotAfter(Sent(i), Elems(reply_buffer[i]))'
               /\ NotAfter(Sent(i) \cup Elems(reply_buffer[i]), Elems(Pending(i)))'
               /\ NotAfter(Sent(i) \cup Elems(reply_buffer[i]) \cup Elems(Pending(i)), Elems(requests[i]))'
            BY <3>3, <3>5, <3>6, <3>7, <3>8 DEF NotAfter
        <3> HIDE DEF c
        <3> QED BY <1>5, <3>4, <3>5, <3>8, <3>9, <3>10, <3>11, <3>12 DEF DataInv, c
    <2> QED BY <2>4, <2>5
<1> QED BY <1>2, <1>3, <1>4, <1>5

(* A reply answers the last of the requests that were read.                *)
LEMMA HandleKeepsData ==
    ASSUME PipeInv, NEW i \in Pipes, Handle(i), NEW j \in Pipes
    PROVE  DataInv(j)'
<1> USE DEF server_vars, config_vars, start_vars, pipe_vars, data_vars, client_vars
<1>0. TypeOK /\ DataInv(i) /\ DataInv(j) /\ Pending(i) = request[i] /\ request[i] # <<>>
    BY DEF PipeInv, ControlInv, ThreadInv, Handle, Pending
<1> DEFINE answered == request[i][Len(request[i])]
           c == client_of[i]
<1>1. /\ UNCHANGED <<client_of, got, replies, requests, request, asked, emptied>>
      /\ thread_pc'[i] = "write"
      /\ \A k \in Pipes : k # i => thread_pc'[k] = thread_pc[k] /\ reply_buffer'[k] = reply_buffer[k]
    BY <1>0 DEF Handle, TypeOK, reply_buffer_of
<1>2. CASE j # i
    BY <1>0, <1>1, <1>2, DataSame
<1>3. CASE j = i /\ reply_buffer' = reply_buffer
    BY <1>0, <1>1, <1>3, DataSame
<1>4. CASE j = i /\ \E n \in 0..MaxReply :
                        reply_buffer' = [reply_buffer EXCEPT ![i] = Repeated(answered, n)]
    <2>1. PICK n \in 0..MaxReply : reply_buffer'[i] = Repeated(answered, n)
        BY <1>0, <1>4 DEF TypeOK
    <2>2. request[i] \in Seq(Tokens) /\ Len(request[i]) \in 1..Len(request[i])
        BY <1>0, PipeTypes
    <2>3. answered \in Tokens /\ answered \in Elems(Pending(i))
        BY <1>0, <2>2 DEF Elems
    <2> SUFFICES ASSUME c \in Clients PROVE DataInv(i)'
        BY <1>1, <1>4 DEF DataInv
    <2>4. /\ Asked(c, Sent(i)) /\ Asked(c, Elems(Pending(i)))
          /\ \A x \in Elems(requests[i]) :
                 x[1] = c /\ x[2] \in 0..asked[c] /\ (x[2] = 0 => c \in emptied)
          /\ NotAfter(Sent(i), Elems(Pending(i)))
          /\ NotAfter(Sent(i) \cup Elems(Pending(i)), Elems(requests[i]))
          /\ Sorted(requests[i])
        BY <1>0 DEF DataInv, NotAfter
    <2> HIDE DEF answered
    <2>5. answered = <<c, answered[2]>> /\ answered[2] \in 1..asked[c]
        BY <2>3, <2>4 DEF Asked, Tokens
    <2>6. n \in Nat /\ (n = 0 \/ n \in 1..MaxReply)
        BY PipeAssumption
    <2>7. /\ Len(Repeated(answered, n)) = n /\ Repeated(answered, n) \in Seq(Tokens)
          /\ Elems(Repeated(answered, n)) \subseteq {answered}
        BY <2>3, <2>6, ElemsOfRepeated
    <2>8. reply_buffer'[i] = <<>> \/ Uniform(c, reply_buffer'[i])
        <3>1. CASE n = 0
            BY <2>1, <2>7, <3>1, EmptySeq
        <3>2. CASE n \in 1..MaxReply
            BY <2>1, <2>5, <3>2 DEF Uniform
        <3> QED BY <2>6, <3>1, <3>2
    <2>9. Elems(reply_buffer[i])' \subseteq Elems(Pending(i))
        BY <2>1, <2>3, <2>7 DEF Elems
    <2>10. Elems(Pending(i))' = {} /\ Sent(i)' = Sent(i)
           /\ Elems(requests[i])' = Elems(requests[i])
        BY <1>1, ElemsOfEmpty DEF Pending, Elems, Sent
    <2>11. c' = c /\ asked' = asked /\ emptied' = emptied /\ requests' = requests
        BY <1>1
    <2>12. (Asked(c, Sent(i)) /\ Asked(c, Elems(Pending(i))))'
        BY <2>4, <2>10, <2>11 DEF Asked
    <2>13. (reply_buffer[i] = <<>> \/ Uniform(c, reply_buffer[i]))'
        BY <2>8, <2>11 DEF Uniform
    <2>14. \A x \in Elems(requests[i])' :
               x[1] = c' /\ x[2] \in 0..asked'[c'] /\ (x[2] = 0 => c' \in emptied')
        BY <2>4, <2>10, <2>11
    <2>15. /\ NotAfter(Sent(i), Elems(reply_buffer[i]))'
           /\ NotAfter(Sent(i) \cup Elems(reply_buffer[i]), Elems(Pending(i)))'
           /\ NotAfter(Sent(i) \cup Elems(reply_buffer[i]) \cup Elems(Pending(i)), Elems(requests[i]))'
        BY <2>4, <2>9, <2>10 DEF NotAfter
    <2>16. Sorted(requests[i])'
        BY <2>4, <2>11 DEF Sorted
    <2> HIDE DEF c
    <2> QED BY <2>12, <2>13, <2>14, <2>15, <2>16 DEF DataInv, c
<1> QED BY <1>2, <1>3, <1>4 DEF Handle, Repeated, reply_buffer_of

(* A reply answers one request that was asked.                             *)
LEMMA UniformIsAsked ==
    ASSUME TypeOK, NEW c \in Clients, NEW reply, Uniform(c, reply)
    PROVE  Asked(c, Elems(reply)) /\ NotAfter(Elems(reply), Elems(reply))
<1>1. PICK r \in 1..asked[c], n \in 1..MaxReply : reply = Repeated(<<c, r>>, n)
    BY DEF Uniform
<1>2. asked[c] \in 0..MaxRequests /\ MaxRequests \in Nat /\ n \in Nat
    BY PipeAssumption DEF TypeOK
<1>3. <<c, r>> \in Tokens /\ r <= r
    BY <1>2 DEF Tokens
<1>4. Elems(reply) \subseteq {<<c, r>>}
    BY <1>1, <1>2, <1>3, ElemsOfRepeated
<1> QED BY <1>3, <1>4 DEF Asked, NotAfter

(* What a write that fails has sent is a part of the reply.                *)
LEMMA PartOfRepeated ==
    ASSUME NEW S, NEW x \in S, NEW n \in Nat, NEW m \in 0..n
    PROVE  SubSeq(Repeated(x, n), 1, m) = Repeated(x, m)
<1>1. /\ Repeated(x, n) \in Seq(S) /\ Len(Repeated(x, n)) = n
      /\ Repeated(x, m) \in Seq(S) /\ Len(Repeated(x, m)) = m
    BY ElemsOfRepeated
<1>2. /\ \A k \in 1..n : Repeated(x, n)[k] = x
      /\ \A k \in 1..m : Repeated(x, m)[k] = x
    BY DEF Repeated
<1> DEFINE whole == Repeated(x, n)
           rest  == Repeated(x, m)
<1>3. /\ whole \in Seq(S) /\ Len(whole) = n /\ rest \in Seq(S) /\ Len(rest) = m
      /\ (\A k \in 1..n : whole[k] = x) /\ (\A k \in 1..m : rest[k] = x)
    BY <1>1, <1>2
<1> HIDE DEF whole, rest
<1>4. /\ SubSeq(whole, 1, m) \in Seq(S) /\ Len(SubSeq(whole, 1, m)) = m
      /\ \A k \in 1..m : SubSeq(whole, 1, m)[k] = whole[k]
    BY <1>3, ElemsOfCut
<1> DEFINE front == SubSeq(whole, 1, m)
<1>5. front \in Seq(S) /\ Len(front) = Len(rest) /\ \A k \in 1..Len(front) : front[k] = rest[k]
    BY <1>3, <1>4
<1> HIDE DEF front
<1>6. front = rest
    BY <1>3, <1>5, SeqEqual
<1> QED BY <1>6 DEF front, whole, rest

(* WriteFile sends the reply buffer, or a part of it; it stays as it is.   *)
LEMMA WriteSends ==
    ASSUME PipeInv, NEW i \in Pipes, Write(i) \/ WriteError(i)
    PROVE  \/ replies' = replies
           \/ /\ reply_buffer[i] # <<>> /\ pipe_state[i] # "broken"
              /\ \E n \in 0..Len(reply_buffer[i]) :
                    replies' = [replies EXCEPT ![i] = @ \o SubSeq(reply_buffer[i], 1, n)]
<1>1. TypeOK /\ reply_buffer[i] \in Seq(Tokens) /\ Len(reply_buffer[i]) \in Nat
    BY PipeTypes DEF PipeInv
<1>2. CASE Write(i)
    <2>1. SubSeq(reply_buffer[i], 1, Len(reply_buffer[i])) = reply_buffer[i]
        <3> DEFINE s == reply_buffer[i]
                   n == Len(s)
        <3>1. s \in Seq(Tokens) /\ n \in Nat /\ n \in 0..n
            BY <1>1
        <3> HIDE DEF s
        <3>2. /\ SubSeq(s, 1, n) \in Seq(Tokens) /\ Len(SubSeq(s, 1, n)) = n
              /\ \A k \in 1..n : SubSeq(s, 1, n)[k] = s[k]
            BY <3>1, ElemsOfCut
        <3> DEFINE front == SubSeq(s, 1, n)
        <3>3. front \in Seq(Tokens) /\ Len(front) = n /\ \A k \in 1..n : front[k] = s[k]
            BY <3>2
        <3> HIDE DEF front
        <3>4. front = s
            BY <3>1, <3>3, SeqEqual
        <3> QED BY <3>4 DEF front, s
    <2>2. Len(reply_buffer[i]) \in 0..Len(reply_buffer[i])
        BY <1>1
    <2> QED BY <1>2, <2>1, <2>2 DEF Write, reply_buffer_of
<1>3. CASE WriteError(i)
    <2>1. PICK n \in 0..(Len(reply_buffer[i]) - 1) :
              replies' = [replies EXCEPT ![i] = @ \o SubSeq(reply_buffer[i], 1, n)]
        BY <1>3 DEF WriteError, reply_buffer_of
    <2>2. n \in 0..Len(reply_buffer[i]) /\ Len(reply_buffer[i]) # 0
        BY <1>1, <2>1
    <2>3. reply_buffer[i] # <<>> /\ pipe_state[i] # "broken"
        BY <1>3, <2>2 DEF WriteError
    <2> QED BY <2>1, <2>2, <2>3
<1> QED BY <1>2, <1>3

LEMMA WriteKeepsData ==
    ASSUME PipeInv, NEW i \in Pipes, Write(i) \/ WriteError(i), NEW j \in Pipes
    PROVE  DataInv(j)'
<1> USE DEF server_vars, config_vars, start_vars, pipe_vars, client_vars
<1>0. TypeOK /\ DataInv(i) /\ DataInv(j) /\ Pending(i) = <<>>
    BY DEF PipeInv, Write, WriteError, Pending
<1> DEFINE c == client_of[i]
<1>1. /\ UNCHANGED <<client_of, got, requests, request, reply_buffer, asked, emptied>>
      /\ thread_pc'[i] # "handle"
      /\ \A k \in Pipes : k # i => thread_pc'[k] = thread_pc[k] /\ replies'[k] = replies[k]
    BY <1>0 DEF Write, WriteError, TypeOK
<1>2. CASE j # i
    BY <1>0, <1>1, <1>2, DataSame
<1>3. CASE j = i /\ replies' = replies
    BY <1>0, <1>1, <1>3, DataSame
<1>4. CASE j = i /\ \E n \in 0..Len(reply_buffer[i]) :
                        replies' = [replies EXCEPT ![i] = @ \o SubSeq(reply_buffer[i], 1, n)]
    <2>0. PICK n \in 0..Len(reply_buffer[i]) :
              replies' = [replies EXCEPT ![i] = @ \o SubSeq(reply_buffer[i], 1, n)]
        BY <1>4
    <2> DEFINE part == SubSeq(reply_buffer[i], 1, n)
    <2>1. replies'[i] = replies[i] \o part
        BY <1>0, <2>0 DEF TypeOK
    <2>a. reply_buffer[i] \in Seq(Tokens) /\ replies[i] \in Seq(Tokens)
        BY <1>0, PipeTypes
    <2>b. part \in Seq(Tokens) /\ Elems(part) \subseteq Elems(reply_buffer[i])
        BY <2>a, ElemsOfCut, ElemsOfParts
    <2> HIDE DEF part
    <2>2. Elems(replies[i] \o part) = Elems(replies[i]) \cup Elems(part)
        BY <2>a, <2>b, ElemsOfConcat
    <2> SUFFICES ASSUME c \in Clients PROVE DataInv(i)'
        BY <1>1, <1>4 DEF DataInv
    <2>3. Elems(replies[i])' = Elems(replies[i]) \cup Elems(part)
        BY <2>1, <2>2 DEF Elems
    <2>4. /\ Sent(i)' = Sent(i) \cup Elems(part)
          /\ Elems(reply_buffer[i])' = Elems(reply_buffer[i])
          /\ Elems(requests[i])' = Elems(requests[i]) /\ Elems(Pending(i))' = {}
        BY <1>1, <2>3, ElemsOfEmpty DEF Sent, Elems, Pending
    <2>5. /\ Asked(c, Sent(i))
          /\ reply_buffer[i] = <<>> \/ Uniform(c, reply_buffer[i])
          /\ \A x \in Elems(requests[i]) :
                 x[1] = c /\ x[2] \in 0..asked[c] /\ (x[2] = 0 => c \in emptied)
          /\ NotAfter(Sent(i), Elems(reply_buffer[i]))
          /\ NotAfter(Sent(i) \cup Elems(reply_buffer[i]), Elems(requests[i]))
          /\ Sorted(requests[i])
        BY <1>0 DEF DataInv, NotAfter
    <2>6. Asked(c, Elems(reply_buffer[i])) /\ NotAfter(Elems(reply_buffer[i]), Elems(reply_buffer[i]))
        <3>1. CASE reply_buffer[i] = <<>>
            BY <3>1, ElemsOfEmpty DEF Asked, NotAfter
        <3>2. CASE Uniform(c, reply_buffer[i])
            BY <1>0, <3>2, UniformIsAsked
        <3> QED BY <2>5, <3>1, <3>2
    <2>7. c' = c /\ asked' = asked /\ emptied' = emptied /\ requests' = requests
        BY <1>1
    <2>8. (Asked(c, Sent(i)) /\ Asked(c, Elems(Pending(i))))'
        BY <2>b, <2>4, <2>5, <2>6, <2>7 DEF Asked
    <2>9. (reply_buffer[i] = <<>> \/ Uniform(c, reply_buffer[i]))'
        BY <1>1, <2>5, <2>7 DEF Uniform
    <2>10. \A x \in Elems(requests[i])' :
               x[1] = c' /\ x[2] \in 0..asked'[c'] /\ (x[2] = 0 => c' \in emptied')
        BY <2>4, <2>5, <2>7
    <2>11. /\ NotAfter(Sent(i), Elems(reply_buffer[i]))'
           /\ NotAfter(Sent(i) \cup Elems(reply_buffer[i]), Elems(Pending(i)))'
           /\ NotAfter(Sent(i) \cup Elems(reply_buffer[i]) \cup Elems(Pending(i)), Elems(requests[i]))'
        BY <2>b, <2>4, <2>5, <2>6 DEF NotAfter
    <2>12. Sorted(requests[i])'
        BY <2>5, <2>7 DEF Sorted
    <2> HIDE DEF c
    <2> QED BY <2>8, <2>9, <2>10, <2>11, <2>12 DEF DataInv, c
<1> QED BY <1>2, <1>3, <1>4, WriteSends

(* A request is no older than those that wait.                             *)
LEMMA SortedAppend ==
    ASSUME NEW s \in Seq(Tokens), NEW t \in Tokens, Sorted(s),
           \A x \in Elems(s) : t[2] # 0 => x[2] <= t[2]
    PROVE  Sorted(Append(s, t))
<1> DEFINE longer == Append(s, t)
<1>1. /\ Len(longer) = Len(s) + 1 /\ Len(s) \in Nat /\ t[2] \in Nat
      /\ \A k \in 1..Len(s) : longer[k] = s[k]
      /\ longer[Len(s) + 1] = t
    BY PipeAssumption DEF Tokens
<1> HIDE DEF longer
<1> SUFFICES ASSUME NEW k \in 1..(Len(s) + 1), NEW l \in 1..(Len(s) + 1), k <= l, longer[l][2] # 0
             PROVE  longer[k][2] <= longer[l][2]
    BY <1>1 DEF Sorted, longer
<1>2. CASE l \in 1..Len(s)
    <2>1. k \in 1..Len(s)
        BY <1>1, <1>2
    <2> QED BY <1>1, <1>2, <2>1 DEF Sorted
<1>3. CASE l = Len(s) + 1 /\ k \in 1..Len(s)
    <2>1. longer[k] \in Elems(s)
        BY <1>1, <1>3 DEF Elems
    <2> QED BY <1>1, <1>3, <2>1
<1>4. CASE l = Len(s) + 1 /\ k = Len(s) + 1
    BY <1>1, <1>4
<1>5. l \in 1..Len(s) \/ l = Len(s) + 1
    BY <1>1
<1>6. k \in 1..Len(s) \/ k = Len(s) + 1
    BY <1>1
<1> QED BY <1>2, <1>3, <1>4, <1>5, <1>6

(* What a client writes is newer than all that is on its way.              *)
LEMMA ClientWriteKeepsData ==
    ASSUME PipeInv, NEW c \in Clients, NEW i \in Pipes, ClientWrite(c, i), NEW j \in Pipes
    PROVE  DataInv(j)'
<1> USE DEF server_vars, config_vars, start_vars, pipe_vars, thread_vars
<1>0. TypeOK /\ DataInv(i) /\ DataInv(j) /\ ClientInv /\ c # Nobody
    BY PipeAssumption DEF PipeInv, ControlInv
<1>1. /\ UNCHANGED <<client_of, got, replies, reply_buffer, request, thread_pc>>
      /\ client_of[i] = c /\ emptied \subseteq emptied'
      /\ \A k \in Pipes : k # i => requests'[k] = requests[k]
      /\ \A d \in Clients : d # c => asked'[d] = asked[d]
    BY <1>0 DEF ClientWrite, TypeOK
<1>2. CASE j # i
    <2>1. client_of[j] # c
        BY <1>0, <1>1, <1>2 DEF ClientInv
    <2>2. CASE client_of[j] \in Clients
        BY <1>0, <1>1, <1>2, <2>1, <2>2, DataSame
    <2>3. CASE client_of[j] \notin Clients
        BY <1>1, <2>3 DEF DataInv
    <2> QED BY <2>2, <2>3
<1>3. CASE j = i /\ requests' = requests /\ asked' = asked
    BY <1>0, <1>1, <1>3, DataSame
<1>4. ASSUME j = i,
             \/ /\ asked[c] < MaxRequests
                /\ requests' = [requests EXCEPT ![i] = Append(@, <<c, asked[c] + 1>>)]
                /\ asked' = [asked EXCEPT ![c] = @ + 1]
             \/ /\ requests' = [requests EXCEPT ![i] = Append(@, <<c, 0>>)]
                /\ emptied' = emptied \cup {c}
                /\ asked' = asked
      PROVE  DataInv(i)'
    <2>1. /\ asked[c] \in 0..MaxRequests /\ asked[c] \in Nat /\ MaxRequests \in Nat
          /\ requests[i] \in Seq(Tokens)
        BY <1>0, PipeTypes, PipeAssumption DEF TypeOK
    <2>2. PICK v \in 0..MaxRequests :
              /\ requests'[i] = Append(requests[i], <<c, v>>)
              /\ asked'[c] \in Nat /\ asked[c] <= asked'[c] /\ v <= asked'[c]
              /\ v # 0 => v = asked[c] + 1
              /\ v = 0 => c \in emptied'
        <3>1. CASE asked' = asked /\ requests' = [requests EXCEPT ![i] = Append(@, <<c, 0>>)]
                   /\ emptied' = emptied \cup {c}
            <4>1. requests'[i] = Append(requests[i], <<c, 0>>)
                BY <1>0, <3>1 DEF TypeOK
            <4> QED BY <2>1, <3>1, <4>1
        <3>2. CASE /\ asked[c] < MaxRequests
                   /\ requests' = [requests EXCEPT ![i] = Append(@, <<c, asked[c] + 1>>)]
                   /\ asked' = [asked EXCEPT ![c] = @ + 1]
            <4>1. requests'[i] = Append(requests[i], <<c, asked[c] + 1>>)
                BY <1>0, <3>2 DEF TypeOK
            <4>2. asked'[c] = asked[c] + 1
                BY <1>0, <3>2 DEF TypeOK
            <4>3. asked[c] + 1 \in 0..MaxRequests /\ asked[c] + 1 # 0
                BY <2>1, <3>2
            <4> QED BY <2>1, <4>1, <4>2, <4>3
        <3> QED BY <1>4, <3>1, <3>2
    <2> DEFINE t == <<c, v>>
    <2>3. t \in Tokens /\ t[1] = c /\ t[2] = v
        BY DEF Tokens
    <2> HIDE DEF t
    <2>4. /\ Asked(c, Sent(i)) /\ Asked(c, Elems(Pending(i)))
          /\ reply_buffer[i] = <<>> \/ Uniform(c, reply_buffer[i])
          /\ \A x \in Elems(requests[i]) :
                 x[1] = c /\ x[2] \in 0..asked[c] /\ (x[2] = 0 => c \in emptied)
          /\ NotAfter(Sent(i), Elems(reply_buffer[i]))
          /\ NotAfter(Sent(i) \cup Elems(reply_buffer[i]), Elems(Pending(i)))
          /\ NotAfter(Sent(i) \cup Elems(reply_buffer[i]) \cup Elems(Pending(i)), Elems(requests[i]))
          /\ Sorted(requests[i])
        BY <1>0, <1>1 DEF DataInv
    <2>5. Asked(c, Elems(reply_buffer[i]))
        <3>1. CASE reply_buffer[i] = <<>>
            BY <3>1, ElemsOfEmpty DEF Asked
        <3>2. CASE Uniform(c, reply_buffer[i])
            BY <1>0, <3>2, UniformIsAsked
        <3> QED BY <2>4, <3>1, <3>2
    <2>6. requests'[i] = Append(requests[i], t)
        BY <2>2 DEF t
    <2>7. Elems(Append(requests[i], t)) = Elems(requests[i]) \cup {t}
        BY <2>1, <2>3, ElemsOfAppend
    <2>8. Elems(requests[i])' = Elems(requests[i]) \cup {t}
        BY <2>6, <2>7 DEF Elems
    <2>9. Sorted(Append(requests[i], t))
        <3>1. \A x \in Elems(requests[i]) : t[2] # 0 => x[2] <= t[2]
            BY <2>1, <2>2, <2>3, <2>4
        <3> QED BY <2>1, <2>3, <2>4, <3>1, SortedAppend
    <2>10. Sorted(requests[i])'
        BY <2>6, <2>9 DEF Sorted
    <2>11. Sent(i)' = Sent(i) /\ Elems(reply_buffer[i])' = Elems(reply_buffer[i])
           /\ Elems(Pending(i))' = Elems(Pending(i)) /\ client_of'[i] = c
        BY <1>1 DEF Sent, Elems, Pending
    <2>12. 1..asked[c] \subseteq 1..asked'[c] /\ 0..asked[c] \subseteq 0..asked'[c]
        BY <2>1, <2>2
    <2>13. Asked(c, Sent(i))' /\ Asked(c, Elems(Pending(i)))'
        BY <2>4, <2>11, <2>12 DEF Asked
    <2>14. (reply_buffer[i] = <<>> \/ Uniform(c, reply_buffer[i]))'
        BY <1>1, <2>4, <2>12 DEF Uniform
    <2>15. \A x \in Elems(requests[i])' :
               x[1] = c /\ x[2] \in 0..asked'[c] /\ (x[2] = 0 => c \in emptied')
        BY <1>1, <2>1, <2>2, <2>3, <2>4, <2>8, <2>12
    <2>16. NotAfter(Sent(i) \cup Elems(reply_buffer[i]) \cup Elems(Pending(i)), {t})
        BY <2>1, <2>2, <2>3, <2>4, <2>5 DEF NotAfter, Asked
    <2>17. /\ NotAfter(Sent(i), Elems(reply_buffer[i]))'
           /\ NotAfter(Sent(i) \cup Elems(reply_buffer[i]), Elems(Pending(i)))'
           /\ NotAfter(Sent(i) \cup Elems(reply_buffer[i]) \cup Elems(Pending(i)), Elems(requests[i]))'
        BY <2>4, <2>8, <2>11, <2>16 DEF NotAfter
    <2> QED BY <2>10, <2>11, <2>13, <2>14, <2>15, <2>17 DEF DataInv
<1> QED BY <1>2, <1>3, <1>4 DEF ClientWrite

(* A client comes to an instance that is empty, with nothing read.         *)
LEMMA OpenKeepsData ==
    ASSUME PipeInv, NEW c \in Clients, OpenPipe(c), NEW j \in Pipes
    PROVE  DataInv(j)'
<1> USE DEF server_vars, config_vars, start_vars, pipe_vars, thread_vars, data_vars
<1>0. TypeOK /\ DataInv(j) /\ FreshInv /\ ClientInv
    BY DEF PipeInv, ControlInv
<1>1. /\ UNCHANGED <<got, requests, replies, reply_buffer, request, thread_pc, asked, emptied>>
      /\ client_pc[c] = "new"
    BY DEF OpenPipe
<1>2. CASE client_of'[j] = client_of[j]
    BY <1>0, <1>1, <1>2, DataSame
<1>3. CASE client_of'[j] # client_of[j]
    <2>1. j \in Listening /\ client_of'[j] = c
        BY <1>0, <1>3 DEF OpenPipe, TypeOK
    <2>2. /\ thread_pc[j] = "none" /\ reply_buffer[j] = <<>> /\ requests[j] = <<>>
          /\ replies[j] = <<>> /\ got[c] = <<>>
        BY <1>0, <1>1, <2>1 DEF FreshInv, ClientInv, Listening
    <2>3. /\ Sent(j)' = {} /\ Elems(reply_buffer[j])' = {} /\ Elems(Pending(j))' = {}
          /\ Elems(requests[j])' = {} /\ reply_buffer'[j] = <<>>
        BY <1>1, <2>1, <2>2, ElemsOfEmpty DEF Sent, Pending, Elems
    <2>4. Sorted(requests[j])'
        BY <1>1, <2>2 DEF Sorted
    <2> QED BY <2>3, <2>4 DEF DataInv, Asked, NotAfter
<1> QED BY <1>2, <1>3

(* What a client reads moves from its pipe to what it has got.             *)
LEMMA ClientReadKeepsData ==
    ASSUME PipeInv, NEW c \in Clients, NEW i \in Pipes, ClientRead(c, i), NEW j \in Pipes
    PROVE  DataInv(j)'
<1> USE DEF server_vars, config_vars, start_vars, pipe_vars, thread_vars
<1>0. TypeOK /\ DataInv(j) /\ ClientInv /\ c # Nobody
    BY PipeAssumption DEF PipeInv, ControlInv
<1>1. /\ UNCHANGED <<client_of, requests, reply_buffer, request, thread_pc, asked, emptied>>
      /\ client_of[i] = c
      /\ \A k \in Pipes : k # i => replies'[k] = replies[k]
      /\ \A d \in Clients : d # c => got'[d] = got[d]
    BY <1>0 DEF ClientRead, TypeOK
<1>2. CASE j # i
    <2>1. client_of[j] # c
        BY <1>0, <1>1, <1>2 DEF ClientInv
    <2>2. CASE client_of[j] \in Clients
        BY <1>0, <1>1, <1>2, <2>1, <2>2, DataSame
    <2>3. CASE client_of[j] \notin Clients
        BY <1>1, <2>3 DEF DataInv
    <2> QED BY <2>2, <2>3
<1>3. CASE j = i
    <2>1. replies[i] \in Seq(Tokens) /\ got[c] \in Seq(Tokens)
        BY <1>0, PipeTypes DEF TypeOK
    <2>2. PICK n \in 0..Len(replies[i]) :
              /\ got' = [got EXCEPT ![c] = @ \o SubSeq(replies[i], 1, n)]
              /\ replies' = [replies EXCEPT ![i] = SubSeq(@, n + 1, Len(@))]
        <3> DEFINE n == IF Len(replies[i]) < ReadSize THEN Len(replies[i]) ELSE ReadSize
        <3>1. n \in 0..Len(replies[i])
            BY <2>1, PipeAssumption
        <3> QED BY <3>1 DEF ClientRead
    <2> DEFINE front == SubSeq(replies[i], 1, n)
               rest  == SubSeq(replies[i], n + 1, Len(replies[i]))
    <2>3. got'[c] = got[c] \o front /\ replies'[i] = rest
        BY <1>0, <2>2 DEF TypeOK
    <2>4. front \in Seq(Tokens) /\ rest \in Seq(Tokens)
        BY <2>1, ElemsOfCut
    <2>5. Elems(replies[i]) = Elems(front) \cup Elems(rest)
        BY <2>1, ElemsOfParts
    <2> HIDE DEF front, rest
    <2>6. Elems(got[c] \o front) = Elems(got[c]) \cup Elems(front)
        BY <2>1, <2>4, ElemsOfConcat
    <2>10. Elems(got'[c]) = Elems(got[c]) \cup Elems(front) /\ Elems(replies'[i]) = Elems(rest)
        BY <2>3, <2>6
    <2>11. Sent(i)' = Elems(got'[c]) \cup Elems(replies'[i])
        BY <1>1 DEF Sent, Elems
    <2>7. Sent(i)' = Sent(i)
        BY <1>1, <2>5, <2>10, <2>11 DEF Sent
    <2>8. Elems(Pending(i))' = Elems(Pending(i))
        BY <1>1 DEF Pending, Elems
    <2>9. asked[c] \in Nat /\ asked'[c] \in Nat /\ asked[c] <= asked'[c]
        BY <1>0, <1>1, AskedIsNat
    <2> QED BY <1>0, <1>1, <1>3, <2>7, <2>8, <2>9, DataKept
<1> QED BY <1>2, <1>3

LEMMA DataStep == PipeInv /\ [Next]_vars => \A i \in Pipes : DataInv(i)'
<1> SUFFICES ASSUME PipeInv, [Next]_vars, NEW j \in Pipes PROVE DataInv(j)'
    OBVIOUS
<1> USE DEF server_vars, config_vars, start_vars, pipe_vars, thread_vars, data_vars, client_vars
<1>0. TypeOK /\ DataInv(j)
    BY DEF PipeInv
<1>1. ASSUME NEW s \in Setters, Setter(s) PROVE DataInv(j)'
    BY <1>0, <1>1, DataSame DEF Setter, SetCheck, SetAssign
<1>2. CASE CreateServer \/ StartServer
    BY <1>0, <1>2, DataSame DEF CreateServer, StartServer
<1>3. CASE CreateNamedPipe
    BY <1>0, <1>3, DataSame DEF CreateNamedPipe
<1>4. CASE ConnectNamedPipe \/ Connected
    BY <1>0, <1>4, DataSame DEF ConnectNamedPipe, Connected
<1>5. CASE Spawn
    <2>1. /\ UNCHANGED <<client_of, request, reply_buffer, data_vars, client_vars>>
          /\ thread_pc'[j] # "handle" \/ thread_pc'[j] = thread_pc[j]
        BY <1>0, <1>5 DEF Spawn, TypeOK
    <2> QED BY <1>0, <2>1, DataSame
<1>6. ASSUME NEW i \in Pipes, HandlerStart(i) PROVE DataInv(j)'
    <2>1. /\ UNCHANGED <<client_of, request, reply_buffer, data_vars, client_vars>>
          /\ thread_pc'[j] # "handle" \/ thread_pc'[j] = thread_pc[j]
        BY <1>0, <1>6 DEF HandlerStart, TypeOK
    <2> QED BY <1>0, <2>1, DataSame
<1>7. ASSUME NEW i \in Pipes, Close(i) \/ FlushError(i) \/ ReadError(i) PROVE DataInv(j)'
    <2>1. /\ UNCHANGED <<client_of, request, reply_buffer, client_vars>>
          /\ replies'[j] = replies[j] \/ replies'[j] = <<>>
          /\ requests'[j] = requests[j] \/ requests'[j] = <<>>
          /\ thread_pc'[j] # "handle" \/ thread_pc'[j] = thread_pc[j]
        BY <1>0, <1>7 DEF Close, FlushError, Disconnect, ReadError, after_failed_read, TypeOK
    <2> QED BY <1>0, <2>1, DataSame
<1>8. ASSUME NEW i \in Pipes, client_handler(i) \/ handler_error(i) PROVE DataInv(j)'
    BY <1>6, <1>7, <1>8, ReadKeepsData, HandleKeepsData, WriteKeepsData DEF client_handler, handler_error
<1>9. ASSUME NEW c \in Clients,
             WaitPipe(c) \/ SetMode(c) \/ ClientRefused(c) \/ \E i \in Pipes : ClientWaits(c, i)
      PROVE  DataInv(j)'
    BY <1>0, <1>9, DataSame DEF WaitPipe, SetMode, ClientRefused, ClientWaits
<1>10. ASSUME NEW c \in Clients, ClientExit(c) PROVE DataInv(j)'
    BY <1>0, <1>10, DataSame DEF ClientExit
<1>11. ASSUME NEW c \in Clients, Client(c) PROVE DataInv(j)'
    BY <1>9, <1>10, <1>11, OpenKeepsData, ClientReadKeepsData, ClientWriteKeepsData DEF Client
<1>12. CASE UNCHANGED vars
    BY <1>0, <1>12, DataSame DEF vars
<1> QED BY <1>1, <1>2, <1>3, <1>4, <1>5, <1>8, <1>11, <1>12 DEF Next, Server

LEMMA PipeInvStep == PipeInv /\ [Next]_vars => PipeInv'
BY PipeTypeStep, LateStep, ControlStep, DataStep DEF PipeInv

LEMMA PipeInvHolds == Spec => []PipeInv
BY PipeInvInit, PipeInvStep, PTL DEF Spec

-----------------------------------------------------------------------------
(* The refinement.                                                         *)

StreamFacts ==
    /\ stream = [c \in Clients |-> stream[c]]
    /\ \A c \in Clients, i \in Pipes : client_of[i] = c => stream[c] = got[c] \o replies[i]
    /\ \A c \in Clients : (\A i \in Pipes : client_of[i] # c) => stream[c] = got[c]

LEMMA StreamIs == ClientInv => StreamFacts
<1> SUFFICES ASSUME ClientInv
             PROVE  /\ \A c \in Clients, i \in Pipes :
                           client_of[i] = c => stream[c] = got[c] \o replies[i]
                    /\ \A c \in Clients : (\A i \in Pipes : client_of[i] # c) => stream[c] = got[c]
    BY DEF StreamFacts, stream
<1>1. ASSUME NEW c \in Clients, NEW i \in Pipes, client_of[i] = c
      PROVE  stream[c] = got[c] \o replies[i]
    <2>1. (CHOOSE k \in Pipes : client_of[k] = c) = i
        BY <1>1, PipeAssumption DEF ClientInv
    <2> QED BY <1>1, <2>1 DEF stream
<1>2. ASSUME NEW c \in Clients, \A i \in Pipes : client_of[i] # c
      PROVE  stream[c] = got[c]
    BY <1>2 DEF stream
<1> QED BY <1>1, <1>2

LEMMA StreamIsNext == ClientInv' => StreamFacts'
BY StreamIs, PTL

(* The instances closed after a failed call: who had them is not served.   *)
Lost(i) == i \in failed /\ pipe_state[i] = "closed"

LEMMA HereIs ==
    ASSUME TypeOK, NEW c \in Clients
    PROVE  here[c] = (client_pc[c] # "gone" /\ \A i \in Pipes : client_of[i] = c => ~ Lost(i))
<1>1. failed \subseteq Pipes
    BY DEF TypeOK
<1>2. here[c] = (client_pc[c] # "gone" /\ \A i \in failed : client_of[i] = c => pipe_state[i] # "closed")
    BY Zenon DEF here
<1> QED BY <1>1, <1>2 DEF Lost

LEMMA HereIsNext ==
    ASSUME TypeOK', NEW c \in Clients
    PROVE  here'[c] = (client_pc'[c] # "gone" /\ \A i \in Pipes : client_of'[i] = c => ~ Lost(i)')
<1>1. failed' \subseteq Pipes
    BY DEF TypeOK
<1>2. here'[c] = (client_pc'[c] # "gone"
                      /\ \A i \in failed' : client_of'[i] = c => pipe_state'[i] # "closed")
    BY Zenon DEF here
<1> QED BY <1>1, <1>2 DEF Lost

(* A step after which the same clients are there and served.               *)
LEMMA HereKept ==
    ASSUME TypeOK, TypeOK',
           \A c \in Clients : client_pc'[c] = "gone" <=> client_pc[c] = "gone",
           \A i \in Pipes : \/ client_of'[i] = client_of[i] /\ (Lost(i)' <=> Lost(i))
                            \/ ~ Lost(i) /\ ~ Lost(i)'
    PROVE  here' = here
<1>1. \A c \in Clients : here'[c] = here[c]
    <2> TAKE c \in Clients
    <2> DEFINE old == client_pc[c] # "gone" /\ \A i \in Pipes : client_of[i] = c => ~ Lost(i)
               new == client_pc'[c] # "gone" /\ \A i \in Pipes : client_of'[i] = c => ~ Lost(i)'
    <2>1. here[c] = old /\ here'[c] = new
        BY HereIs, HereIsNext
    <2>2. old <=> new
        OBVIOUS
    <2>3. old = new
        BY <2>2
    <2> QED BY <2>1, <2>3
<1>2. here = [c \in Clients |-> here[c]] /\ here' = [c \in Clients |-> here'[c]]
    BY Zenon DEF here
<1> QED BY <1>1, <1>2, Zenon

(* A client that is not there, or is no longer served, after a step that   *)
(* changes this for no other.                                              *)
LEMMA HereLeft ==
    ASSUME TypeOK, TypeOK', NEW c \in Clients, client_of' = client_of,
           \A d \in Clients : d # c => (client_pc'[d] = "gone" <=> client_pc[d] = "gone"),
           \A i \in Pipes : client_of[i] # c => (Lost(i)' <=> Lost(i)),
           client_pc'[c] = "gone" \/ \E i \in Pipes : client_of[i] = c /\ Lost(i)'
    PROVE  here' = [here EXCEPT ![c] = FALSE]
<1>1. ~ here'[c] /\ here'[c] = FALSE
    <2> DEFINE new == client_pc'[c] # "gone" /\ \A i \in Pipes : client_of'[i] = c => ~ Lost(i)'
    <2>1. here'[c] = new
        BY HereIsNext
    <2>2. ~ new
        OBVIOUS
    <2>3. new = FALSE
        BY <2>2
    <2> QED BY <2>1, <2>3
<1>2. ASSUME NEW d \in Clients, d # c PROVE here'[d] = here[d]
    <2> DEFINE old == client_pc[d] # "gone" /\ \A i \in Pipes : client_of[i] = d => ~ Lost(i)
               new == client_pc'[d] # "gone" /\ \A i \in Pipes : client_of'[i] = d => ~ Lost(i)'
    <2>1. here[d] = old /\ here'[d] = new
        BY HereIs, HereIsNext
    <2>2. old <=> new
        BY <1>2
    <2>3. old = new
        BY <2>2
    <2> QED BY <2>1, <2>3
<1>3. here = [d \in Clients |-> here[d]] /\ here' = [d \in Clients |-> here'[d]]
    BY Zenon DEF here
<1>4. \A d \in Clients : here'[d] = IF d = c THEN FALSE ELSE here[d]
    BY <1>1, <1>2
<1> DEFINE f == here
           g == here'
<1>5. f = [d \in Clients |-> f[d]] /\ g = [d \in Clients |-> g[d]]
      /\ \A d \in Clients : g[d] = IF d = c THEN FALSE ELSE f[d]
    BY <1>3, <1>4
<1> HIDE DEF f, g
<1>6. g = [f EXCEPT ![c] = FALSE]
    BY <1>5
<1> QED BY <1>6 DEF f, g

LEMMA SessionInit == Init => Session!Init
<1> SUFFICES ASSUME Init PROVE Session!Init
    OBVIOUS
<1>1. \A c \in Clients, i \in Pipes : client_of[i] # c
    BY PipeAssumption DEF Init
<1>2. stream = [c \in Clients |-> <<>>]
    <2>1. \A c \in Clients : got[c] = <<>>
        BY DEF Init
    <2> QED BY <1>1, <2>1, Zenon DEF stream
<1>3. \A c \in Clients :
          (client_pc[c] # "gone" /\ \A i \in failed : client_of[i] = c => pipe_state[i] # "closed") = TRUE
    BY DEF Init
<1>4. here = [c \in Clients |-> TRUE]
    BY <1>3, Zenon DEF here
<1>5. asked = [c \in Clients |-> 0]
    BY DEF Init
<1> QED BY <1>2, <1>4, <1>5, Zenon DEF Session!Init

(* A step of the server that sends a reply, or a part of it, is an answer. *)
LEMMA SessionAnswer ==
    ASSUME PipeInv, PipeInv', NEW i \in Pipes, Write(i) \/ WriteError(i)
    PROVE  (\E c \in Clients : Session!Answer(c)) \/ UNCHANGED Session!session_vars
<1> USE DEF server_vars, config_vars, start_vars, pipe_vars, thread_vars, data_vars, client_vars
<1>0. /\ TypeOK /\ TypeOK' /\ ClientInv /\ ThreadInv /\ ClientInv' /\ DataInv(i)
      /\ UNCHANGED <<client_of, pipe_state, got, asked, client_pc>>
      /\ pipe_state[i] \in {"connected", "broken"}
    BY DEF PipeInv, ControlInv, ThreadInv, Write, WriteError
<1>a. here' = here
    <2>1. \A k \in Pipes : Lost(k)' <=> Lost(k)
        <3>1. \A k \in Pipes : k # i => (k \in failed' <=> k \in failed)
            BY DEF Write, WriteError, SystemFails
        <3> QED BY <1>0, <3>1 DEF Lost
    <2> QED BY <1>0, <2>1, HereKept
<1>1. CASE replies' = replies
    BY <1>0, <1>a, <1>1 DEF Session!session_vars, stream
<1>2. CASE /\ reply_buffer[i] # <<>> /\ pipe_state[i] # "broken"
           /\ \E n \in 0..Len(reply_buffer[i]) :
                 replies' = [replies EXCEPT ![i] = @ \o SubSeq(reply_buffer[i], 1, n)]
    <2> DEFINE c == client_of[i]
    <2>1. c \in Clients /\ client_pc[c] # "gone"
        BY <1>0, <1>2 DEF ClientInv
    <2>2. here[c]
        <3>1. \A k \in Pipes : client_of[k] = c => k = i
            BY <1>0, <2>1, PipeAssumption DEF ClientInv
        <3>2. client_pc[c] # "gone" /\ \A k \in Pipes : client_of[k] = c => ~ Lost(k)
            BY <1>0, <2>1, <3>1 DEF Lost
        <3> QED BY <1>0, <2>1, <3>2, HereIs
    <2>3. PICK r \in 1..asked[c], n \in 1..MaxReply : reply_buffer[i] = Repeated(<<c, r>>, n)
        BY <1>0, <1>2, <2>1 DEF DataInv, Uniform
    <2> DEFINE token == <<c, r>>
    <2>4. token \in Tokens /\ token[2] = r /\ r # 0 /\ n \in Nat /\ n \in 1..MaxReply
        <3>1. asked[c] \in 0..MaxRequests /\ MaxRequests \in Nat /\ MaxReply \in Nat
            BY <1>0, <2>1, PipeAssumption DEF TypeOK
        <3> QED BY <2>1, <3>1 DEF Tokens
    <2> HIDE DEF token
    <2>5. reply_buffer[i] = Repeated(token, n) /\ Len(reply_buffer[i]) = n
        BY <2>3, <2>4, ElemsOfRepeated DEF token
    <2>6. PICK m \in 0..n : replies' = [replies EXCEPT ![i] = @ \o SubSeq(reply_buffer[i], 1, m)]
        BY <1>2, <2>5
    <2> DEFINE part == Repeated(token, m)
    <2>7. m \in Nat /\ part \in Seq(Tokens) /\ Len(part) = m
        <3>1. m \in Nat
            BY <2>4
        <3> QED BY <2>4, <3>1, ElemsOfRepeated
    <2>8. SubSeq(reply_buffer[i], 1, m) = part
        BY <2>4, <2>5, PartOfRepeated
    <2>9. /\ got[c] \in Seq(Tokens) /\ replies[i] \in Seq(Tokens)
          /\ replies'[i] = replies[i] \o part
        BY <1>0, <2>1, <2>6, <2>8, PipeTypes DEF TypeOK
    <2> HIDE DEF part
    <2>10. stream[c] = got[c] \o replies[i] /\ stream'[c] = got[c] \o (replies[i] \o part)
        <3>1. stream'[c] = got'[c] \o replies'[i]
            BY <1>0, <2>1, StreamIsNext DEF StreamFacts
        <3> QED BY <1>0, <2>1, <2>9, <3>1, StreamIs DEF StreamFacts
    <2>11. stream'[c] = stream[c] \o part /\ stream[c] \in Seq(Tokens)
        <3>1. \A x, y, z \in Seq(Tokens) : (x \o y) \o z = x \o (y \o z)
            BY ConcatAssociative
        <3>2. got[c] \o replies[i] \in Seq(Tokens)
            BY <2>9, ConcatProperties
        <3>3. (got[c] \o replies[i]) \o part = got[c] \o (replies[i] \o part)
            BY <2>7, <2>9, <3>1
        <3>4. stream'[c] = (got[c] \o replies[i]) \o part
            BY <2>10, <3>3
        <3>5. stream[c] = got[c] \o replies[i]
            BY <2>10
        <3> QED BY <3>2, <3>4, <3>5
    <2>12. ASSUME NEW d \in Clients, d # c PROVE stream'[d] = stream[d]
        <3>1. \A k \in Pipes : client_of[k] = d => replies'[k] = replies[k]
            BY <1>0, <2>6, <2>12 DEF TypeOK
        <3>2. CASE \E k \in Pipes : client_of[k] = d
            <4>1. PICK k \in Pipes : client_of[k] = d
                BY <3>2
            <4>2. stream[d] = got[d] \o replies[k]
                BY <1>0, <4>1, StreamIs DEF StreamFacts
            <4>3. client_of'[k] = d
                BY <1>0, <4>1
            <4>4. stream'[d] = got'[d] \o replies'[k]
                BY <1>0, <4>3, StreamIsNext DEF StreamFacts
            <4> QED BY <1>0, <3>1, <4>1, <4>2, <4>4
        <3>3. CASE \A k \in Pipes : client_of[k] # d
            BY <1>0, <3>3, StreamIs, StreamIsNext DEF StreamFacts
        <3> QED BY <3>2, <3>3
    <2>13. stream' = [stream EXCEPT ![c] = @ \o part]
        BY <1>0, <2>1, <2>11, <2>12, StreamIs, StreamIsNext DEF StreamFacts
    <2>14. CASE m = 0
        <3>1. part = <<>>
            BY <2>7, <2>14
        <3>2. stream'[c] = stream[c]
            BY <2>11, <3>1, ConcatEmptySeq
        <3>3. stream' = stream
            BY <1>0, <2>1, <2>12, <3>2, StreamIs, StreamIsNext DEF StreamFacts
        <3> QED BY <1>0, <1>a, <3>3 DEF Session!session_vars
    <2>15. CASE m # 0
        <3>1. m \in 1..MaxReply
            BY <2>4, <2>7, <2>15, PipeAssumption
        <3>2. stream[c] # <<>> => stream[c][Len(stream[c])][2] <= r
            <4> SUFFICES ASSUME stream[c] # <<>> PROVE stream[c][Len(stream[c])][2] <= r
                OBVIOUS
            <4>1. Elems(stream[c]) = Sent(i)
                BY <2>9, <2>10, ElemsOfConcat DEF Sent
            <4>2. stream[c][Len(stream[c])] \in Elems(stream[c])
                BY <2>11 DEF Elems
            <4>3. token \in Elems(reply_buffer[i])
                <5>1. 1 \in 1..n /\ Repeated(token, n)[1] = token
                    BY <2>4 DEF Repeated
                <5> QED BY <2>5, <5>1 DEF Elems
            <4>4. NotAfter(Sent(i), Elems(reply_buffer[i]))
                BY <1>0, <2>1 DEF DataInv
            <4> DEFINE last == stream[c][Len(stream[c])]
            <4>5. last \in Sent(i)
                BY <4>1, <4>2
            <4> HIDE DEF last
            <4>6. last[2] <= r
                BY <2>4, <4>3, <4>4, <4>5 DEF NotAfter
            <4> QED BY <4>6 DEF last
        <3>3. part = [k \in 1..m |-> <<c, r>>]
            BY DEF part, Repeated, token
        <3>4. stream' = [stream EXCEPT ![c] = @ \o [k \in 1..m |-> <<c, r>>]]
            BY <2>13, <3>3
        <3> HIDE DEF c
        <3>5. Session!Answer(c)
            BY <1>0, <1>a, <2>2, <2>3, <3>1, <3>2, <3>4 DEF Session!Answer
        <3> QED BY <2>1, <3>5 DEF c
    <2> QED BY <2>14, <2>15
<1> QED BY <1>1, <1>2, WriteSends

(* The streams a step leaves as they are.                                  *)
LEMMA StreamKept ==
    ASSUME ClientInv, ClientInv', client_of' = client_of, NEW c \in Clients,
           (\A i \in Pipes : client_of[i] # c) => got'[c] = got[c],
           \A i \in Pipes : client_of[i] = c => got'[c] \o replies'[i] = got[c] \o replies[i]
    PROVE  stream'[c] = stream[c]
<1>1. CASE \E i \in Pipes : client_of[i] = c
    <2>1. PICK i \in Pipes : client_of[i] = c
        BY <1>1
    <2>2. stream[c] = got[c] \o replies[i]
        BY <2>1, StreamIs DEF StreamFacts
    <2>3. stream'[c] = got'[c] \o replies'[i]
        BY <2>1, StreamIsNext DEF StreamFacts
    <2> QED BY <2>1, <2>2, <2>3
<1>2. CASE \A i \in Pipes : client_of[i] # c
    BY <1>2, StreamIs, StreamIsNext DEF StreamFacts
<1> QED BY <1>1, <1>2

(* A client that comes to an instance has nothing to read in it.           *)
LEMMA SessionOpen ==
    ASSUME PipeInv, PipeInv', NEW c \in Clients, OpenPipe(c)
    PROVE  UNCHANGED Session!session_vars
<1> USE DEF server_vars, config_vars, start_vars, pipe_vars, thread_vars, data_vars
<1>0. /\ TypeOK /\ TypeOK' /\ ClientInv /\ ClientInv' /\ FreshInv
      /\ UNCHANGED <<got, replies, failed, asked>> /\ client_pc[c] = "new"
    BY DEF PipeInv, ControlInv, OpenPipe
<1>1. \A d \in Clients : client_pc'[d] = "gone" <=> client_pc[d] = "gone"
    BY <1>0 DEF OpenPipe, TypeOK, Fail
<1>2. here' = here
    <2>1. \A i \in Pipes : \/ client_of'[i] = client_of[i] /\ pipe_state'[i] = pipe_state[i]
                           \/ pipe_state[i] = "listening" /\ pipe_state'[i] = "connected"
        BY <1>0 DEF OpenPipe, Listening, TypeOK
    <2> QED BY <1>0, <1>1, <2>1, HereKept DEF Lost
<1>3. stream' = stream
    <2>1. CASE client_of' = client_of
        BY <1>0, <2>1 DEF stream
    <2>2. CASE \E i \in Listening : client_of' = [client_of EXCEPT ![i] = c]
        <3>1. PICK i \in Listening : client_of' = [client_of EXCEPT ![i] = c]
            BY <2>2
        <3>2. /\ i \in Pipes /\ client_of[i] = Nobody /\ client_of'[i] = c /\ replies[i] = <<>>
              /\ got[c] = <<>> /\ (\A k \in Pipes : client_of[k] # c)
              /\ (\A k \in Pipes : k # i => client_of'[k] = client_of[k])
            BY <1>0, <3>1 DEF FreshInv, ClientInv, Listening, TypeOK
        <3>3. stream'[c] = stream[c]
            <4>1. stream[c] = <<>>
                BY <1>0, <3>2, StreamIs DEF StreamFacts
            <4>2. stream'[c] = got'[c] \o replies'[i]
                BY <1>0, <3>2, StreamIsNext DEF StreamFacts
            <4>3. <<>> \o <<>> = <<>>
                OBVIOUS
            <4> QED BY <1>0, <3>2, <4>1, <4>2, <4>3
        <3>4. ASSUME NEW d \in Clients, d # c PROVE stream'[d] = stream[d]
            <4>1. \A k \in Pipes : (client_of'[k] = d) = (client_of[k] = d)
                BY <3>2, <3>4, PipeAssumption
            <4>2. CASE \E k \in Pipes : client_of[k] = d
                <5>1. PICK k \in Pipes : client_of[k] = d /\ client_of'[k] = d
                    BY <4>1, <4>2
                <5>2. stream[d] = got[d] \o replies[k]
                    BY <1>0, <5>1, StreamIs DEF StreamFacts
                <5>3. stream'[d] = got'[d] \o replies'[k]
                    BY <1>0, <5>1, StreamIsNext DEF StreamFacts
                <5> QED BY <1>0, <5>2, <5>3
            <4>3. CASE \A k \in Pipes : client_of[k] # d
                BY <1>0, <4>1, <4>3, StreamIs, StreamIsNext DEF StreamFacts
            <4> QED BY <4>2, <4>3
        <3> QED BY <1>0, <3>3, <3>4, StreamIs, StreamIsNext DEF StreamFacts
    <2> QED BY <2>1, <2>2 DEF OpenPipe
<1> QED BY <1>0, <1>2, <1>3 DEF Session!session_vars

(* What a client reads was already in its stream.                          *)
LEMMA SessionRead ==
    ASSUME PipeInv, PipeInv', NEW c \in Clients, NEW i \in Pipes, ClientRead(c, i)
    PROVE  UNCHANGED Session!session_vars
<1> USE DEF server_vars, config_vars, start_vars, pipe_vars, thread_vars
<1>0. /\ TypeOK /\ ClientInv /\ ClientInv' /\ UNCHANGED <<client_of, asked, client_pc>>
      /\ client_of[i] = c /\ c # Nobody /\ UNCHANGED here
    BY PipeAssumption DEF PipeInv, ControlInv, ClientRead, here
<1>1. PICK n \in 0..Len(replies[i]) :
          /\ got' = [got EXCEPT ![c] = @ \o SubSeq(replies[i], 1, n)]
          /\ replies' = [replies EXCEPT ![i] = SubSeq(@, n + 1, Len(@))]
    <2> DEFINE n == IF Len(replies[i]) < ReadSize THEN Len(replies[i]) ELSE ReadSize
    <2>1. replies[i] \in Seq(Tokens)
        BY <1>0, PipeTypes
    <2>2. n \in 0..Len(replies[i])
        BY <2>1, PipeAssumption
    <2> QED BY <2>2 DEF ClientRead
<1> DEFINE front == SubSeq(replies[i], 1, n)
           rest  == SubSeq(replies[i], n + 1, Len(replies[i]))
<1>2. got'[c] = got[c] \o front /\ replies'[i] = rest
    BY <1>0, <1>1 DEF TypeOK
<1>3. replies[i] \in Seq(Tokens) /\ got[c] \in Seq(Tokens)
    BY <1>0, PipeTypes DEF TypeOK
<1>4. front \in Seq(Tokens) /\ rest \in Seq(Tokens) /\ front \o rest = replies[i]
    BY <1>3, ElemsOfCut
<1> HIDE DEF front, rest
<1>5. (got[c] \o front) \o rest = got[c] \o replies[i]
    <2>1. \A x, y, z \in Seq(Tokens) : (x \o y) \o z = x \o (y \o z)
        BY ConcatAssociative
    <2>2. (got[c] \o front) \o rest = got[c] \o (front \o rest)
        BY <1>3, <1>4, <2>1
    <2> QED BY <1>4, <2>2
<1>6. ASSUME NEW d \in Clients PROVE stream'[d] = stream[d]
    <2>1. CASE d = c
        <3>1. \A k \in Pipes : client_of[k] = c => k = i
            BY <1>0 DEF ClientInv
        <3>2. got'[c] \o replies'[i] = got[c] \o replies[i]
            BY <1>2, <1>5
        <3> QED BY <1>0, <2>1, <3>1, <3>2, StreamKept
    <2>2. CASE d # c
        <3>1. got'[d] = got[d] /\ \A k \in Pipes : client_of[k] = d => replies'[k] = replies[k]
            BY <1>0, <1>1, <2>2 DEF TypeOK
        <3> QED BY <1>0, <3>1, StreamKept
    <2> QED BY <2>1, <2>2
<1>7. stream' = stream
    BY <1>0, <1>6, StreamIs, StreamIsNext DEF StreamFacts
<1> QED BY <1>0, <1>7 DEF Session!session_vars

(* A request is asked; an empty write, or one that fails, is no request.   *)
LEMMA SessionWrite ==
    ASSUME PipeInv, PipeInv', NEW c \in Clients, NEW i \in Pipes, ClientWrite(c, i)
    PROVE  Session!Ask(c) \/ UNCHANGED Session!session_vars
<1> USE DEF server_vars, config_vars, start_vars, pipe_vars, thread_vars
<1>0. TypeOK /\ TypeOK' /\ ClientInv
    BY DEF PipeInv, ControlInv
<1>1. /\ UNCHANGED <<client_of, got, replies, pipe_state, failed>> /\ client_of[i] = c
      /\ \A d \in Clients : client_pc'[d] = "gone" <=> client_pc[d] = "gone"
      /\ client_pc[c] # "gone"
    BY <1>0 DEF ClientWrite, TypeOK
<1>2. stream' = stream /\ here' = here
    <2>1. \A k \in Pipes : Lost(k)' <=> Lost(k)
        BY <1>1 DEF Lost
    <2> QED BY <1>0, <1>1, <2>1, HereKept DEF stream
<1>3. CASE asked' = asked
    BY <1>1, <1>2, <1>3 DEF Session!session_vars
<1>4. CASE pipe_state[i] = "connected" /\ asked[c] < MaxRequests /\ asked' = [asked EXCEPT ![c] = @ + 1]
    <2>1. \A k \in Pipes : client_of[k] = c => k = i
        BY <1>0, <1>1, PipeAssumption DEF ClientInv
    <2>2. client_pc[c] # "gone" /\ \A k \in Pipes : client_of[k] = c => ~ Lost(k)
        BY <1>1, <1>4, <2>1 DEF Lost
    <2>3. here[c]
        BY <1>0, <2>2, HereIs
    <2> QED BY <1>1, <1>2, <1>4, <2>3 DEF Session!Ask
<1> QED BY <1>3, <1>4 DEF ClientWrite

(* A stream loses a part of its end, if anything.                          *)
LEMMA SessionLeave ==
    ASSUME NEW c \in Clients, stream[c] \in Seq(Tokens), stream' = stream, asked' = asked,
           here' = [here EXCEPT ![c] = FALSE]
    PROVE  Session!Leave(c)
<1> DEFINE s == stream[c]
           n == Len(s)
<1>1. s \in Seq(Tokens) /\ n \in Nat /\ n \in 0..n
    OBVIOUS
<1> HIDE DEF s
<1>2. /\ SubSeq(s, 1, n) \in Seq(Tokens) /\ Len(SubSeq(s, 1, n)) = n
      /\ \A k \in 1..n : SubSeq(s, 1, n)[k] = s[k]
    BY <1>1, ElemsOfCut
<1> DEFINE front == SubSeq(s, 1, n)
<1>3. front \in Seq(Tokens) /\ Len(front) = n /\ \A k \in 1..n : front[k] = s[k]
    BY <1>2
<1> HIDE DEF front
<1>4. front = s
    BY <1>1, <1>3, SeqEqual
<1>5. stream' = [stream EXCEPT ![c] = stream[c]]
    <2>1. stream = [d \in Clients |-> stream[d]]
        BY Zenon DEF stream
    <2> QED BY <2>1
<1>6. stream' = [stream EXCEPT ![c] = SubSeq(@, 1, n)]
    BY <1>4, <1>5 DEF front, s
<1> QED BY <1>1, <1>6 DEF Session!Leave, s

(* What a client has in its stream is bytes of answers.                    *)
LEMMA StreamType ==
    ASSUME TypeOK, ClientInv, NEW c \in Clients
    PROVE  stream[c] \in Seq(Tokens)
<1>1. got[c] \in Seq(Tokens)
    BY DEF TypeOK
<1>2. CASE \E i \in Pipes : client_of[i] = c
    <2>1. PICK i \in Pipes : client_of[i] = c
        BY <1>2
    <2>2. stream[c] = got[c] \o replies[i] /\ replies[i] \in Seq(Tokens)
        BY <2>1, StreamIs, PipeTypes DEF StreamFacts
    <2>3. got[c] \o replies[i] \in Seq(Tokens)
        BY <1>1, <2>2, ElemsOfConcat
    <2> QED BY <2>2, <2>3
<1>3. CASE \A i \in Pipes : client_of[i] # c
    BY <1>1, <1>3, StreamIs DEF StreamFacts
<1> QED BY <1>2, <1>3

(* A client that exits leaves.                                             *)
LEMMA SessionExit ==
    ASSUME PipeInv, PipeInv', NEW c \in Clients, ClientExit(c)
    PROVE  Session!Leave(c)
<1> USE DEF server_vars, config_vars, start_vars, pipe_vars, thread_vars, data_vars
<1>0. TypeOK /\ TypeOK' /\ ClientInv
    BY DEF PipeInv, ControlInv
<1>1. /\ UNCHANGED <<client_of, got, replies, asked, failed>>
      /\ client_pc'[c] = "gone" /\ \A d \in Clients : d # c => client_pc'[d] = client_pc[d]
      /\ \A i \in Pipes : pipe_state'[i] = "closed" <=> pipe_state[i] = "closed"
    BY <1>0 DEF ClientExit, TypeOK
<1>2. stream' = stream /\ stream[c] \in Seq(Tokens)
    BY <1>0, <1>1, StreamType DEF stream
<1>3. here' = [here EXCEPT ![c] = FALSE]
    <2>1. \A i \in Pipes : Lost(i)' <=> Lost(i)
        BY <1>1 DEF Lost
    <2> QED BY <1>0, <1>1, <2>1, HereLeft
<1> QED BY <1>1, <1>2, <1>3, SessionLeave

(* The server hangs up on the instance it has just made.                   *)
LEMMA SessionAbandon ==
    ASSUME PipeInv, PipeInv', ConnectNamedPipe \/ Connected
    PROVE  (\E c \in Clients : Session!Leave(c)) \/ UNCHANGED Session!session_vars
<1> USE DEF server_vars, config_vars, start_vars, pipe_vars, thread_vars, data_vars, client_vars
<1>0. /\ TypeOK /\ TypeOK' /\ ClientInv /\ FreshInv /\ last_pipe \in Pipes
      /\ pipe_state[last_pipe] \in {"listening", "connected", "broken"}
      /\ UNCHANGED <<last_pipe, client_of, got, replies, asked, client_pc>> /\ stream' = stream
    BY DEF PipeInv, ControlInv, ServerInv, ConnectNamedPipe, Connected, stream
<1>1. CASE UNCHANGED <<pipe_state, failed>>
    <2>1. \A i \in Pipes : Lost(i)' <=> Lost(i)
        BY <1>1 DEF Lost
    <2>2. here' = here
        BY <1>0, <2>1, HereKept
    <2> QED BY <1>0, <2>2 DEF Session!session_vars
<1>2. CASE Abandon
    <2>1. /\ \A i \in Pipes : i # last_pipe => /\ pipe_state'[i] = pipe_state[i]
                                               /\ i \in failed' <=> i \in failed
          /\ pipe_state[last_pipe] = "connected" => last_pipe \in failed'
          /\ pipe_state'[last_pipe] = "closed"
        BY <1>0, <1>2 DEF Abandon, is_connected, TypeOK
    <2>2. \A i \in Pipes : i # last_pipe => (Lost(i)' <=> Lost(i))
        BY <2>1 DEF Lost
    <2> DEFINE c == client_of[last_pipe]
    <2>3. CASE pipe_state[last_pipe] = "listening"
        <3>1. c = Nobody
            BY <1>0, <2>3 DEF FreshInv
        <3>2. here' = here
            <4>1. \A d \in Clients : here'[d] = here[d]
                <5> TAKE d \in Clients
                <5> DEFINE old == client_pc[d] # "gone" /\ \A i \in Pipes : client_of[i] = d => ~ Lost(i)
                           new == client_pc'[d] # "gone" /\ \A i \in Pipes : client_of'[i] = d => ~ Lost(i)'
                <5>1. here[d] = old /\ here'[d] = new
                    BY <1>0, HereIs, HereIsNext
                <5>2. \A i \in Pipes : client_of[i] = d => i # last_pipe
                    BY <3>1, PipeAssumption
                <5>3. old <=> new
                    BY <1>0, <2>2, <5>2
                <5>4. old = new
                    BY <5>3
                <5> QED BY <5>1, <5>4
            <4>2. here = [d \in Clients |-> here[d]] /\ here' = [d \in Clients |-> here'[d]]
                BY Zenon DEF here
            <4> QED BY <4>1, <4>2, Zenon
        <3> QED BY <1>0, <3>2 DEF Session!session_vars
    <2>4. CASE pipe_state[last_pipe] \in {"connected", "broken"}
        <3>1. c \in Clients /\ (pipe_state[last_pipe] = "broken" => client_pc[c] = "gone")
            BY <1>0, <2>4 DEF ClientInv
        <3>2. client_pc'[c] = "gone" \/ Lost(last_pipe)'
            BY <1>0, <2>1, <2>4, <3>1 DEF Lost
        <3>3. here' = [here EXCEPT ![c] = FALSE]
            BY <1>0, <2>2, <3>1, <3>2, HereLeft
        <3>4. Session!Leave(c)
            BY <1>0, <3>1, <3>3, SessionLeave, StreamType
        <3> QED BY <3>1, <3>4
    <2> QED BY <1>0, <2>3, <2>4
<1> QED BY <1>1, <1>2 DEF ConnectNamedPipe, Connected

(* Closing an instance loses what a client that is gone, or is hung up on  *)
(* because the system has failed, has not read.                            *)
LEMMA SessionClose ==
    ASSUME PipeInv, PipeInv', NEW i \in Pipes, Close(i) \/ FlushError(i)
    PROVE  (\E c \in Clients : Session!Leave(c)) \/ UNCHANGED Session!session_vars
<1> USE DEF server_vars, config_vars, start_vars, pipe_vars, thread_vars, client_vars
<1>0. /\ TypeOK /\ TypeOK' /\ ClientInv /\ ClientInv' /\ ThreadInv
      /\ UNCHANGED <<client_of, got, asked, client_pc>>
      /\ replies' = [replies EXCEPT ![i] = <<>>]
      /\ pipe_state' = [pipe_state EXCEPT ![i] = "closed"]
      /\ pipe_state[i] \in {"connected", "broken"}
      /\ \A k \in Pipes : k # i => (k \in failed' <=> k \in failed)
    BY DEF PipeInv, ControlInv, ThreadInv, Close, FlushError, Disconnect, SystemFails
<1> DEFINE c == client_of[i]
<1>1. c \in Clients /\ (pipe_state[i] = "broken" => client_pc[c] = "gone")
    BY <1>0 DEF ClientInv
<1>2. \A k \in Pipes : k # i => (Lost(k)' <=> Lost(k))
    BY <1>0 DEF Lost, TypeOK
<1>3. CASE client_pc[c] # "gone" /\ i \notin failed'
    <2>1. replies[i] = <<>>
        BY <1>0, <1>1, <1>3 DEF Close, FlushError, SystemFails
    <2>2. replies' = replies /\ stream' = stream
        <3>1. replies' = replies
            BY <1>0, <2>1 DEF TypeOK
        <3> QED BY <1>0, <3>1 DEF stream
    <2>3. failed \subseteq failed'
        BY DEF Close, FlushError, SystemFails
    <2>4. \A k \in Pipes : Lost(k)' <=> Lost(k)
        BY <1>2, <1>3, <2>3 DEF Lost
    <2>5. here' = here
        BY <1>0, <2>4, HereKept
    <2> QED BY <1>0, <2>2, <2>5 DEF Session!session_vars
<1>4. CASE client_pc[c] = "gone" \/ i \in failed'
    <2>1. here' = [here EXCEPT ![c] = FALSE]
        <3>1. pipe_state'[i] = "closed"
            BY <1>0 DEF TypeOK
        <3>2. client_pc'[c] = "gone" \/ Lost(i)'
            BY <1>0, <1>4, <3>1 DEF Lost
        <3> QED BY <1>0, <1>1, <1>2, <3>2, HereLeft
    <2>2. got[c] \in Seq(Tokens) /\ replies[i] \in Seq(Tokens) /\ replies'[i] = <<>>
        BY <1>0, <1>1, PipeTypes DEF TypeOK
    <2>3. stream[c] = got[c] \o replies[i]
        BY <1>0, <1>1, StreamIs DEF StreamFacts
    <2>4. stream'[c] = got'[c] \o replies'[i]
        BY <1>0, <1>1, StreamIsNext DEF StreamFacts
    <2>5. stream'[c] = got[c]
        <3>1. \A x \in Seq(Tokens) : x \o <<>> = x
            BY ConcatEmptySeq
        <3>2. stream'[c] = got[c] \o <<>>
            BY <1>0, <2>2, <2>4
        <3> QED BY <2>2, <3>1, <3>2
    <2>6. ASSUME NEW x \in Seq(Tokens), NEW y \in Seq(Tokens)
          PROVE  Len(x) \in 0..Len(x \o y) /\ SubSeq(x \o y, 1, Len(x)) = x
        <3>1. /\ x \o y \in Seq(Tokens) /\ Len(x \o y) = Len(x) + Len(y)
              /\ \A k \in 1..(Len(x) + Len(y)) :
                     (x \o y)[k] = IF k <= Len(x) THEN x[k] ELSE y[k - Len(x)]
            BY ConcatProperties
        <3>2. Len(x) \in 0..Len(x \o y) /\ Len(x) \in Nat /\ Len(y) \in Nat
            BY <3>1
        <3>3. /\ SubSeq(x \o y, 1, Len(x)) \in Seq(Tokens)
              /\ Len(SubSeq(x \o y, 1, Len(x))) = Len(x)
              /\ \A k \in 1..Len(x) : SubSeq(x \o y, 1, Len(x))[k] = (x \o y)[k]
            BY <3>1, <3>2, ElemsOfCut
        <3>4. \A k \in 1..Len(x) : (x \o y)[k] = x[k]
            BY <3>1, <3>2
        <3> DEFINE front == SubSeq(x \o y, 1, Len(x))
        <3>5. front \in Seq(Tokens) /\ Len(front) = Len(x) /\ \A k \in 1..Len(x) : front[k] = x[k]
            BY <3>3, <3>4
        <3> HIDE DEF front
        <3>6. front = x
            BY <3>5, SeqEqual
        <3> QED BY <3>2, <3>6 DEF front
    <2>7. PICK n \in 0..Len(stream[c]) : stream'[c] = SubSeq(stream[c], 1, n)
        BY <2>2, <2>3, <2>5, <2>6
    <2>8. ASSUME NEW d \in Clients, d # c PROVE stream'[d] = stream[d]
        <3>1. \A k \in Pipes : client_of[k] = d => replies'[k] = replies[k]
            BY <1>0, <2>8 DEF TypeOK
        <3> QED BY <1>0, <3>1, StreamKept
    <2>9. stream' = [stream EXCEPT ![c] = SubSeq(@, 1, n)]
        BY <1>0, <1>1, <2>7, <2>8, StreamIs, StreamIsNext DEF StreamFacts
    <2> HIDE DEF c
    <2>10. Session!Leave(c)
        BY <1>0, <1>1, <2>1, <2>9 DEF Session!Leave
    <2> QED BY <1>1, <2>10
<1> QED BY <1>3, <1>4

LEMMA SessionStep ==
    PipeInv /\ PipeInv' /\ [Next]_vars => [Session!Next]_(Session!session_vars)
<1> SUFFICES ASSUME PipeInv, PipeInv', [Next]_vars
             PROVE  Session!Next \/ UNCHANGED Session!session_vars
    OBVIOUS
<1> USE DEF server_vars, config_vars, start_vars, pipe_vars, thread_vars, data_vars, client_vars
<1>0. TypeOK /\ TypeOK' /\ ThreadInv /\ ServerInv
    BY DEF PipeInv, ControlInv
<1>1. ASSUME UNCHANGED <<client_of, got, replies, asked>>,
             \A c \in Clients : client_pc'[c] = "gone" <=> client_pc[c] = "gone",
             \A i \in Pipes : Lost(i)' <=> Lost(i)
      PROVE  UNCHANGED Session!session_vars
    BY <1>0, <1>1, HereKept DEF Session!session_vars, stream
<1>2. ASSUME NEW s \in Setters, Setter(s)
      PROVE  UNCHANGED Session!session_vars
    BY <1>1, <1>2 DEF Setter, SetCheck, SetAssign, Lost
<1>3. CASE CreateServer \/ StartServer \/ Spawn
    BY <1>1, <1>3 DEF CreateServer, StartServer, Spawn, Lost
<1>3a. CASE CreateNamedPipe
    <2>1. /\ UNCHANGED <<client_of, got, replies, asked, failed, client_pc>>
          /\ \A i \in Pipes : pipe_state'[i] = "closed" <=> pipe_state[i] = "closed"
        <3>1. last_pipe + 1 \in Pipes /\ last_pipe + 1 > last_pipe
            BY <1>0, <1>3a, PipeAssumption DEF CreateNamedPipe, TypeOK, Pipes
        <3>2. pipe_state[last_pipe + 1] = "none"
            BY <1>0, <3>1 DEF ServerInv
        <3> QED BY <1>0, <1>3a, <3>1, <3>2 DEF CreateNamedPipe, TypeOK
    <2> QED BY <1>1, <2>1 DEF Lost
<1>3b. CASE Server
    BY <1>3, <1>3a, <1>3b, SessionAbandon DEF Server, Session!Next
<1>4. ASSUME NEW i \in Pipes, HandlerStart(i) \/ Read(i) \/ Handle(i) \/ ReadError(i)
      PROVE  UNCHANGED Session!session_vars
    <2>1. /\ UNCHANGED <<client_of, got, replies, asked, pipe_state, client_pc>>
          /\ \A k \in Pipes : k # i => (k \in failed' <=> k \in failed)
          /\ thread_pc[i] \in {"start", "read", "handle"}
        BY <1>4 DEF HandlerStart, Read, Handle, ReadError, SystemFails
    <2>2. pipe_state[i] # "closed"
        BY <1>0, <2>1 DEF ThreadInv
    <2> QED BY <1>1, <2>1, <2>2 DEF Lost
<1>5. ASSUME NEW c \in Clients,
             WaitPipe(c) \/ SetMode(c) \/ ClientRefused(c) \/ \E i \in Pipes : ClientWaits(c, i)
      PROVE  UNCHANGED Session!session_vars
    <2>1. UNCHANGED <<client_of, got, replies, asked, failed, pipe_state>>
        BY <1>5 DEF WaitPipe, SetMode, ClientRefused, ClientWaits
    <2>2. \A d \in Clients : client_pc'[d] = "gone" <=> client_pc[d] = "gone"
        BY <1>0, <1>5 DEF WaitPipe, SetMode, ClientRefused, ClientWaits, Fail, TypeOK
    <2> QED BY <1>1, <2>1, <2>2 DEF Lost
<1>6. ASSUME NEW i \in Pipes, client_handler(i) \/ handler_error(i)
      PROVE  Session!Next \/ UNCHANGED Session!session_vars
    BY <1>4, <1>6, SessionAnswer, SessionClose DEF client_handler, handler_error, Session!Next
<1>7. ASSUME NEW c \in Clients, Client(c)
      PROVE  Session!Next \/ UNCHANGED Session!session_vars
    BY <1>5, <1>7, SessionOpen, SessionWrite, SessionRead, SessionExit DEF Client, Session!Next
<1>8. CASE UNCHANGED vars
    BY <1>1, <1>8 DEF vars, Lost
<1> QED BY <1>2, <1>3b, <1>6, <1>7, <1>8 DEF Next

-----------------------------------------------------------------------------
(* Every variable has its type, and a handler that serves has the          *)
(* data_handler it calls: client_handler looked, pipe_data is its own.     *)
THEOREM PipeTypeCorrect == Spec => []TypeOK
BY PipeInvHolds, PTL DEF PipeInv

(* Once is_started is set, only a call that was inside a set_ function     *)
(* then assigns the configuration, once; if there is none, every handler   *)
(* is given the configuration the server started with.                     *)
THEOREM StartFixesTheConfiguration == Spec => []ConfigurationIsFixed
<1>1. LateInv => ConfigurationIsFixed
    BY DEF LateInv, ConfigurationIsFixed
<1> QED BY <1>1, PipeInvHolds, PTL DEF PipeInv

(* The server hangs up only on a client that is gone, has made an empty    *)
(* write, or for which the system has failed a call.                       *)
THEOREM HangsUpLast == Spec => []NeverHangsUpFirst
BY PipeInvHolds, PTL DEF PipeInv, ControlInv

(* The server, its handler threads and the clients implement PipeSession:  *)
(* every client reads answers to its own requests, in the order it asked,  *)
(* and loses none while it is there and no call has failed for it.         *)
THEOREM PipeIsASession == Spec => AnswersAreASession
<1>1. PipeInv /\ PipeInv' /\ [Next]_vars => [Session!Next]_(Session!session_vars)
    BY SessionStep
<1> QED BY SessionInit, PipeInvHolds, <1>1, PTL DEF Spec, AnswersAreASession, Session!Spec

=============================================================================
