----------------------------- MODULE WebRequest -----------------------------
(***************************************************************************)
(* EB::WebRequest (web_request.cpp): requests of several threads through   *)
(* libcurl.  All of them leave the HTTP code in the same variable, and     *)
(* two downloads may have the same file open.  A transfer may fail at any  *)
(* point: the body is cut short, the code may be missing, and the function *)
(* returns true all the same.  So may a write to the file: fwrite takes    *)
(* less than it was given, which ends the transfer, or fclose cannot write *)
(* what is left, which nothing looks at.                                   *)
(*                                                                         *)
(* A request is a number; the pieces of its body are <<number, piece>>.    *)
(***************************************************************************)
EXTENDS Integers, Sequences

CONSTANTS Requesters,
          MaxRequests,  \* bound on the requests
          MaxPieces     \* bound on the pieces of a body

ASSUME RequestAssumption == MaxRequests \in Nat /\ MaxPieces \in Nat

VARIABLES
    request_pc,      \* where each thread is
    request,         \* the request it makes, 0 before the first
    is_download,     \* whether that is download_file
    response,        \* the caller's string, one per thread
    http_code,       \* the code the transfer has received so far
    last_http_code,  \* _last_http_code
    requests,        \* requests made so far
    file,            \* what is in the file, <<>> also if there is none
    offset,          \* where each thread writes in the file
    unflushed,       \* what it has written with fwrite and not to the file
    write_failed,    \* whether fwrite or fclose has failed in its request
    received,        \* history: pieces received by each request
    code_disturbed,  \* history: whether another thread has left its code
                     \* since this thread has left its own
    file_shared,     \* history: whether another thread has had the file
                     \* open since this thread opened it
    request_crashed  \* NULL was used as a file

file_vars == <<file, offset, unflushed, file_shared, write_failed>>
request_vars == <<request_pc, request, is_download, response, http_code, last_http_code,
                  requests, file_vars, received, code_disturbed, request_crashed>>

RequestInit ==
    /\ request_pc = [t \in Requesters |-> "idle"]
    /\ request = [t \in Requesters |-> 0]
    /\ is_download = [t \in Requesters |-> FALSE]
    /\ response = [t \in Requesters |-> <<>>]
    /\ http_code = [t \in Requesters |-> 0]
    /\ last_http_code = -1 /\ requests = 0
    /\ file = <<>>
    /\ offset = [t \in Requesters |-> 0]
    /\ unflushed = [t \in Requesters |-> <<>>]
    /\ write_failed = [t \in Requesters |-> FALSE]
    /\ received = [t \in Requesters |-> 0]
    /\ code_disturbed = [t \in Requesters |-> FALSE]
    /\ file_shared = [t \in Requesters |-> FALSE]
    /\ request_crashed = FALSE

RequestGoto(t, from, to) ==
    /\ ~ request_crashed /\ request_pc[t] = from
    /\ request_pc' = [request_pc EXCEPT ![t] = to]

LeaveCode(t, code) ==
    /\ last_http_code' = code
    /\ code_disturbed' = [u \in Requesters |-> u # t]

-----------------------------------------------------------------------------
reset_kept(string) == string
reset(string) == <<>>

(* The response is emptied first; download_file has none.                  *)
Request(t, download) ==
    /\ requests < MaxRequests
    /\ \/ RequestGoto(t, "idle", "init") \/ RequestGoto(t, "returned", "init")
       \/ RequestGoto(t, "refused", "init")
    /\ requests' = requests + 1
    /\ request' = [request EXCEPT ![t] = requests + 1]
    /\ is_download' = [is_download EXCEPT ![t] = download]
    /\ response' = [response EXCEPT ![t] = IF download THEN @ ELSE reset(@)]
    /\ http_code' = [http_code EXCEPT ![t] = 0]
    /\ received' = [received EXCEPT ![t] = 0]
    /\ write_failed' = [write_failed EXCEPT ![t] = FALSE]
    /\ UNCHANGED <<last_http_code, file, offset, unflushed, file_shared, code_disturbed,
                   request_crashed>>

code_without_curl_kept == last_http_code
code_without_curl == -1

InitFails(t) ==
    /\ RequestGoto(t, "init", "refused")
    /\ LeaveCode(t, code_without_curl)
    /\ UNCHANGED <<request, is_download, response, http_code, requests, file_vars, received,
                   request_crashed>>

Writing(t) == is_download[t] /\ request_pc[t] \in {"perform", "close"}

(* fopen with "wb" empties the file; whether it failed is not looked at.   *)
opened_to_append(text) == text
opened(text) == <<>>

InitCurl(t) ==
    /\ \/ RequestGoto(t, "init", "perform") /\ UNCHANGED file_vars /\ ~ is_download[t]
       \/ /\ RequestGoto(t, "init", "perform") /\ is_download[t]
          /\ file' = opened(file)
          /\ offset' = [offset EXCEPT ![t] = Len(opened(file))]
          /\ file_shared' = [u \in Requesters |->
                 IF u = t THEN \E v \in Requesters \ {t} : Writing(v) ELSE TRUE]
          /\ UNCHANGED <<unflushed, write_failed>>
       \/ RequestGoto(t, "init", "no_file") /\ UNCHANGED file_vars /\ is_download[t]
    /\ UNCHANGED <<request, is_download, response, http_code, last_http_code, requests,
                   received, code_disturbed, request_crashed>>

(* fwrite or fclose of a file that could not be opened.                    *)
NoFileCrash(t) ==
    /\ ~ request_crashed /\ request_pc[t] = "no_file"
    /\ request_crashed' = TRUE
    /\ UNCHANGED <<request_pc, request, is_download, response, http_code, last_http_code,
                   requests, file_vars, received, code_disturbed>>

(* curl_easy_perform: the status line, then the body piece by piece.       *)
ReceiveCode(t) ==
    /\ RequestGoto(t, "perform", "perform") /\ http_code[t] = 0
    /\ http_code' = [http_code EXCEPT ![t] = request[t]]
    /\ UNCHANGED <<request, is_download, response, last_http_code, requests, file_vars,
                   received, code_disturbed, request_crashed>>

(* _write_string and _write_data.                                          *)
ReceivePiece(t) ==
    /\ RequestGoto(t, "perform", "perform")
    /\ http_code[t] # 0 /\ received[t] < MaxPieces /\ ~ write_failed[t]
    /\ received' = [received EXCEPT ![t] = @ + 1]
    /\ LET piece == <<request[t], received[t] + 1>>
       IN  IF is_download[t]
           THEN unflushed' = [unflushed EXCEPT ![t] = Append(@, piece)] /\ UNCHANGED response
           ELSE response' = [response EXCEPT ![t] = Append(@, piece)] /\ UNCHANGED unflushed
    /\ UNCHANGED <<request, is_download, http_code, last_http_code, requests, file, offset,
                   file_shared, write_failed, code_disturbed, request_crashed>>

(* A hole the file's other users leave is read as zeros.                   *)
Hole == <<0, 0>>

WriteAt(text, at, pieces) ==
    LET end == at + Len(pieces)
    IN  IF pieces = <<>> THEN text
        ELSE [i \in 1..(IF Len(text) < end THEN end ELSE Len(text)) |->
                 IF i > at /\ i <= end THEN pieces[i - at]
                 ELSE IF i <= Len(text) THEN text[i] ELSE Hole]

(* The first n of the pieces that wait reach the file, the others wait on. *)
FlushTo(t, n) ==
    /\ n \in 0..Len(unflushed[t])
    /\ file' = WriteAt(file, offset[t], SubSeq(unflushed[t], 1, n))
    /\ offset' = [offset EXCEPT ![t] = @ + n]

StillWaiting(t, n) == SubSeq(unflushed[t], n + 1, Len(unflushed[t]))

(* The buffer of the file is full.                                         *)
Flush(t) ==
    /\ RequestGoto(t, "perform", "perform") /\ unflushed[t] # <<>> /\ ~ write_failed[t]
    /\ FlushTo(t, Len(unflushed[t]))
    /\ unflushed' = [unflushed EXCEPT ![t] = <<>>]
    /\ UNCHANGED <<request, is_download, response, http_code, last_http_code, requests,
                   file_shared, write_failed, received, code_disturbed, request_crashed>>

(* fwrite cannot make room for a piece and returns less than its size: the *)
(* piece is lost, and curl_easy_perform receives no more.                  *)
WriteFails(t) ==
    /\ RequestGoto(t, "perform", "perform") /\ is_download[t]
    /\ http_code[t] # 0 /\ received[t] < MaxPieces /\ ~ write_failed[t]
    /\ received' = [received EXCEPT ![t] = @ + 1]
    /\ write_failed' = [write_failed EXCEPT ![t] = TRUE]
    /\ \E n \in 0..Len(unflushed[t]) :
           /\ FlushTo(t, n)
           /\ unflushed' = [unflushed EXCEPT ![t] = StillWaiting(t, n)]
    /\ UNCHANGED <<request, is_download, response, http_code, last_http_code, requests,
                   file_shared, code_disturbed, request_crashed>>

(* The transfer ends, or fails, and its code is left behind.               *)
Performed(t) ==
    /\ RequestGoto(t, "perform", IF is_download[t] THEN "close" ELSE "returned")
    /\ LeaveCode(t, http_code[t])
    /\ UNCHANGED <<request, is_download, response, http_code, requests, file_vars, received,
                   request_crashed>>

(* fclose writes what is left, or as much of it as it can.                 *)
Close(t) ==
    /\ RequestGoto(t, "close", "returned")
    /\ \E n \in 0..Len(unflushed[t]) :
           /\ FlushTo(t, n)
           /\ write_failed' = [write_failed EXCEPT ![t] = @ \/ n < Len(unflushed[t])]
    /\ unflushed' = [unflushed EXCEPT ![t] = <<>>]
    /\ UNCHANGED <<request, is_download, response, http_code, last_http_code, requests,
                   file_shared, received, code_disturbed, request_crashed>>

RequestNext ==
    \E t \in Requesters :
        \/ \E download \in BOOLEAN : Request(t, download)
        \/ InitFails(t) \/ InitCurl(t) \/ NoFileCrash(t) \/ ReceiveCode(t)
        \/ ReceivePiece(t) \/ Flush(t) \/ WriteFails(t) \/ Performed(t) \/ Close(t)

RequestSpec == RequestInit /\ [][RequestNext]_request_vars

-----------------------------------------------------------------------------
(* Properties.                                                             *)

Requests == 0..MaxRequests
Pieces == Requests \X (0..MaxPieces)

(* The first pieces of the body of a request.                              *)
Body(r, n) == [k \in 1..n |-> <<r, k>>]

(* Every variable has its type.                                            *)
RequestTypeOK ==
    /\ request_pc \in [Requesters -> {"idle", "init", "no_file", "perform", "close",
                                   "returned", "refused"}]
    /\ request \in [Requesters -> Requests] /\ requests \in Requests
    /\ is_download \in [Requesters -> BOOLEAN]
    /\ response \in [Requesters -> Seq(Pieces)] /\ unflushed \in [Requesters -> Seq(Pieces)]
    /\ file \in Seq(Pieces) /\ offset \in [Requesters -> Nat]
    /\ http_code \in [Requesters -> Requests] /\ last_http_code \in Requests \cup {-1}
    /\ received \in [Requesters -> 0..MaxPieces]
    /\ code_disturbed \in [Requesters -> BOOLEAN] /\ file_shared \in [Requesters -> BOOLEAN]
    /\ write_failed \in [Requesters -> BOOLEAN]
    /\ request_crashed \in BOOLEAN

(***************************************************************************)
(* The code get_last_http_code returns after a request is that request's:  *)
(* -1 if it was refused, 0 if no answer came, unless another thread's      *)
(* request has ended in between.                                           *)
(***************************************************************************)
CodeIsOwn ==
    \A t \in Requesters : ~ code_disturbed[t] =>
        /\ request_pc[t] = "refused" => last_http_code = -1
        /\ request_pc[t] = "returned" => last_http_code = http_code[t]

(***************************************************************************)
(* The string a caller gets holds the pieces its request received, in      *)
(* order, and nothing of an earlier request, also when it fails.           *)
(***************************************************************************)
ResponseIsOwn ==
    \A t \in Requesters : ~ is_download[t] /\ request_pc[t] # "idle" =>
        response[t] = Body(request[t], received[t])

(***************************************************************************)
(* The file of a download that has returned holds the first of the pieces  *)
(* received and nothing else, and all of them if neither fwrite nor fclose *)
(* has failed, unless another download has had the file open meanwhile.    *)
(* That a write has failed, download_file does not tell: it returns true.  *)
(***************************************************************************)
FileIsTheDownload ==
    \A t \in Requesters : is_download[t] /\ request_pc[t] = "returned" /\ ~ file_shared[t] =>
        \E n \in 0..received[t] :
            /\ file = Body(request[t], n)
            /\ ~ write_failed[t] => n = received[t]

(***************************************************************************)
(* What a caller learns of its request, the code and the string, is of     *)
(* that request and of no other, on every way out of it.                   *)
(***************************************************************************)
AnswersAreOwn == CodeIsOwn /\ ResponseIsOwn

=============================================================================
