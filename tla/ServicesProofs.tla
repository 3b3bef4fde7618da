---------------------------- MODULE ServicesProofs --------------------------
(***************************************************************************)
(* Theorems about the services of the Windows library that share nothing   *)
(* with each other: WebRequest, Registry, ExternalProcess and Hook, for    *)
(* every value of their constants.                                         *)
(***************************************************************************)
EXTENDS MCServices, HookProofs, NaturalsInduction, WellFoundedInduction,
        SequenceTheorems, FiniteSetTheorems, TLAPS

-----------------------------------------------------------------------------
(***************************************************************************)
(* WebRequest, for any number of threads, requests and pieces.  The file   *)
(* of a download that shares it with no other is, with what the download   *)
(* has not flushed yet, what it has received, and the download writes at   *)
(* its end.                                                                *)
(***************************************************************************)

(* A body of no pieces is empty, and one more piece goes at its end.       *)
LEMMA Bodies ==
    ASSUME NEW r \in Requests, NEW n \in 0..MaxPieces
    PROVE  /\ Body(r, 0) = <<>>
           /\ Body(r, n) \in Seq(Pieces) /\ Len(Body(r, n)) = n
           /\ n < MaxPieces => Append(Body(r, n), <<r, n + 1>>) = Body(r, n + 1)
<1>0. n \in Nat /\ 0 \in Nat
    BY RequestAssumption
<1>1. \A m \in 0..MaxPieces : Body(r, m) \in [1..m -> Pieces]
    BY RequestAssumption DEF Body, Pieces
<1>2. \A m \in 0..MaxPieces : Body(r, m) \in Seq(Pieces) /\ Len(Body(r, m)) = m
    <2> TAKE m \in 0..MaxPieces
    <2>1. m \in Nat /\ Body(r, m) \in [1..m -> Pieces]
        BY <1>1, RequestAssumption
    <2> HIDE DEF Body
    <2> QED BY <2>1
<1>3. Body(r, 0) = <<>>
    BY <1>2, EmptySeq, RequestAssumption
<1>4. ASSUME n < MaxPieces PROVE Append(Body(r, n), <<r, n + 1>>) = Body(r, n + 1)
    <2>1. n + 1 \in 0..MaxPieces
        BY <1>0, <1>4, RequestAssumption
    <2>2. <<r, n + 1>> \in Pieces
        BY <2>1 DEF Pieces
    <2> DEFINE longer == Append(Body(r, n), <<r, n + 1>>)
    <2>3. /\ longer \in Seq(Pieces) /\ Len(longer) = n + 1
          /\ \A k \in 1..n : longer[k] = Body(r, n)[k]
          /\ longer[n + 1] = <<r, n + 1>>
        BY <1>0, <1>2, <2>2, AppendProperties
    <2>4. \A k \in 1..n : longer[k] = <<r, k>>
        BY <2>3 DEF Body
    <2> HIDE DEF longer
    <2>5. \A k \in 1..(n + 1) : longer[k] = Body(r, n + 1)[k]
        <3> TAKE k \in 1..(n + 1)
        <3>1. Body(r, n + 1)[k] = <<r, k>>
            BY DEF Body
        <3>2. k = n + 1 \/ k \in 1..n
            BY <1>0
        <3> QED BY <2>3, <2>4, <3>1, <3>2
    <2>6. Body(r, n + 1) \in Seq(Pieces) /\ Len(Body(r, n + 1)) = n + 1
        BY <1>2, <2>1
    <2>7. longer = Body(r, n + 1)
        BY <2>3, <2>5, <2>6, SeqEqual
    <2> QED BY <2>7 DEF longer
<1> QED BY <1>2, <1>3, <1>4

(* What is written at the end of a file is appended to it, and writing     *)
(* nothing changes nothing; holes are pieces.                              *)
LEMMA Writes ==
    ASSUME NEW text \in Seq(Pieces), NEW pieces \in Seq(Pieces), NEW at \in Nat
    PROVE  /\ WriteAt(text, at, pieces) \in Seq(Pieces)
           /\ at = Len(text) => WriteAt(text, at, pieces) = text \o pieces
           /\ pieces = <<>> => WriteAt(text, at, pieces) = text
<1> DEFINE end  == at + Len(pieces)
           long == IF Len(text) < end THEN end ELSE Len(text)
           new  == [i \in 1..long |->
                       IF i > at /\ i <= end THEN pieces[i - at]
                       ELSE IF i <= Len(text) THEN text[i] ELSE Hole]
<1>0. /\ Len(text) \in Nat /\ Len(pieces) \in Nat
      /\ \A i \in 1..Len(text) : text[i] \in Pieces
      /\ \A i \in 1..Len(pieces) : pieces[i] \in Pieces
    OBVIOUS
<1>1. CASE pieces = <<>>
    <2>1. WriteAt(text, at, pieces) = text
        BY <1>1 DEF WriteAt
    <2>2. text \o pieces = text
        BY <1>1, ConcatEmptySeq
    <2> QED BY <2>1, <2>2
<1>2. CASE pieces # <<>>
    <2>1. WriteAt(text, at, pieces) = new
        BY <1>2 DEF WriteAt
    <2>2. Hole \in Pieces
        BY RequestAssumption DEF Hole, Pieces, Requests
    <2>3. end \in Nat /\ long \in Nat
        BY <1>0
    <2>4. \A i \in 1..long : /\ i > at /\ i <= end => i - at \in 1..Len(pieces)
                             /\ i <= Len(text) => i \in 1..Len(text)
        BY <1>0
    <2> HIDE DEF end, long
    <2>5. new \in [1..long -> Pieces]
        BY <1>0, <2>2, <2>4
    <2>6. \A i \in 1..long : new[i] = IF i > at /\ i <= end THEN pieces[i - at]
                                      ELSE IF i <= Len(text) THEN text[i] ELSE Hole
        OBVIOUS
    <2> HIDE DEF new
    <2>7. new \in Seq(Pieces) /\ Len(new) = long
        BY <2>3, <2>5
    <2>8. ASSUME at = Len(text) PROVE new = text \o pieces
        <3>1. long = Len(text) + Len(pieces) /\ end = long
            BY <1>0, <2>8 DEF long, end
        <3>2. /\ text \o pieces \in Seq(Pieces)
              /\ Len(text \o pieces) = Len(text) + Len(pieces)
              /\ \A i \in 1..(Len(text) + Len(pieces)) :
                     (text \o pieces)[i] = IF i <= Len(text) THEN text[i]
                                           ELSE pieces[i - Len(text)]
            BY ConcatProperties
        <3>3. \A i \in 1..long : new[i] = (text \o pieces)[i]
            BY <1>0, <2>6, <2>8, <3>1, <3>2
        <3> QED BY <2>7, <3>1, <3>2, <3>3, SeqEqual
    <2> QED BY <1>2, <2>1, <2>7, <2>8
<1> QED BY <1>1, <1>2

(* Writing the first k of the pieces that complete a text to a body makes  *)
(* it a shorter body.                                                      *)
LEMMA FlushedBodies ==
    ASSUME NEW text \in Seq(Pieces), NEW pieces \in Seq(Pieces), NEW k \in 0..Len(pieces),
           NEW r \in Requests, NEW n \in 0..MaxPieces, text \o pieces = Body(r, n)
    PROVE  /\ text \o SubSeq(pieces, 1, k) = Body(r, Len(text) + k)
           /\ Len(text) + k \leq n /\ Len(text) + Len(pieces) = n
           /\ text \o SubSeq(pieces, 1, k) \in Seq(Pieces)
           /\ Len(text \o SubSeq(pieces, 1, k)) = Len(text) + k
           /\ (text \o SubSeq(pieces, 1, k)) \o SubSeq(pieces, k + 1, Len(pieces)) = text \o pieces
<1> DEFINE l == Len(text)
           m == Len(pieces)
           body == Body(r, n)
           some == SubSeq(pieces, 1, k)
           rest == SubSeq(pieces, k + 1, Len(pieces))
           shorter == Body(r, l + k)
<1>1. l \in Nat /\ m \in Nat /\ k \in Nat /\ k <= m /\ n \in Nat /\ n <= MaxPieces /\ MaxPieces \in Nat
    <2>1. l \in Nat /\ m \in Nat
        BY LenProperties
    <2> HIDE DEF l
    <2>2. k \in 0..m
        OBVIOUS
    <2> HIDE DEF m
    <2> QED BY <2>1, <2>2, RequestAssumption
<1>2. /\ body \in Seq(Pieces) /\ Len(body) = n /\ text \o pieces = body
    BY Bodies
<1>3. /\ Len(text \o pieces) = l + m
      /\ \A i \in 1..(l + m) : (text \o pieces)[i] = IF i <= l THEN text[i] ELSE pieces[i - l]
    BY ConcatProperties
<1>4. n = l + m /\ l + k <= n /\ l + k \in 0..MaxPieces
    <2>1. n = l + m
        BY <1>2, <1>3
    <2> HIDE DEF l, m
    <2> QED BY <1>1, <2>1
<1>5. some \in Seq(Pieces) /\ Len(some) = k /\ \A i \in 1..k : some[i] = pieces[i]
    BY <1>1
<1>6. /\ rest \in Seq(Pieces) /\ Len(rest) = m - k
      /\ \A i \in 1..(m - k) : rest[i] = pieces[k + i]
    BY <1>1
<1>7. shorter \in Seq(Pieces) /\ Len(shorter) = l + k
    BY <1>4, Bodies
<1>8. /\ \A i \in 1..n : body[i] = <<r, i>>
      /\ \A i \in 1..(l + k) : shorter[i] = <<r, i>>
    BY DEF Body
<1>9. /\ text \o some \in Seq(Pieces) /\ Len(text \o some) = l + k
      /\ \A i \in 1..(l + k) : (text \o some)[i] = IF i <= l THEN text[i] ELSE some[i - l]
    <2> HIDE DEF some
    <2> QED BY <1>5, ConcatProperties
<1> HIDE DEF l, m, body, some, rest, shorter
<1> DEFINE first == text \o some
<1> HIDE DEF first
<1>10. \A i \in 1..(l + k) : first[i] = (text \o pieces)[i]
    <2> TAKE i \in 1..(l + k)
    <2>1. i \in 1..(l + m) /\ i \in Int /\ (~ i <= l => i - l \in 1..k)
        BY <1>1
    <2>2. first[i] = (IF i <= l THEN text[i] ELSE some[i - l])
        BY <1>9 DEF first
    <2>3. ~ i <= l => some[i - l] = pieces[i - l]
        BY <1>5, <2>1
    <2>4. (text \o pieces)[i] = (IF i <= l THEN text[i] ELSE pieces[i - l])
        BY <1>3, <2>1
    <2>5. CASE i <= l
        BY <2>2, <2>4, <2>5
    <2>6. CASE ~ i <= l
        BY <2>2, <2>3, <2>4, <2>6
    <2> QED BY <2>5, <2>6
<1>11. first = shorter
    <2>1. ASSUME NEW i \in 1..(l + k) PROVE first[i] = shorter[i]
        <3>1. i \in 1..n
            BY <1>1, <1>4
        <3> QED BY <1>2, <1>8, <1>10, <3>1
    <2>2. first \in Seq(Pieces) /\ Len(first) = l + k
        BY <1>9 DEF first
    <2> QED BY <1>7, <2>1, <2>2, SeqEqual
<1>12. first \o rest = text \o pieces
    <2>1. first \in Seq(Pieces) /\ Len(first) = l + k /\ (l + k) + (m - k) = l + m
        BY <1>1, <1>9 DEF first
    <2>2. /\ first \o rest \in Seq(Pieces) /\ Len(first \o rest) = l + m
          /\ \A i \in 1..(l + m) :
                 (first \o rest)[i] = IF i <= l + k THEN first[i] ELSE rest[i - (l + k)]
        <3>1. /\ first \o rest \in Seq(Pieces)
              /\ Len(first \o rest) = Len(first) + Len(rest)
              /\ \A i \in 1..(Len(first) + Len(rest)) :
                    (first \o rest)[i] = IF i <= Len(first) THEN first[i] ELSE rest[i - Len(first)]
            BY <1>6, <2>1, ConcatProperties
        <3>2. Len(first) + Len(rest) = l + m
            BY <1>6, <2>1
        <3> QED BY <2>1, <3>1, <3>2
    <2>3. ASSUME NEW i \in 1..(l + m) PROVE (first \o rest)[i] = (text \o pieces)[i]
        <3>1. (first \o rest)[i] = (IF i <= l + k THEN first[i] ELSE rest[i - (l + k)])
              /\ (text \o pieces)[i] = (IF i <= l THEN text[i] ELSE pieces[i - l])
            BY <1>3, <2>2
        <3>2. CASE i <= l + k
            <4>1. i \in 1..(l + k)
                BY <1>1, <3>2
            <4> QED BY <1>10, <3>1, <3>2, <4>1
        <3>3. CASE ~ i <= l + k
            <4>1. ~ i <= l /\ i - (l + k) \in 1..(m - k) /\ k + (i - (l + k)) = i - l
                BY <1>1, <3>3
            <4>2. rest[i - (l + k)] = pieces[i - l]
                BY <1>6, <4>1
            <4> QED BY <3>1, <3>3, <4>1, <4>2
        <3> QED BY <3>2, <3>3
    <2>4. text \o pieces \in Seq(Pieces) /\ Len(text \o pieces) = l + m
        BY <1>2, <1>3
    <2> QED BY <2>2, <2>3, <2>4, SeqEqual
<1>13. first \in Seq(Pieces) /\ Len(first) = l + k
    BY <1>9 DEF first
<1> QED BY Zenon, <1>4, <1>11, <1>12, <1>13 DEF first, some, rest, l, m, shorter

-----------------------------------------------------------------------------
(* What makes the properties inductive.                                    *)

CodesAreLeft ==
    \A t \in Requesters :
        ~ code_disturbed[t] /\ request_pc[t] = "close" => last_http_code = http_code[t]

(* Nothing is received, and nothing waits for a flush, but in a transfer.  *)
TransfersAreClean ==
    \A t \in Requesters :
        /\ request_pc[t] \in {"init", "no_file", "refused"} => received[t] = 0
        /\ request_pc[t] = "close" => is_download[t]
        /\ ~ Writing(t) => unflushed[t] = <<>>

(* The requesters whose file is no other's.                                *)
Alone(t) ==
    /\ ~ file_shared[t] /\ is_download[t]
    /\ request_pc[t] \in {"perform", "close", "returned"}

FilesAreOwn ==
    \A t \in Requesters : Alone(t) =>
        /\ \E n \in 0..received[t] :
               /\ file \o unflushed[t] = Body(request[t], n)
               /\ ~ write_failed[t] => n = received[t]
        /\ Writing(t) => offset[t] = Len(file)
        /\ \A u \in Requesters \ {t} : ~ Writing(u)

RequestInv ==
    /\ RequestTypeOK /\ AnswersAreOwn
    /\ CodesAreLeft /\ TransfersAreClean /\ FilesAreOwn

LEMMA RequestInvInit == RequestInit => RequestInv
<1> SUFFICES ASSUME RequestInit PROVE RequestInv
    OBVIOUS
<1>0. <<>> \in Seq(Pieces)
    OBVIOUS
<1>1. 0 \in Requests /\ -1 \in Requests \cup {-1} /\ 0 \in 0..MaxPieces /\ 0 \in Nat
    BY RequestAssumption DEF Requests
<1>4. RequestTypeOK
    BY <1>0, <1>1 DEF RequestInit, RequestTypeOK
<1>2. AnswersAreOwn /\ CodesAreLeft
    BY DEF RequestInit, AnswersAreOwn, CodeIsOwn, ResponseIsOwn, CodesAreLeft
<1>3. TransfersAreClean /\ FilesAreOwn
    BY DEF RequestInit, TransfersAreClean, FilesAreOwn, Alone, Writing
<1> QED BY <1>2, <1>3, <1>4 DEF RequestInv

(* Pieces written in the file of one thread do not touch the others.       *)
LEMMA FlushKeepsTypes ==
    ASSUME RequestTypeOK, NEW t \in Requesters, NEW n \in 0..Len(unflushed[t]), FlushTo(t, n)
    PROVE  /\ file' \in Seq(Pieces) /\ offset' \in [Requesters -> Nat]
           /\ StillWaiting(t, n) \in Seq(Pieces)
<1>1. offset[t] \in Nat /\ unflushed[t] \in Seq(Pieces) /\ file \in Seq(Pieces)
    BY DEF RequestTypeOK
<1>2. /\ SubSeq(unflushed[t], 1, n) \in Seq(Pieces)
      /\ StillWaiting(t, n) \in Seq(Pieces)
    BY <1>1 DEF StillWaiting
<1>3. WriteAt(file, offset[t], SubSeq(unflushed[t], 1, n)) \in Seq(Pieces)
    BY <1>1, <1>2, Writes, Zenon
<1>4. offset[t] + n \in Nat
    BY <1>1
<1> QED BY <1>2, <1>3, <1>4 DEF FlushTo, RequestTypeOK

LEMMA RequestTypeStep == RequestTypeOK /\ [RequestNext]_request_vars => RequestTypeOK'
<1> SUFFICES ASSUME RequestTypeOK, [RequestNext]_request_vars PROVE RequestTypeOK'
    OBVIOUS
<1> USE DEF RequestGoto
<1>0. <<>> \in Seq(Pieces) /\ requests \in Nat
      /\ \A n \in Requests : n \in Requests \cup {-1}
    BY RequestAssumption DEF RequestTypeOK, Requests
<1>1. ASSUME NEW t \in Requesters, NEW download \in BOOLEAN, Request(t, download)
      PROVE  RequestTypeOK'
    <2>1. requests + 1 \in Requests /\ 0 \in Requests /\ 0 \in 0..MaxPieces
        BY <1>0, <1>1, RequestAssumption DEF Request, Requests
    <2> QED BY <1>0, <1>1, <2>1 DEF Request, RequestTypeOK, reset, file_vars
<1>2. ASSUME NEW t \in Requesters, InitFails(t) PROVE RequestTypeOK'
    BY <1>2 DEF InitFails, LeaveCode, code_without_curl, RequestTypeOK, file_vars
<1>3. ASSUME NEW t \in Requesters, InitCurl(t) PROVE RequestTypeOK'
    <2>1. opened(file) = <<>> /\ Len(opened(file)) \in Nat
        BY DEF opened
    <2>2. /\ file' \in Seq(Pieces) /\ offset' \in [Requesters -> Nat]
          /\ unflushed' \in [Requesters -> Seq(Pieces)]
          /\ file_shared' \in [Requesters -> BOOLEAN]
        BY ZenonT(30), <1>0, <1>3, <2>1 DEF InitCurl, RequestTypeOK, file_vars
    <2>3. request_pc' \in [Requesters -> {"idle", "init", "no_file", "perform", "close",
                                          "returned", "refused"}]
        BY <1>3 DEF InitCurl, RequestTypeOK
    <2>4. write_failed' \in [Requesters -> BOOLEAN]
        BY <1>3 DEF InitCurl, RequestTypeOK, file_vars
    <2>5. UNCHANGED <<request, is_download, response, http_code, last_http_code, requests,
                      received, code_disturbed, request_crashed>>
        BY <1>3 DEF InitCurl
    <2> QED BY <2>2, <2>3, <2>4, <2>5 DEF RequestTypeOK
<1>4. ASSUME NEW t \in Requesters, NoFileCrash(t) PROVE RequestTypeOK'
    BY <1>4 DEF NoFileCrash, RequestTypeOK, file_vars
<1>5. ASSUME NEW t \in Requesters, ReceiveCode(t) PROVE RequestTypeOK'
    BY <1>5 DEF ReceiveCode, RequestTypeOK, file_vars
<1>6. ASSUME NEW t \in Requesters, ReceivePiece(t) PROVE RequestTypeOK'
    <2> DEFINE piece == <<request[t], received[t] + 1>>
    <2>1. received[t] + 1 \in 0..MaxPieces /\ request[t] \in Requests
        BY <1>6, RequestAssumption DEF ReceivePiece, RequestTypeOK
    <2>2. piece \in Pieces
        BY <2>1 DEF Pieces
    <2> HIDE DEF piece
    <2>3. /\ Append(unflushed[t], piece) \in Seq(Pieces)
          /\ Append(response[t], piece) \in Seq(Pieces)
        BY <2>2 DEF RequestTypeOK
    <2>4. /\ unflushed' \in [Requesters -> Seq(Pieces)]
          /\ response' \in [Requesters -> Seq(Pieces)]
        BY <1>6, <2>3 DEF ReceivePiece, RequestTypeOK, piece
    <2> QED BY <1>6, <2>1, <2>4 DEF ReceivePiece, RequestTypeOK
<1>7. ASSUME NEW t \in Requesters, Flush(t) PROVE RequestTypeOK'
    <2>1. Len(unflushed[t]) \in 0..Len(unflushed[t])
        BY <1>7 DEF RequestTypeOK
    <2>2. file' \in Seq(Pieces) /\ offset' \in [Requesters -> Nat]
        BY <1>7, <2>1, FlushKeepsTypes DEF Flush
    <2> QED BY <1>0, <1>7, <2>2 DEF Flush, RequestTypeOK
<1>8. ASSUME NEW t \in Requesters, Performed(t) PROVE RequestTypeOK'
    BY <1>0, <1>8 DEF Performed, LeaveCode, RequestTypeOK, file_vars
<1>9. ASSUME NEW t \in Requesters, Close(t) PROVE RequestTypeOK'
    <2>1. file' \in Seq(Pieces) /\ offset' \in [Requesters -> Nat]
        BY <1>9, FlushKeepsTypes DEF Close
    <2>2. \A n : (write_failed[t] \/ n < Len(unflushed[t])) \in BOOLEAN
        BY DEF RequestTypeOK
    <2>3. write_failed' \in [Requesters -> BOOLEAN]
        BY <1>9, <2>2 DEF Close, RequestTypeOK
    <2>4. request_pc' \in [Requesters -> {"idle", "init", "no_file", "perform", "close",
                                          "returned", "refused"}]
        BY <1>9 DEF Close, RequestTypeOK
    <2> QED BY <1>0, <1>9, <2>1, <2>3, <2>4 DEF Close, RequestTypeOK
<1>10. CASE UNCHANGED request_vars
    BY <1>10 DEF request_vars, file_vars, RequestTypeOK
<1>11. ASSUME NEW t \in Requesters, WriteFails(t) PROVE RequestTypeOK'
    <2>1. received[t] + 1 \in 0..MaxPieces
        BY <1>11, RequestAssumption DEF WriteFails, RequestTypeOK
    <2>2. PICK n \in 0..Len(unflushed[t]) :
              /\ FlushTo(t, n)
              /\ unflushed' = [unflushed EXCEPT ![t] = StillWaiting(t, n)]
        BY <1>11 DEF WriteFails
    <2>3. /\ file' \in Seq(Pieces) /\ offset' \in [Requesters -> Nat]
          /\ StillWaiting(t, n) \in Seq(Pieces)
        BY <2>2, FlushKeepsTypes
    <2>4. unflushed' \in [Requesters -> Seq(Pieces)]
        BY <2>2, <2>3 DEF RequestTypeOK
    <2> QED BY <1>11, <2>1, <2>3, <2>4 DEF WriteFails, RequestTypeOK
<1> QED BY <1>1, <1>2, <1>3, <1>4, <1>5, <1>6, <1>7, <1>8, <1>9, <1>10, <1>11 DEF RequestNext

(***************************************************************************)
(* The code and the string of a thread: a step of another thread leaves    *)
(* them alone, or marks the code as disturbed.                             *)
(***************************************************************************)
LEMMA AnswersStep ==
    RequestInv /\ [RequestNext]_request_vars => (AnswersAreOwn /\ CodesAreLeft)'
<1> SUFFICES ASSUME RequestInv, [RequestNext]_request_vars PROVE (AnswersAreOwn /\ CodesAreLeft)'
    OBVIOUS
<1> USE DEF RequestGoto
<1>0. RequestTypeOK /\ AnswersAreOwn /\ CodesAreLeft /\ TransfersAreClean
    BY DEF RequestInv
<1>1. ASSUME NEW t \in Requesters, NEW download \in BOOLEAN, Request(t, download)
      PROVE  (AnswersAreOwn /\ CodesAreLeft)'
    <2>1. requests + 1 \in Requests /\ 0 \in 0..MaxPieces
        BY <1>0, <1>1, RequestAssumption DEF Request, RequestTypeOK, Requests
    <2>2. Body(requests + 1, 0) = <<>>
        BY <2>1, Bodies
    <2>3. (CodeIsOwn /\ CodesAreLeft)'
        BY <1>0, <1>1 DEF Request, AnswersAreOwn, CodeIsOwn, CodesAreLeft, RequestTypeOK
    <2>4. ResponseIsOwn'
        BY <1>0, <1>1, <2>2 DEF Request, reset, AnswersAreOwn, ResponseIsOwn, RequestTypeOK
    <2> QED BY <2>3, <2>4 DEF AnswersAreOwn
<1>2. ASSUME NEW t \in Requesters, InitFails(t) PROVE (AnswersAreOwn /\ CodesAreLeft)'
    BY <1>0, <1>2 DEF InitFails, LeaveCode, code_without_curl, AnswersAreOwn, CodeIsOwn,
                      ResponseIsOwn, CodesAreLeft, RequestTypeOK
<1>3. ASSUME NEW t \in Requesters, InitCurl(t) PROVE (AnswersAreOwn /\ CodesAreLeft)'
    BY <1>0, <1>3 DEF InitCurl, AnswersAreOwn, CodeIsOwn, ResponseIsOwn, CodesAreLeft, RequestTypeOK
<1>4. ASSUME NEW t \in Requesters, NoFileCrash(t) PROVE (AnswersAreOwn /\ CodesAreLeft)'
    BY <1>0, <1>4 DEF NoFileCrash, AnswersAreOwn, CodeIsOwn, ResponseIsOwn, CodesAreLeft
<1>5. ASSUME NEW t \in Requesters, ReceiveCode(t) PROVE (AnswersAreOwn /\ CodesAreLeft)'
    BY <1>0, <1>5 DEF ReceiveCode, AnswersAreOwn, CodeIsOwn, ResponseIsOwn, CodesAreLeft, RequestTypeOK
<1>6. ASSUME NEW t \in Requesters, ReceivePiece(t) PROVE (AnswersAreOwn /\ CodesAreLeft)'
    <2>1. (CodeIsOwn /\ CodesAreLeft)'
        BY <1>0, <1>6 DEF ReceivePiece, AnswersAreOwn, CodeIsOwn, CodesAreLeft, RequestTypeOK
    <2>2. request[t] \in Requests /\ received[t] \in 0..MaxPieces /\ received[t] < MaxPieces
          /\ request_pc[t] = "perform"
        BY <1>0, <1>6 DEF ReceivePiece, RequestTypeOK
    <2>3. Append(Body(request[t], received[t]), <<request[t], received[t] + 1>>)
              = Body(request[t], received[t] + 1)
        BY <2>2, Bodies
    <2>4. ~ is_download[t] => response[t] = Body(request[t], received[t])
        BY <1>0, <2>2 DEF AnswersAreOwn, ResponseIsOwn
    <2>5. ResponseIsOwn'
        BY <1>0, <1>6, <2>3, <2>4 DEF ReceivePiece, AnswersAreOwn, ResponseIsOwn, RequestTypeOK
    <2> QED BY <2>1, <2>5 DEF AnswersAreOwn
<1>7. ASSUME NEW t \in Requesters, Flush(t) PROVE (AnswersAreOwn /\ CodesAreLeft)'
    BY <1>0, <1>7 DEF Flush, AnswersAreOwn, CodeIsOwn, ResponseIsOwn, CodesAreLeft, RequestTypeOK
<1>8. ASSUME NEW t \in Requesters, Performed(t) PROVE (AnswersAreOwn /\ CodesAreLeft)'
    BY <1>0, <1>8 DEF Performed, LeaveCode, AnswersAreOwn, CodeIsOwn, ResponseIsOwn, CodesAreLeft,
                      RequestTypeOK
<1>9. ASSUME NEW t \in Requesters, Close(t) PROVE (AnswersAreOwn /\ CodesAreLeft)'
    BY <1>0, <1>9 DEF Close, AnswersAreOwn, CodeIsOwn, ResponseIsOwn, CodesAreLeft, RequestTypeOK
<1>10. CASE UNCHANGED request_vars
    BY <1>0, <1>10 DEF request_vars, AnswersAreOwn, CodeIsOwn, ResponseIsOwn, CodesAreLeft
<1>11. ASSUME NEW t \in Requesters, WriteFails(t) PROVE (AnswersAreOwn /\ CodesAreLeft)'
    BY <1>0, <1>11 DEF WriteFails, AnswersAreOwn, CodeIsOwn, ResponseIsOwn, CodesAreLeft, RequestTypeOK
<1> QED BY <1>1, <1>2, <1>3, <1>4, <1>5, <1>6, <1>7, <1>8, <1>9, <1>10, <1>11 DEF RequestNext

LEMMA TransfersStep ==
    RequestInv /\ [RequestNext]_request_vars => TransfersAreClean'
<1> SUFFICES ASSUME RequestInv, [RequestNext]_request_vars PROVE TransfersAreClean'
    OBVIOUS
<1> USE DEF RequestGoto, TransfersAreClean, Writing
<1>0. RequestTypeOK /\ TransfersAreClean
    BY DEF RequestInv
<1>1. ASSUME NEW t \in Requesters, NEW download \in BOOLEAN, Request(t, download)
      PROVE  TransfersAreClean'
    BY <1>0, <1>1 DEF Request, RequestTypeOK, file_vars
<1>2. ASSUME NEW t \in Requesters, InitFails(t) PROVE TransfersAreClean'
    BY <1>0, <1>2 DEF InitFails, RequestTypeOK, file_vars
<1>3. ASSUME NEW t \in Requesters, InitCurl(t) PROVE TransfersAreClean'
    BY <1>0, <1>3 DEF InitCurl, RequestTypeOK, file_vars
<1>4. ASSUME NEW t \in Requesters, NoFileCrash(t) PROVE TransfersAreClean'
    BY <1>0, <1>4 DEF NoFileCrash, file_vars
<1>5. ASSUME NEW t \in Requesters, ReceiveCode(t) PROVE TransfersAreClean'
    BY <1>0, <1>5 DEF ReceiveCode, RequestTypeOK, file_vars
<1>6. ASSUME NEW t \in Requesters, ReceivePiece(t) PROVE TransfersAreClean'
    BY <1>0, <1>6 DEF ReceivePiece, RequestTypeOK
<1>7. ASSUME NEW t \in Requesters, Flush(t) PROVE TransfersAreClean'
    BY <1>0, <1>7 DEF Flush, RequestTypeOK
<1>8. ASSUME NEW t \in Requesters, Performed(t) PROVE TransfersAreClean'
    BY <1>0, <1>8 DEF Performed, RequestTypeOK, file_vars
<1>9. ASSUME NEW t \in Requesters, Close(t) PROVE TransfersAreClean'
    BY <1>0, <1>9 DEF Close, RequestTypeOK
<1>10. CASE UNCHANGED request_vars
    BY <1>0, <1>10 DEF request_vars, file_vars
<1>11. ASSUME NEW t \in Requesters, WriteFails(t) PROVE TransfersAreClean'
    BY <1>0, <1>11 DEF WriteFails, RequestTypeOK
<1> QED BY <1>1, <1>2, <1>3, <1>4, <1>5, <1>6, <1>7, <1>8, <1>9, <1>10, <1>11 DEF RequestNext

(***************************************************************************)
(* A step of a thread that leaves the file and the other threads' part of  *)
(* it alone keeps what is known of the others' files.                      *)
(***************************************************************************)
LEMMA OthersAreKept ==
    ASSUME FilesAreOwn, NEW t \in Requesters, NEW u \in Requesters, u # t,
           file' = file, unflushed'[u] = unflushed[u], offset'[u] = offset[u],
           file_shared'[u] = file_shared[u], is_download'[u] = is_download[u],
           request_pc'[u] = request_pc[u], request'[u] = request[u], received'[u] = received[u],
           write_failed'[u] = write_failed[u],
           \A v \in Requesters \ {t} : Writing(v)' <=> Writing(v),
           Writing(t)' => Writing(t)
    PROVE  Alone(u)' => /\ \E n \in 0..received'[u] :
                               /\ file' \o unflushed'[u] = Body(request'[u], n)
                               /\ ~ write_failed'[u] => n = received'[u]
                        /\ Writing(u)' => offset'[u] = Len(file')
                        /\ \A v \in Requesters \ {u} : ~ Writing(v)'
<1>1. Alone(u)' <=> Alone(u)
    BY DEF Alone
<1> QED BY <1>1 DEF FilesAreOwn

LEMMA FilesStep ==
    RequestInv /\ [RequestNext]_request_vars => FilesAreOwn'
<1> SUFFICES ASSUME RequestInv, [RequestNext]_request_vars PROVE FilesAreOwn'
    OBVIOUS
<1> DEFINE Own(u) == /\ \E n \in 0..received[u] :
                            /\ file \o unflushed[u] = Body(request[u], n)
                            /\ ~ write_failed[u] => n = received[u]
                     /\ Writing(u) => offset[u] = Len(file)
                     /\ \A v \in Requesters \ {u} : ~ Writing(v)
<1>0. RequestTypeOK /\ TransfersAreClean /\ FilesAreOwn
    BY DEF RequestInv
<1>a. \A u \in Requesters : Alone(u) => Own(u)
    BY <1>0 DEF FilesAreOwn
<1>b. SUFFICES \A u \in Requesters : (Alone(u) => Own(u))'
    BY DEF FilesAreOwn
<1> HIDE DEF Own
<1>1. ASSUME NEW t \in Requesters, NEW download \in BOOLEAN, Request(t, download),
             NEW u \in Requesters
      PROVE  (Alone(u) => Own(u))'
    <2>1. CASE u = t
        BY <1>0, <1>1, <2>1 DEF Request, RequestGoto, Alone, RequestTypeOK
    <2>2. /\ UNCHANGED <<file, offset, unflushed, file_shared>> /\ request_pc'[t] = "init"
          /\ \A v \in Requesters \ {t} : /\ request_pc'[v] = request_pc[v] /\ request'[v] = request[v]
                                         /\ write_failed'[v] = write_failed[v]
                                         /\ received'[v] = received[v]
                                         /\ is_download'[v] = is_download[v]
        BY <1>0, <1>1 DEF Request, RequestGoto, RequestTypeOK
    <2>3. ~ Writing(t)' /\ \A v \in Requesters \ {t} : Writing(v)' <=> Writing(v)
        BY <2>2 DEF Writing
    <2>4. CASE u # t
        BY <1>0, <2>2, <2>3, <2>4, OthersAreKept DEF Own
    <2> QED BY <2>1, <2>4
<1>2. ASSUME NEW t \in Requesters, InitFails(t) \/ NoFileCrash(t) \/ ReceiveCode(t) \/ Performed(t),
             NEW u \in Requesters
      PROVE  (Alone(u) => Own(u))'
    <2>1. /\ UNCHANGED <<file_vars, is_download, request, received>>
          /\ \A v \in Requesters \ {t} : request_pc'[v] = request_pc[v]
          /\ request_pc'[t] \in {"perform", "close", "returned"} =>
                 request_pc[t] = "perform" \/ request_pc'[t] = request_pc[t]
          /\ request_pc[t] = "perform" => request_pc'[t] \in {"perform", "close", "returned"}
          /\ request_pc'[t] = "returned" => request_pc[t] = "returned" \/ ~ is_download[t]
        BY <1>0, <1>2 DEF InitFails, NoFileCrash, ReceiveCode, Performed, RequestGoto, RequestTypeOK
    <2>2. CASE u = t
        <3>1. Alone(t)' => Alone(t)
            BY <2>1 DEF Alone, file_vars
        <3>2. \A v \in Requesters \ {t} : Writing(v)' <=> Writing(v)
            BY <2>1 DEF Writing
        <3>3. Alone(t)' => (Writing(t)' => Writing(t))
            BY <2>1 DEF Writing, Alone, file_vars
        <3> QED BY <1>a, <2>1, <2>2, <3>1, <3>2, <3>3 DEF Own, file_vars
    <2>3. CASE u # t
        <3>1. Writing(t)' => Writing(t)
            BY <2>1 DEF Writing
        <3>2. \A v \in Requesters \ {t} : Writing(v)' <=> Writing(v)
            BY <2>1 DEF Writing
        <3> QED BY <1>0, <2>1, <2>3, <3>1, <3>2, OthersAreKept DEF Own, file_vars
    <2> QED BY <2>2, <2>3
<1>3. ASSUME NEW t \in Requesters, InitCurl(t), NEW u \in Requesters PROVE (Alone(u) => Own(u))'
    <2>0. /\ UNCHANGED <<is_download, request, received>>
          /\ request_pc[t] = "init" /\ request_pc' = [request_pc EXCEPT ![t] = request_pc'[t]]
          /\ \A v \in Requesters \ {t} : request_pc'[v] = request_pc[v]
          /\ ~ Writing(t)
        BY <1>0, <1>3 DEF InitCurl, RequestGoto, RequestTypeOK, Writing
    <2>1. CASE request_pc'[t] = "perform" /\ is_download[t]
        <3>1. /\ file' = <<>> /\ UNCHANGED <<unflushed, write_failed>> /\ offset'[t] = 0
              /\ \A v \in Requesters \ {t} : file_shared'[v]
              /\ file_shared'[t] <=> \E v \in Requesters \ {t} : Writing(v)
            BY <1>0, <1>3, <2>1 DEF InitCurl, RequestGoto, RequestTypeOK, opened
        <3>2. CASE u # t
            BY <3>1, <3>2 DEF Alone
        <3>3. CASE u = t
            <4>1. received[t] = 0 /\ unflushed[t] = <<>> /\ request[t] \in Requests
                BY <1>0, <2>0 DEF TransfersAreClean, RequestTypeOK
            <4>2. Body(request[t], 0) = <<>>
                BY <4>1, Bodies, RequestAssumption
            <4>3. file' \o unflushed'[t] = Body(request'[t], 0) /\ received'[t] = 0
                BY <2>0, <3>1, <4>1, <4>2
            <4>4. Alone(t)' => \A v \in Requesters \ {t} : ~ Writing(v)'
                BY <2>0, <3>1 DEF Alone, Writing
            <4> QED BY <3>1, <3>3, <4>3, <4>4 DEF Own
        <3> QED BY <3>2, <3>3
    <2>2. CASE ~ (request_pc'[t] = "perform" /\ is_download[t])
        <3>1. UNCHANGED file_vars /\ ~ Writing(t)' /\ ~ Alone(t)'
            BY <1>0, <1>3, <2>2 DEF InitCurl, RequestGoto, RequestTypeOK, Writing, Alone
        <3>2. \A v \in Requesters \ {t} : Writing(v)' <=> Writing(v)
            BY <2>0 DEF Writing
        <3>3. CASE u # t
            BY <1>0, <2>0, <3>1, <3>2, <3>3, OthersAreKept DEF Own, file_vars
        <3> QED BY <3>1, <3>3
    <2> QED BY <2>1, <2>2
<1>4. ASSUME NEW t \in Requesters, ReceivePiece(t), NEW u \in Requesters
      PROVE  (Alone(u) => Own(u))'
    <2>1. /\ UNCHANGED <<file, offset, file_shared, write_failed, is_download, request, request_pc>>
          /\ ~ write_failed[t]
          /\ \A v \in Requesters \ {t} : received'[v] = received[v] /\ unflushed'[v] = unflushed[v]
          /\ \A v \in Requesters : (Writing(v)' <=> Writing(v)) /\ (Alone(v)' <=> Alone(v))
        BY <1>0, <1>4 DEF ReceivePiece, RequestGoto, RequestTypeOK, Writing, Alone
    <2>2. CASE u # t
        BY <1>0, <2>1, <2>2, OthersAreKept DEF Own
    <2>3. CASE u = t
        <3> SUFFICES ASSUME Alone(t) PROVE Own(t)'
            BY <2>1, <2>3
        <3> DEFINE piece == <<request[t], received[t] + 1>>
        <3>1. is_download[t] /\ received[t] \in 0..MaxPieces /\ received[t] < MaxPieces
              /\ request[t] \in Requests /\ file \in Seq(Pieces) /\ unflushed[t] \in Seq(Pieces)
            BY <1>0, <1>4 DEF ReceivePiece, RequestTypeOK, Alone
        <3>2. received'[t] = received[t] + 1 /\ unflushed'[t] = Append(unflushed[t], piece)
            BY <1>0, <1>4, <3>1 DEF ReceivePiece, RequestTypeOK
        <3>3. piece \in Pieces
            BY <3>1, RequestAssumption DEF Pieces
        <3>4. Append(Body(request[t], received[t]), piece) = Body(request[t], received[t] + 1)
            BY <3>1, Bodies
        <3> HIDE DEF piece
        <3>5. file \o Append(unflushed[t], piece) = Append(file \o unflushed[t], piece)
            BY <3>1, <3>3
        <3>6. file \o unflushed[t] = Body(request[t], received[t])
            BY <1>a, <2>1 DEF Own
        <3>7. file' \o unflushed'[t] = Body(request'[t], received'[t]) /\ received'[t] \in 0..received'[t]
            BY <2>1, <3>1, <3>2, <3>4, <3>5, <3>6
        <3> QED BY <1>a, <2>1, <3>7 DEF Own
    <2> QED BY <2>2, <2>3
<1>5. ASSUME NEW t \in Requesters, Flush(t) \/ WriteFails(t) \/ Close(t), NEW u \in Requesters
      PROVE  (Alone(u) => Own(u))'
    <2>1. /\ UNCHANGED <<file_shared, is_download, request>>
          /\ \A v \in Requesters \ {t} : /\ request_pc'[v] = request_pc[v] /\ received'[v] = received[v]
                                         /\ write_failed'[v] = write_failed[v]
                                         /\ unflushed'[v] = unflushed[v]
          /\ request_pc[t] \in {"perform", "close"}
          /\ Writing(t)' => Writing(t)
          /\ \A v \in Requesters \ {t} : Writing(v)' <=> Writing(v)
          /\ Alone(t)' => Alone(t)
        BY <1>0, <1>5 DEF Flush, WriteFails, Close, RequestGoto, RequestTypeOK, Writing, Alone
    <2>2. /\ file \in Seq(Pieces) /\ unflushed[t] \in Seq(Pieces) /\ offset[t] \in Nat
          /\ Len(unflushed[t]) \in Nat /\ Len(file) \in Nat
          /\ received[t] \in 0..MaxPieces /\ request[t] \in Requests /\ received[t] \in Nat
          /\ write_failed[t] \in BOOLEAN
        BY <1>0, RequestAssumption DEF RequestTypeOK
    <2> DEFINE N == Len(unflushed[t])
               first(n) == SubSeq(unflushed[t], 1, n)
    <2>3. PICK n \in 0..N :
              /\ FlushTo(t, n)
              /\ \/ /\ unflushed'[t] = <<>> /\ received'[t] = received[t]
                    /\ ~ write_failed'[t] => n = N /\ ~ write_failed[t]
                 \/ /\ unflushed'[t] = StillWaiting(t, n) /\ received'[t] = received[t] + 1
                    /\ write_failed'[t]
        <3>1. CASE Flush(t)
            <4>1. N \in 0..N /\ FlushTo(t, N) /\ unflushed'[t] = <<>> /\ received'[t] = received[t]
                  /\ (~ write_failed'[t] => ~ write_failed[t])
                BY <1>0, <2>2, <3>1 DEF Flush, RequestTypeOK
            <4> QED BY <4>1
        <3>2. CASE WriteFails(t)
            BY <1>0, <3>2 DEF WriteFails, RequestTypeOK
        <3>3. CASE Close(t)
            <4>1. PICK n \in 0..N : /\ FlushTo(t, n)
                                    /\ write_failed' = [write_failed EXCEPT ![t] = @ \/ n < N]
                BY <3>3 DEF Close
            <4>2. write_failed'[t] = (write_failed[t] \/ n < N)
                BY <1>0, <4>1 DEF RequestTypeOK
            <4>3. ~ write_failed'[t] => n = N /\ ~ write_failed[t]
                <5> HAVE ~ write_failed'[t]
                <5>1. ~ (n < N) /\ ~ write_failed[t]
                    BY Zenon, <4>2
                <5>2. N \in Nat /\ n \in 0..N
                    BY <2>2
                <5> HIDE DEF N
                <5>3. n = N
                    BY <5>1, <5>2
                <5> QED BY <5>1, <5>3
            <4>4. unflushed'[t] = <<>> /\ received'[t] = received[t]
                BY <1>0, <3>3 DEF Close, RequestTypeOK
            <4> QED BY <4>1, <4>3, <4>4
        <3> QED BY <1>5, <3>1, <3>2, <3>3
    <2>4. /\ file' = WriteAt(file, offset[t], first(n)) /\ offset'[t] = offset[t] + n
          /\ \A v \in Requesters \ {t} : offset'[v] = offset[v]
        BY <1>0, <2>3 DEF FlushTo, RequestTypeOK
    <2>5. first(n) \in Seq(Pieces) /\ Len(first(n)) = n
        BY <2>2
    <2>6. CASE u = t
        <3> SUFFICES ASSUME Alone(t) PROVE Own(t)'
            BY <2>1, <2>6
        <3>1. Writing(t) /\ Own(t)
            BY <1>a, <2>1 DEF Writing, Alone
        <3>2. file' = file \o first(n)
            BY <2>2, <2>4, <2>5, <3>1, Writes DEF Own
        <3>3. PICK m \in 0..received[t] :
                  /\ file \o unflushed[t] = Body(request[t], m)
                  /\ ~ write_failed[t] => m = received[t]
            BY <3>1 DEF Own
        <3>4. m \in 0..MaxPieces
            BY <2>2, RequestAssumption
        <3>5. /\ file \o first(n) = Body(request[t], Len(file) + n)
              /\ Len(file) + n \leq m /\ Len(file) + N = m
              /\ file \o first(n) \in Seq(Pieces) /\ Len(file \o first(n)) = Len(file) + n
              /\ (file \o first(n)) \o StillWaiting(t, n) = file \o unflushed[t]
            <4>1. StillWaiting(t, n) = SubSeq(unflushed[t], n + 1, N)
                BY DEF StillWaiting
            <4>2. file \o unflushed[t] = Body(request[t], m)
                BY <3>3
            <4>3. /\ file \in Seq(Pieces) /\ unflushed[t] \in Seq(Pieces) /\ request[t] \in Requests
                  /\ n \in 0..Len(unflushed[t])
                BY <2>2
            <4>4. /\ file \o SubSeq(unflushed[t], 1, n) = Body(request[t], Len(file) + n)
                  /\ Len(file) + n \leq m /\ Len(file) + Len(unflushed[t]) = m
                  /\ file \o SubSeq(unflushed[t], 1, n) \in Seq(Pieces)
                  /\ Len(file \o SubSeq(unflushed[t], 1, n)) = Len(file) + n
                  /\ (file \o SubSeq(unflushed[t], 1, n)) \o SubSeq(unflushed[t], n + 1, Len(unflushed[t]))
                        = file \o unflushed[t]
                BY <3>4, <4>2, <4>3, FlushedBodies
            <4> QED BY Zenon, <4>1, <4>4
        <3>6. offset'[t] = Len(file') /\ request'[t] = request[t]
            BY <2>1, <2>4, <3>1, <3>2, <3>5 DEF Own
        <3>7. ASSUME unflushed'[t] = <<>>, received'[t] = received[t],
                     ~ write_failed'[t] => n = N /\ ~ write_failed[t]
              PROVE  \E k \in 0..received'[t] :
                         /\ file' \o unflushed'[t] = Body(request'[t], k)
                         /\ ~ write_failed'[t] => k = received'[t]
            <4>1. Len(file) + n \in 0..received'[t]
                BY <2>2, <3>5, <3>7
            <4>2. file' \o unflushed'[t] = Body(request'[t], Len(file) + n)
                BY <3>2, <3>5, <3>6, <3>7, ConcatEmptySeq
            <4>3. ~ write_failed'[t] => Len(file) + n = received'[t]
                <5> HAVE ~ write_failed'[t]
                <5>1. n = N /\ m = received[t]
                    BY Zenon, <3>3, <3>7
                <5> QED BY <3>5, <3>7, <5>1
            <4> QED BY <4>1, <4>2, <4>3
        <3>8. ASSUME unflushed'[t] = StillWaiting(t, n), received'[t] = received[t] + 1,
                     write_failed'[t]
              PROVE  \E k \in 0..received'[t] :
                         /\ file' \o unflushed'[t] = Body(request'[t], k)
                         /\ ~ write_failed'[t] => k = received'[t]
            <4>1. m \in 0..received'[t]
                BY <2>2, <3>8
            <4>2. file' \o unflushed'[t] = Body(request'[t], m)
                <5>1. (file \o first(n)) \o StillWaiting(t, n) = file \o unflushed[t]
                    BY <3>5
                <5>2. file \o unflushed[t] = Body(request[t], m) /\ request'[t] = request[t]
                    BY <3>3, <3>6
                <5> QED BY Zenon, <3>2, <3>8, <5>1, <5>2
            <4> QED BY <3>8, <4>1, <4>2
        <3>9. \E k \in 0..received'[t] :
                  /\ file' \o unflushed'[t] = Body(request'[t], k)
                  /\ ~ write_failed'[t] => k = received'[t]
            BY <2>3, <3>7, <3>8
        <3> QED BY <2>1, <3>1, <3>6, <3>9 DEF Own
    <2>7. CASE u # t
        <3>1. CASE Writing(t)
            <4>1. ~ Alone(u)
                BY <1>a, <2>7, <3>1 DEF Own
            <4> QED BY <2>1, <2>7, <4>1 DEF Alone
        <3>2. CASE ~ Writing(t)
            <4>1. unflushed[t] = <<>>
                BY <1>0, <3>2 DEF TransfersAreClean
            <4>2. first(n) = <<>>
                BY <2>2, <2>5, <4>1, EmptySeq
            <4>3. file' = file
                BY <2>2, <2>4, <2>5, <4>2, Writes
            <4> QED BY <1>0, <2>1, <2>4, <2>7, <4>3, OthersAreKept DEF Own
        <3> QED BY <3>1, <3>2
    <2> QED BY <2>6, <2>7
<1>6. ASSUME UNCHANGED request_vars, NEW u \in Requesters PROVE (Alone(u) => Own(u))'
    BY <1>a, <1>6 DEF request_vars, file_vars, Alone, Own, Writing
<1> QED BY <1>1, <1>2, <1>3, <1>4, <1>5, <1>6 DEF RequestNext

-----------------------------------------------------------------------------
LEMMA RequestInvHolds == RequestSpec => []RequestInv
<1>1. RequestInv /\ [RequestNext]_request_vars => RequestInv'
    BY RequestTypeStep, AnswersStep, TransfersStep, FilesStep DEF RequestInv
<1> QED BY <1>1, RequestInvInit, PTL DEF RequestSpec

(* The requests keep their types.                                          *)
THEOREM RequestTypeCorrect == RequestSpec => []RequestTypeOK
<1>1. RequestInv => RequestTypeOK
    BY DEF RequestInv
<1> QED BY <1>1, RequestInvHolds, PTL

(***************************************************************************)
(* get_last_http_code and the caller's string are those of its own request *)
(* on every way out of send_get_request, send_post_request and             *)
(* download_file.                                                          *)
(***************************************************************************)
THEOREM AnswersHold == RequestSpec => []AnswersAreOwn
<1>1. RequestInv => AnswersAreOwn
    BY DEF RequestInv
<1> QED BY <1>1, RequestInvHolds, PTL

(***************************************************************************)
(* The file download_file leaves is what it received, or the beginning of  *)
(* it if fwrite or fclose has failed, and nothing else, if no other        *)
(* download had the file open meanwhile.                                   *)
(***************************************************************************)
THEOREM DownloadsHold == RequestSpec => []FileIsTheDownload
<1>1. RequestInv => FileIsTheDownload
    <2> SUFFICES ASSUME RequestInv, NEW t \in Requesters, is_download[t],
                        request_pc[t] = "returned", ~ file_shared[t]
                 PROVE  \E n \in 0..received[t] : /\ file = Body(request[t], n)
                                                  /\ ~ write_failed[t] => n = received[t]
        BY DEF FileIsTheDownload
    <2>1. PICK n \in 0..received[t] : /\ file \o unflushed[t] = Body(request[t], n)
                                      /\ ~ write_failed[t] => n = received[t]
        BY DEF RequestInv, FilesAreOwn, Alone
    <2>2. unflushed[t] = <<>>
        BY DEF RequestInv, TransfersAreClean, Writing
    <2>3. file \in Seq(Pieces)
        BY DEF RequestInv, RequestTypeOK
    <2>4. file \o <<>> = file
        BY <2>3
    <2> QED BY <2>1, <2>2, <2>4
<1> QED BY <1>1, RequestInvHolds, PTL

-----------------------------------------------------------------------------
(***************************************************************************)
(* Registry, for any number of threads, values and changes.  What a call   *)
(* has seen always includes the value as it is now, and once the size has  *)
(* been told, a string; each return takes its text from the value it finds. *)
(***************************************************************************)

(***************************************************************************)
(* value.resize(first_null) leaves the characters before the first NUL, or *)
(* all of them.                                                            *)
(***************************************************************************)
LEMMA UpToNull ==
    ASSUME NEW text \in Seq(Characters)
    PROVE  /\ up_to_null(text) \in Seq(Characters)
           /\ Len(up_to_null(text)) <= Len(text)
           /\ \A i \in 1..Len(up_to_null(text)) :
                  up_to_null(text)[i] = text[i] /\ text[i] # NUL
           /\ Len(up_to_null(text)) < Len(text) => text[Len(up_to_null(text)) + 1] = NUL
<1> DEFINE nulls == {i \in 1..Len(text) : text[i] = NUL}
<1>1. CASE nulls = {}
    BY <1>1 DEF up_to_null
<1>2. CASE nulls # {}
    <2> DEFINE first == CHOOSE i \in nulls : \A k \in nulls : i <= k
    <2>1. nulls \in SUBSET Nat
        OBVIOUS
    <2>2. \E i \in nulls : \A k \in nulls : i <= k
        BY <1>2, <2>1, LeastExists
    <2>3. first \in nulls /\ \A k \in nulls : first <= k
        BY <2>2
    <2>4. up_to_null(text) = SubSeq(text, 1, first - 1)
        BY <1>2 DEF up_to_null
    <2>5. first \in 1..Len(text) /\ text[first] = NUL
        BY <2>3
    <2>6. \A k \in 1..Len(text) : text[k] = NUL => first <= k
        BY <2>3
    <2> HIDE DEF first, nulls
    <2>7. Len(text) \in Nat /\ \A k \in 1..Len(text) : text[k] \in Characters
        OBVIOUS
    <2>8. /\ SubSeq(text, 1, first - 1) \in Seq(Characters)
          /\ Len(SubSeq(text, 1, first - 1)) = first - 1
          /\ \A i \in 1..(first - 1) : SubSeq(text, 1, first - 1)[i] = text[i]
        <3>1. first - 1 \in Int /\ 1 \in Int
              /\ \A i \in 1..(first - 1) : text[i] \in Characters
            BY <2>5, <2>7
        <3>2. /\ SubSeq(text, 1, first - 1) \in Seq(Characters)
              /\ Len(SubSeq(text, 1, first - 1)) =
                     IF 1 <= first - 1 THEN (first - 1) - 1 + 1 ELSE 0
              /\ \A i \in 1..((first - 1) - 1 + 1) :
                     SubSeq(text, 1, first - 1)[i] = text[1 + i - 1]
            BY <3>1, SubSeqProperties
        <3>3. (first - 1) - 1 + 1 = first - 1 /\ \A i \in 1..(first - 1) : 1 + i - 1 = i
            BY <3>1
        <3>4. Len(SubSeq(text, 1, first - 1)) = first - 1
            BY <2>5, <2>7, <3>2
        <3> QED BY <3>2, <3>3, <3>4
    <2>9. \A i \in 1..(first - 1) : text[i] # NUL
        BY <2>5, <2>6, <2>7
    <2> QED BY <2>4, <2>5, <2>7, <2>8, <2>9
<1> QED BY <1>1, <1>2

(* The string the data is read into, and the NULs it was made of.          *)
Padded(data, size) == [i \in 1..size |-> IF i <= Len(data) THEN data[i] ELSE NUL]

(***************************************************************************)
(* The text cut from a string as long as the size that was told is the     *)
(* C string of the data, when the data is no longer than that.             *)
(***************************************************************************)
LEMMA PaddedIsCString ==
    ASSUME NEW data \in Seq(Characters), NEW size \in Nat, Len(data) <= size
    PROVE  /\ up_to_null(Padded(data, size)) \in Seq(Characters)
           /\ IsCString(up_to_null(Padded(data, size)), data)
<1> DEFINE padded == Padded(data, size)
           text   == up_to_null(padded)
<1>1. Len(data) \in Nat /\ \A i \in 1..Len(data) : data[i] \in Characters
    OBVIOUS
<1>2. NUL \in Characters
    BY RegistryAssumption
<1>3. padded \in Seq(Characters) /\ Len(padded) = size
    <2>1. \A i \in 1..size : i <= Len(data) => i \in 1..Len(data)
        BY <1>1
    <2>2. padded \in [1..size -> Characters]
        BY <1>1, <1>2, <2>1 DEF Padded
    <2> HIDE DEF padded
    <2> QED BY <2>2
<1>4. \A i \in 1..size : padded[i] = IF i <= Len(data) THEN data[i] ELSE NUL
    BY DEF Padded
<1> HIDE DEF padded
<1>5. /\ text \in Seq(Characters)
      /\ Len(text) <= size
      /\ \A i \in 1..Len(text) : text[i] = padded[i] /\ padded[i] # NUL
      /\ Len(text) < size => padded[Len(text) + 1] = NUL
    BY <1>3, UpToNull
<1> HIDE DEF text
<1>6. Len(text) \in Nat
    BY <1>5
<1>7. Len(text) <= Len(data)
    <2> SUFFICES ASSUME Len(data) < Len(text) PROVE FALSE
        BY <1>1, <1>6
    <2>1. Len(data) + 1 \in 1..Len(text) /\ Len(data) + 1 \in 1..size
        BY <1>1, <1>5, <1>6
    <2> QED BY <1>1, <1>4, <1>5, <2>1
<1>8. \A i \in 1..Len(text) : text[i] # NUL /\ text[i] = data[i]
    BY <1>1, <1>4, <1>5, <1>6, <1>7
<1>9. Len(text) < Len(data) => data[Len(text) + 1] = NUL
    BY <1>1, <1>4, <1>5, <1>6
<1> QED BY <1>5, <1>7, <1>8, <1>9 DEF padded, text, IsCString

-----------------------------------------------------------------------------
(* What makes TextIsOfOneValue inductive.                                  *)
SeenIsCurrent ==
    \A t \in Readers :
        /\ read_pc[t] # "idle" => value \in seen[t]
        /\ read_pc[t] = "read" => \E v \in seen[t] \ {NoValue} : v.type = "REG_SZ"

ReaderInv == RegistryTypeOK /\ SeenIsCurrent /\ TextIsOfOneValue /\ ReturnsAreClean

LEMMA ValueIsAString ==
    ASSUME RegistryTypeOK, value # NoValue
    PROVE  value \in Values /\ value.data \in Seq(Characters) /\ Len(value.data) \in Nat
<1>1. value \in [type : STRING, data : Seq(Characters)]
    BY RegistryAssumption DEF RegistryTypeOK
<1>2. value.data \in Seq(Characters)
    BY <1>1
<1> QED BY <1>2 DEF RegistryTypeOK

LEMMA ReaderInit == RegistryInit => ReaderInv
<1> SUFFICES ASSUME RegistryInit PROVE ReaderInv
    OBVIOUS
<1>0. <<>> \in Seq(Characters)
    OBVIOUS
<1>1. RegistryTypeOK
    BY <1>0, RegistryAssumption DEF RegistryInit, RegistryTypeOK, Codes
<1>2. SeenIsCurrent /\ TextIsOfOneValue /\ ReturnsAreClean
    BY DEF RegistryInit, SeenIsCurrent, TextIsOfOneValue, ReturnsAreClean, KeysAreClosed, ErrorIsOwn
<1> QED BY <1>1, <1>2 DEF ReaderInv

(* Every return keeps the invariant if its text is what it should be.      *)
LEMMA ReturnKeeps ==
    ASSUME ReaderInv, NEW t \in Readers, NEW from \in {"query", "read"},
           NEW code \in Codes, NEW text \in Seq(Characters), ReturnFrom(t, from, code, text),
           code # "NONE" => text = <<>>,
           code = "NONE" => /\ \E v \in seen[t] \ {NoValue} : IsCString(text, v.data)
                            /\ \E v \in seen[t] \ {NoValue} : v.type = "REG_SZ"
    PROVE  ReaderInv'
<1> USE DEF ReturnFrom, ReadGoto
<1>0. RegistryTypeOK /\ SeenIsCurrent /\ TextIsOfOneValue /\ ReturnsAreClean
    BY DEF ReaderInv
<1>1. /\ read_pc' = [read_pc EXCEPT ![t] = "idle"] /\ read_pc[t] = from
      /\ result' = [result EXCEPT ![t] = [code |-> code, text |-> text]]
      /\ UNCHANGED <<value, changes, data_size, reads, seen>>
      /\ hkeys' = hkeys \ {t} /\ last_error_code' = code
      /\ error_disturbed' = [u \in Readers |-> u # t]
    BY DEF closed, error_left
<1>2. \A u \in Readers \ {t} : read_pc'[u] = read_pc[u] /\ result'[u] = result[u]
    BY <1>0, <1>1 DEF RegistryTypeOK
<1>3. read_pc'[t] = "idle" /\ result'[t].code = code /\ result'[t].text = text
    BY <1>0, <1>1 DEF RegistryTypeOK
<1> HIDE DEF ReturnFrom, ReadGoto
<1>4. \A i \in 1..Len(text) : text[i] # NUL
    <2>1. CASE code = "NONE"
        BY <2>1 DEF IsCString
    <2>2. CASE code # "NONE"
        BY <2>2
    <2> QED BY <2>1, <2>2
<1>5. RegistryTypeOK'
    <2>1. result' \in [Readers -> [code : Codes, text : Seq(Characters)]]
        BY <1>0, <1>1 DEF RegistryTypeOK
    <2>2. \A u \in Readers : /\ result'[u].code # "NONE" => result'[u].text = <<>>
                             /\ \A i \in 1..Len(result'[u].text) : result'[u].text[i] # NUL
        <3> TAKE u \in Readers
        <3>1. CASE u = t
            BY <1>3, <1>4, <3>1
        <3>2. CASE u # t
            BY <1>0, <1>2, <3>2 DEF RegistryTypeOK
        <3> QED BY <3>1, <3>2
    <2> QED BY <1>0, <1>1, <2>1, <2>2 DEF RegistryTypeOK
<1>6. SeenIsCurrent'
    BY <1>0, <1>1, <1>2, <1>3 DEF SeenIsCurrent
<1>7. TextIsOfOneValue'
    BY <1>0, <1>1, <1>2, <1>3 DEF TextIsOfOneValue
<1>8. ReturnsAreClean'
    BY <1>0, <1>1, <1>2, <1>3 DEF ReturnsAreClean, KeysAreClosed, ErrorIsOwn, RegistryTypeOK
<1> QED BY <1>5, <1>6, <1>7, <1>8 DEF ReaderInv

LEMMA ReaderStep == ReaderInv /\ [RegistryNext]_registry_vars => ReaderInv'
<1> SUFFICES ASSUME ReaderInv, [RegistryNext]_registry_vars PROVE ReaderInv'
    OBVIOUS
<1>0. RegistryTypeOK /\ SeenIsCurrent /\ TextIsOfOneValue /\ ReturnsAreClean
    BY DEF ReaderInv
<1>1. CASE Change
    <2>1. RegistryTypeOK'
        BY <1>0, <1>1, RegistryAssumption DEF Change, RegistryTypeOK
    <2>2. SeenIsCurrent' /\ TextIsOfOneValue' /\ ReturnsAreClean'
        BY <1>0, <1>1 DEF Change, SeenIsCurrent, TextIsOfOneValue, ReturnsAreClean, KeysAreClosed, ErrorIsOwn,
                          RegistryTypeOK
    <2> QED BY <2>1, <2>2 DEF ReaderInv
<1>2. ASSUME NEW t \in Readers, OpenKey(t) PROVE ReaderInv'
    <2>1. RegistryTypeOK'
        BY <1>0, <1>2, RegistryAssumption DEF OpenKey, ReadGoto, RegistryTypeOK
    <2>2. SeenIsCurrent' /\ TextIsOfOneValue' /\ ReturnsAreClean'
        BY <1>0, <1>2 DEF OpenKey, ReadGoto, SeenIsCurrent, TextIsOfOneValue, ReturnsAreClean,
                          KeysAreClosed, ErrorIsOwn, RegistryTypeOK
    <2> QED BY <2>1, <2>2 DEF ReaderInv
<1>3. ASSUME NEW t \in Readers, OpenKeyFails(t) PROVE ReaderInv'
    <2>0. <<>> \in Seq(Characters)
        OBVIOUS
    <2>1. RegistryTypeOK'
        BY <1>0, <1>3, <2>0, RegistryAssumption DEF OpenKeyFails, ReadGoto, RegistryTypeOK, Codes
    <2>2. SeenIsCurrent' /\ TextIsOfOneValue' /\ ReturnsAreClean'
        BY <1>0, <1>3 DEF OpenKeyFails, ReadGoto, SeenIsCurrent, TextIsOfOneValue, ReturnsAreClean,
                          KeysAreClosed, ErrorIsOwn, RegistryTypeOK
    <2> QED BY <2>1, <2>2 DEF ReaderInv
<1>4. ASSUME NEW t \in Readers, QuerySize(t) PROVE ReaderInv'
    <2>0. <<>> \in Seq(Characters) /\ {"READ_ERROR", "INCORRECT_VALUE_TYPE_ERROR"} \subseteq Codes
        BY DEF Codes
    <2>1. CASE ReturnFrom(t, "query", "READ_ERROR", <<>>)
        BY <2>0, <2>1, ReturnKeeps
    <2>2. CASE ReturnFrom(t, "query", "INCORRECT_VALUE_TYPE_ERROR", <<>>)
        BY <2>0, <2>2, ReturnKeeps
    <2>3. CASE /\ value # NoValue /\ value.type = "REG_SZ"
               /\ ReadGoto(t, "query", "read")
               /\ data_size' = [data_size EXCEPT ![t] = Len(value.data)]
               /\ UNCHANGED <<value, changes, hkeys, result, last_error_code, reads, seen,
                              error_disturbed>>
        <3>1. value \in Values /\ Len(value.data) \in Nat
            BY <1>0, <2>3, ValueIsAString
        <3>2. RegistryTypeOK'
            BY <1>0, <2>3, <3>1 DEF ReadGoto, RegistryTypeOK
        <3>3. SeenIsCurrent' /\ TextIsOfOneValue' /\ ReturnsAreClean'
            BY <1>0, <2>3 DEF ReadGoto, SeenIsCurrent, TextIsOfOneValue, ReturnsAreClean,
                              KeysAreClosed, ErrorIsOwn, RegistryTypeOK
        <3> QED BY <3>2, <3>3 DEF ReaderInv
    <2> QED BY <1>4, <2>1, <2>2, <2>3 DEF QuerySize
<1>5. ASSUME NEW t \in Readers, ReadData(t) PROVE ReaderInv'
    <2>0. <<>> \in Seq(Characters) /\ {"READ_ERROR", "NONE"} \subseteq Codes
        BY DEF Codes
    <2>1. CASE ReturnFrom(t, "read", "READ_ERROR", <<>>)
        BY <2>0, <2>1, ReturnKeeps
    <2>2. CASE /\ value # NoValue /\ Len(value.data) <= data_size[t]
               /\ ReturnFrom(t, "read", "NONE", up_to_null(Padded(value.data, data_size[t])))
        <3> DEFINE text == up_to_null(Padded(value.data, data_size[t]))
        <3>1. value \in Values /\ value.data \in Seq(Characters) /\ data_size[t] \in Nat
            BY <1>0, <2>2, ValueIsAString DEF RegistryTypeOK
        <3>2. text \in Seq(Characters) /\ IsCString(text, value.data)
            BY <2>2, <3>1, PaddedIsCString
        <3>3. read_pc[t] = "read"
            BY <2>2 DEF ReturnFrom, ReadGoto
        <3>4. /\ \E v \in seen[t] \ {NoValue} : IsCString(text, v.data)
              /\ \E v \in seen[t] \ {NoValue} : v.type = "REG_SZ"
            BY <1>0, <2>2, <3>2, <3>3 DEF SeenIsCurrent
        <3> HIDE DEF text
        <3>5. ReturnFrom(t, "read", "NONE", text)
            BY <2>2 DEF text
        <3> QED BY <2>0, <3>2, <3>4, <3>5, ReturnKeeps
    <2> QED BY <1>5, <2>1, <2>2 DEF ReadData, Padded
<1>6. CASE UNCHANGED registry_vars
    BY <1>0, <1>6 DEF registry_vars, ReaderInv, RegistryTypeOK, SeenIsCurrent, TextIsOfOneValue,
                      ReturnsAreClean, KeysAreClosed, ErrorIsOwn
<1> QED BY <1>1, <1>2, <1>3, <1>4, <1>5, <1>6 DEF RegistryNext

-----------------------------------------------------------------------------
LEMMA ReaderInvHolds == RegistrySpec => []ReaderInv
<1> QED BY ReaderInit, ReaderStep, PTL DEF RegistrySpec

(***************************************************************************)
(* read_registry_value_string keeps its types: an error comes with no      *)
(* text, and no text holds a NUL.                                          *)
(***************************************************************************)
THEOREM RegistryTypeCorrect == RegistrySpec => []RegistryTypeOK
<1>1. ReaderInv => RegistryTypeOK
    BY DEF ReaderInv
<1> QED BY <1>1, ReaderInvHolds, PTL

(***************************************************************************)
(* Whatever other processes do to the value between its two queries, the   *)
(* text returned is the C string of one value the key held meanwhile.      *)
(***************************************************************************)
THEOREM TextsAreWhole == RegistrySpec => []TextIsOfOneValue
<1>1. ReaderInv => TextIsOfOneValue
    BY DEF ReaderInv
<1> QED BY <1>1, ReaderInvHolds, PTL

(***************************************************************************)
(* Each of the five returns of read_registry_value_string closes the key   *)
(* if it was opened and leaves its own error.                              *)
(***************************************************************************)
THEOREM ReturnsHold == RegistrySpec => []ReturnsAreClean
<1>1. ReaderInv => ReturnsAreClean
    BY DEF ReaderInv
<1> QED BY <1>1, ReaderInvHolds, PTL

-----------------------------------------------------------------------------
(***************************************************************************)
(* ExternalProcess, for every set of ids and names: only searches that     *)
(* found nothing leak, and no list is loaded without a process.  It needs  *)
(* that an object which is gone has left no id behind.                     *)
(***************************************************************************)

(* An id is held by an object, and every search that found nothing counts. *)
IdInv ==
    /\ entries \in Int /\ lost \in Nat
    /\ process_info \in Ids \cup {None}
    /\ process_info # None => object

ProcessInv == OnlyFailedSearchesLeak /\ IdInv


LEMMA ProcessInvInit == ProcessInit => ProcessInv
BY DEF ProcessInit, ProcessInv, OnlyFailedSearchesLeak, IdInv

(* The steps that neither make an object nor delete one.                   *)
LEMMA Unmoved ==
    ASSUME ProcessInv, UNCHANGED <<object, process_info, find_vars>>, wild' # "load",
           wild' = "handle" => object /\ process_info = None
    PROVE  ProcessInv'
BY DEF ProcessInv, OnlyFailedSearchesLeak, IdInv, find_vars

LEMMA SystemStep ==
    ASSUME ProcessInv, System
    PROVE  ProcessInv'
<1>1. UNCHANGED <<object, process_info, find_vars, wild>>
    BY DEF System, StartProcess, EndProcess, StartThread, EndThread, object_vars
<1>2. wild # "load" /\ (wild = "handle" => object /\ process_info = None)
    BY DEF ProcessInv, OnlyFailedSearchesLeak
<1> QED BY <1>1, <1>2, Unmoved

(* A search that finds its process keeps its entry, every other leaks it.  *)
LEMMA FindStep ==
    ASSUME ProcessInv, NEW matches \in SUBSET Ids, Find(matches)
    PROVE  ProcessInv'
<1>1. /\ ~ object /\ object' = TRUE /\ entries' = entries + 1 /\ wild' = "no"
      /\ entries = lost /\ entries \in Int /\ lost \in Nat /\ wild # "load"
    BY DEF Find, Operate, ProcessInv, OnlyFailedSearchesLeak, IdInv
<1>2. CASE process_info' # None
    <2>1. process_info' \in Ids /\ lost' = lost
        BY <1>2 DEF Find
    <2> QED BY <1>1, <1>2, <2>1 DEF ProcessInv, OnlyFailedSearchesLeak, IdInv
<1>3. CASE process_info' = None
    <2>1. lost' = lost + 1
        BY <1>3, ProcessAssumption DEF Find
    <2> QED BY <1>1, <1>3, <2>1 DEF ProcessInv, OnlyFailedSearchesLeak, IdInv
<1> QED BY <1>2, <1>3

(* The destructor deletes what the object holds.                           *)
LEMMA DeleteStep ==
    ASSUME ProcessInv, Delete
    PROVE  ProcessInv'
<1>1. /\ entries' = IF process_info = None THEN entries ELSE entries - 1
      /\ object /\ object' = FALSE /\ process_info' = None /\ lost' = lost /\ wild' = "no"
    BY DEF Delete, Operate, entries_after_delete
<1> QED BY <1>1 DEF ProcessInv, OnlyFailedSearchesLeak, IdInv

(* The loads are refused without a process.                                *)
LEMMA LoadStep ==
    ASSUME ProcessInv,
           LoadModules \/ LoadThreads \/ QueryLength \/ QueryThreads \/ GetProcessHandle
    PROVE  ProcessInv'
<1>1. UNCHANGED <<object, process_info, find_vars>>
    BY DEF LoadModules, LoadThreads, QueryLength, QueryThreads, GetProcessHandle, object_vars
<1>2. wild' # "load" /\ (wild' = "handle" => object /\ process_info = None)
    <2>1. wild # "load" /\ (wild = "handle" => object /\ process_info = None)
        BY DEF ProcessInv, OnlyFailedSearchesLeak
    <2>2. CASE LoadModules
        BY <2>2 DEF LoadModules, MayLoad
    <2>3. CASE LoadThreads
        BY <2>3 DEF LoadThreads, MayLoad
    <2>4. CASE QueryLength
        BY <2>4 DEF QueryLength, MayLoad
    <2>5. CASE QueryThreads
        BY <2>1, <2>5 DEF QueryThreads
    <2>6. CASE GetProcessHandle
        BY <2>6 DEF GetProcessHandle
    <2> QED BY <2>2, <2>3, <2>4, <2>5, <2>6
<1> QED BY <1>1, <1>2, Unmoved

LEMMA ProcessInvStep == ProcessInv /\ [ProcessNext]_process_vars => ProcessInv'
<1> SUFFICES ASSUME ProcessInv, [ProcessNext]_process_vars PROVE ProcessInv'
    OBVIOUS
<1>1. CASE System
    BY <1>1, SystemStep
<1>2. ASSUME NEW id \in Ids, FindById(id) PROVE ProcessInv'
    BY <1>2, FindStep DEF FindById
<1>3. ASSUME NEW name \in Names, FindByName(name) PROVE ProcessInv'
    BY <1>3, FindStep DEF FindByName
<1>4. CASE Delete
    BY <1>4, DeleteStep
<1>5. CASE LoadModules \/ LoadThreads \/ QueryLength \/ QueryThreads \/ GetProcessHandle
    BY <1>5, LoadStep
<1>6. CASE UNCHANGED process_vars
    <2>1. UNCHANGED <<object, process_info, find_vars>> /\ wild' = wild
        BY <1>6 DEF process_vars, object_vars
    <2>2. wild # "load" /\ (wild = "handle" => object /\ process_info = None)
        BY DEF ProcessInv, OnlyFailedSearchesLeak
    <2> QED BY <2>1, <2>2, Unmoved
<1> QED BY <1>1, <1>2, <1>3, <1>4, <1>5, <1>6 DEF ProcessNext, Object

-----------------------------------------------------------------------------
(* However many searches and objects there are: every entry that no object *)
(* holds is that of a search which found nothing, no list is loaded        *)
(* through a null pointer, and get_process_handle reads one only if the    *)
(* search of its object has found nothing.                                 *)
THEOREM OnlyFailuresLeak == ProcessSpec => []OnlyFailedSearchesLeak
BY ProcessInvInit, ProcessInvStep, PTL DEF ProcessSpec, ProcessInv

-----------------------------------------------------------------------------
(* Every variable of the process has its type; the processes and their     *)
(* threads are numbered in step, and every search that found nothing was   *)
(* an operation.                                                           *)
ProcessTypeInv ==
    /\ ProcessTypeOK
    /\ name_of \in Seq(Names) /\ threads \in Seq(SUBSET Nat) /\ spawned \in Seq(Nat)
    /\ Len(threads) = Len(name_of) /\ Len(spawned) = Len(name_of)
    /\ lost <= operations

LEMMA ProcessTypeInit == ProcessInit => ProcessTypeInv
<1> SUFFICES ASSUME ProcessInit PROVE ProcessTypeInv
    OBVIOUS
<1>1. /\ name_of = <<>> /\ threads = <<>> /\ spawned = <<>>
      /\ Len(name_of) = 0 /\ DOMAIN threads = {} /\ DOMAIN spawned = {} /\ DOMAIN name_of = {}
    BY DEF ProcessInit
<1>2. name_of \in Seq(Names) /\ threads \in Seq(SUBSET Nat) /\ spawned \in Seq(Nat)
    BY <1>1, EmptySeq
<1>3. /\ Len(name_of) <= MaxProcesses /\ running \in [Ids -> 0..Len(name_of)]
      /\ 0 \in 0..MaxOperations /\ 0 \in 0..Len(name_of)
    BY <1>1, ProcessAssumption DEF ProcessInit, None
<1>4. /\ buffer_len \in Int /\ buffer_len >= -1 /\ operations \in 0..MaxOperations
      /\ lost \in 0..MaxOperations /\ found \in 0..Len(name_of)
    BY <1>3 DEF ProcessInit, None
<1>5. /\ object \in BOOLEAN /\ process_info \in Ids \cup {None}
      /\ reused \in BOOLEAN /\ appended \in BOOLEAN /\ unwritten \in BOOLEAN
      /\ wild \in {"no", "load", "buffer", "handle"}
    BY DEF ProcessInit
<1>6. lost <= operations
    BY DEF ProcessInit
<1>7. ProcessTypeOK
    BY <1>1, <1>3, <1>4, <1>5 DEF ProcessTypeOK
<1> QED BY <1>1, <1>2, <1>6, <1>7 DEF ProcessTypeInv

(* The threads that run are finitely many, and the list that is made of    *)
(* those of one process names each of them once.                           *)
LEMMA ThreadsAreFinite ==
    ASSUME ProcessTypeInv
    PROVE  IsFiniteSet(AllThreads) /\ Cardinality(AllThreads) \in Nat
<1>1. Len(name_of) \in Nat /\ DOMAIN threads = 1..Len(name_of)
    BY DEF ProcessTypeInv
<1>2. AllThreads \subseteq (1..Len(name_of)) \X (1..MaxThreads)
    <2> SUFFICES ASSUME NEW th \in AllThreads PROVE th \in (1..Len(name_of)) \X (1..MaxThreads)
        OBVIOUS
    <2>1. PICK p \in DOMAIN threads : th \in {p} \X threads[p]
        BY DEF AllThreads
    <2>2. threads[p] \subseteq 1..spawned[p] /\ spawned[p] <= MaxThreads /\ spawned[p] \in Nat
        BY <1>1, ElementOfSeq DEF ProcessTypeInv, ProcessTypeOK
    <2>3. threads[p] \subseteq 1..MaxThreads
        BY <2>2, ProcessAssumption
    <2> QED BY <1>1, <2>1, <2>3
<1>3. IsFiniteSet(1..Len(name_of)) /\ IsFiniteSet(1..MaxThreads)
    BY <1>1, ProcessAssumption, FS_Interval
<1>4. IsFiniteSet((1..Len(name_of)) \X (1..MaxThreads))
    BY <1>3, FS_Product
<1>5. IsFiniteSet(AllThreads)
    BY <1>2, <1>4, FS_Subset
<1> QED BY <1>5, FS_CardinalityType

LEMMA OwnedIsOfOne ==
    ASSUME ProcessTypeInv
    PROVE  /\ owned \in Seq(AllThreads)
           /\ \A i \in DOMAIN owned : owned[i][1] = running[Id] /\ running[Id] # None
           /\ \A i, j \in DOMAIN owned : owned[i] = owned[j] => i = j
<1> DEFINE S == {th \in AllThreads : th[1] = running[Id]}
<1>1. IsFiniteSet(S)
    BY ThreadsAreFinite, FS_Subset
<1>2. Cardinality(S) \in Nat /\ ExistsBijection(1..Cardinality(S), S)
    BY <1>1, FS_CardinalityType
<1>3. PICK f \in [1..Cardinality(S) -> S] : IsInjective(f)
    BY <1>2 DEF ExistsBijection, Bijection, Injection
<1>4. owned \in [1..Cardinality(S) -> S] /\ IsInjective(owned)
    BY <1>3 DEF owned, SetToSeq
<1>5. \A th \in S : th \in AllThreads /\ th[1] = running[Id] /\ th[1] # None
    <2> SUFFICES ASSUME NEW th \in S PROVE th[1] # None
        OBVIOUS
    <2>1. PICK p \in DOMAIN threads : th \in {p} \X threads[p]
        BY DEF AllThreads
    <2>2. p \in Nat /\ p >= 1
        BY DEF ProcessTypeInv
    <2> QED BY <2>1, <2>2 DEF None
<1> HIDE DEF S
<1> QED BY <1>2, <1>4, <1>5 DEF IsInjective

-----------------------------------------------------------------------------
(* The steps of the system.                                                *)
LEMMA StartProcessKeepsTypes ==
    ASSUME ProcessTypeInv, NEW i \in Ids, NEW name \in Names, StartProcess(i, name)
    PROVE  ProcessTypeInv'
<1> DEFINE n == Len(name_of)
<1>1. /\ n \in Nat /\ n < MaxProcesses /\ Len(threads) = n /\ Len(spawned) = n
      /\ name_of \in Seq(Names) /\ threads \in Seq(SUBSET Nat) /\ spawned \in Seq(Nat)
    BY DEF StartProcess, ProcessTypeInv
<1>2. {1} \in SUBSET Nat /\ 1 \in Nat
    OBVIOUS
<1>3. /\ name_of' \in Seq(Names) /\ Len(name_of') = n + 1
      /\ threads' \in Seq(SUBSET Nat) /\ Len(threads') = n + 1
      /\ spawned' \in Seq(Nat) /\ Len(spawned') = n + 1
      /\ \A p \in 1..n : threads'[p] = threads[p] /\ spawned'[p] = spawned[p]
      /\ threads'[n + 1] = {1} /\ spawned'[n + 1] = 1
    BY <1>1, <1>2, AppendProperties DEF StartProcess
<1>4. DOMAIN threads' = 1..(n + 1) /\ DOMAIN name_of' = 1..(n + 1) /\ DOMAIN spawned' = 1..(n + 1)
    BY <1>1, <1>3
<1>5. \A p \in DOMAIN threads' : threads'[p] \subseteq 1..spawned'[p] /\ spawned'[p] <= MaxThreads
    <2> TAKE p \in DOMAIN threads'
    <2>1. CASE p = n + 1
        BY <1>3, <2>1, ProcessAssumption
    <2>2. CASE p \in 1..n
        <3>1. p \in DOMAIN threads
            BY <1>1, <2>2
        <3> QED BY <1>3, <2>2, <3>1 DEF ProcessTypeInv, ProcessTypeOK
    <2> QED BY <1>1, <1>4, <2>1, <2>2
<1>6. running' \in [Ids -> 0..Len(name_of')] /\ found' \in 0..Len(name_of') /\ Len(name_of') <= MaxProcesses
    <2>1. running \in [Ids -> 0..n] /\ found \in 0..n /\ found' = found
        BY DEF ProcessTypeInv, ProcessTypeOK, StartProcess, find_vars
    <2>2. running' = [running EXCEPT ![i] = n + 1]
        BY DEF StartProcess
    <2>3. 0..n \subseteq 0..(n + 1) /\ n + 1 \in 0..(n + 1)
        BY <1>1
    <2> HIDE DEF n
    <2>4. running' \in [Ids -> 0..(n + 1)] /\ found' \in 0..(n + 1)
        BY <2>1, <2>2, <2>3
    <2> QED BY <1>1, <1>3, <2>4, ProcessAssumption
<1>7. UNCHANGED <<object, process_info, buffer_len, operations, lost, appended, unwritten, wild>>
    BY DEF StartProcess, object_vars, find_vars
<1>8. reused' \in BOOLEAN
    BY DEF StartProcess
<1> HIDE DEF n
<1> QED BY <1>3, <1>4, <1>5, <1>6, <1>7, <1>8 DEF ProcessTypeInv, ProcessTypeOK

(* A thread set that grows with its number, or shrinks.                    *)
LEMMA ThreadsMove ==
    ASSUME ProcessTypeInv, NEW p \in DOMAIN threads, NEW set, NEW number \in Nat,
           set \subseteq 1..number, number <= MaxThreads,
           threads' = [threads EXCEPT ![p] = set],
           spawned' = [spawned EXCEPT ![p] = number],
           running' \in [Ids -> 0..Len(name_of)],
           UNCHANGED <<name_of, object_vars, buffer_len, operations, find_vars, reused, appended, unwritten, wild>>
    PROVE  ProcessTypeInv'
<1> DEFINE n == Len(name_of)
<1>1. /\ n \in Nat /\ Len(threads) = n /\ Len(spawned) = n /\ p \in 1..n
      /\ name_of \in Seq(Names) /\ threads \in Seq(SUBSET Nat) /\ spawned \in Seq(Nat)
    BY DEF ProcessTypeInv
<1>2. set \in SUBSET Nat
    OBVIOUS
<1>3. /\ threads' \in Seq(SUBSET Nat) /\ Len(threads') = n
      /\ spawned' \in Seq(Nat) /\ Len(spawned') = n
    BY <1>1, <1>2, ExceptSeq
<1>4. DOMAIN threads' = DOMAIN name_of' /\ DOMAIN spawned' = DOMAIN name_of'
    BY DEF ProcessTypeInv, ProcessTypeOK
<1>5. \A q \in DOMAIN threads' : threads'[q] \subseteq 1..spawned'[q] /\ spawned'[q] <= MaxThreads
    <2> TAKE q \in DOMAIN threads'
    <2>1. q \in DOMAIN threads /\ q \in DOMAIN spawned /\ p \in DOMAIN spawned
        BY DEF ProcessTypeInv, ProcessTypeOK
    <2>2. threads[q] \subseteq 1..spawned[q] /\ spawned[q] <= MaxThreads
        BY <2>1 DEF ProcessTypeInv, ProcessTypeOK
    <2>3. CASE q = p
        BY <2>1, <2>3
    <2>4. CASE q # p
        BY <2>1, <2>2, <2>4
    <2> QED BY <2>3, <2>4
<1>6. UNCHANGED <<name_of, object, process_info, buffer_len, operations, lost, found, reused, appended, unwritten, wild>>
    BY DEF object_vars, find_vars
<1> HIDE DEF n
<1>7. ProcessTypeOK'
    BY <1>4, <1>5, <1>6 DEF ProcessTypeInv, ProcessTypeOK
<1> QED BY <1>1, <1>3, <1>6, <1>7 DEF ProcessTypeInv, n

LEMMA SystemKeepsTypes ==
    ASSUME ProcessTypeInv, System
    PROVE  ProcessTypeInv'
<1>1. PICK i \in Ids : \/ \E name \in Names : StartProcess(i, name)
                       \/ EndProcess(i) \/ StartThread(i)
                       \/ \E k \in 1..MaxThreads : EndThread(i, k)
    BY DEF System
<1>2. CASE \E name \in Names : StartProcess(i, name)
    BY <1>2, StartProcessKeepsTypes
<1> DEFINE p == running[i]
<1>3. running \in [Ids -> 0..Len(name_of)] /\ Len(name_of) \in Nat /\ DOMAIN threads = 1..Len(name_of)
    BY DEF ProcessTypeInv, ProcessTypeOK
<1>4. ASSUME p # None
      PROVE  /\ p \in DOMAIN threads /\ p \in DOMAIN spawned
             /\ threads[p] \subseteq 1..spawned[p] /\ spawned[p] <= MaxThreads /\ spawned[p] \in Nat
    <2>1. p \in DOMAIN threads /\ p \in DOMAIN spawned
        BY <1>3, <1>4 DEF None, ProcessTypeInv, ProcessTypeOK
    <2> QED BY <2>1 DEF ProcessTypeInv, ProcessTypeOK
<1>5. ASSUME spawned' = spawned, p # None PROVE spawned' = [spawned EXCEPT ![p] = spawned[p]]
    BY <1>4, <1>5 DEF ProcessTypeInv
<1>6. CASE EndProcess(i)
    <2>1. p # None /\ spawned' = spawned /\ threads' = [threads EXCEPT ![p] = {}]
        BY <1>6 DEF EndProcess
    <2>2. running' \in [Ids -> 0..Len(name_of)]
        BY <1>3, <1>6 DEF EndProcess, None
    <2>3. {} \subseteq 1..spawned[p]
        OBVIOUS
    <2>4. UNCHANGED <<name_of, object_vars, buffer_len, operations, find_vars, reused, appended, unwritten, wild>>
        BY <1>6 DEF EndProcess
    <2> HIDE DEF p
    <2> QED BY <1>4, <1>5, <2>1, <2>2, <2>3, <2>4, ThreadsMove
<1>7. CASE StartThread(i)
    <2>1. /\ p # None /\ spawned[p] < MaxThreads
          /\ spawned' = [spawned EXCEPT ![p] = spawned[p] + 1]
          /\ threads' = [threads EXCEPT ![p] = threads[p] \cup {spawned[p] + 1}]
          /\ running' \in [Ids -> 0..Len(name_of)]
        BY <1>3, <1>7 DEF StartThread
    <2>2. /\ spawned[p] + 1 \in Nat /\ spawned[p] + 1 <= MaxThreads
          /\ threads[p] \cup {spawned[p] + 1} \subseteq 1..(spawned[p] + 1)
        BY <1>4, <2>1, ProcessAssumption
    <2>3. UNCHANGED <<name_of, object_vars, buffer_len, operations, find_vars, reused, appended, unwritten, wild>>
        BY <1>7 DEF StartThread
    <2> HIDE DEF p
    <2> QED BY <1>4, <2>1, <2>2, <2>3, ThreadsMove
<1>8. ASSUME NEW k \in 1..MaxThreads, EndThread(i, k) PROVE ProcessTypeInv'
    <2>1. /\ p # None /\ spawned' = spawned
          /\ threads' = [threads EXCEPT ![p] = threads[p] \ {k}]
          /\ running' \in [Ids -> 0..Len(name_of)]
        BY <1>3, <1>8 DEF EndThread
    <2>2. threads[p] \ {k} \subseteq 1..spawned[p]
        BY <1>4, <2>1
    <2>3. UNCHANGED <<name_of, object_vars, buffer_len, operations, find_vars, reused, appended, unwritten, wild>>
        BY <1>8 DEF EndThread
    <2> HIDE DEF p
    <2> QED BY <1>4, <1>5, <2>1, <2>2, <2>3, ThreadsMove
<1> QED BY <1>1, <1>2, <1>6, <1>7, <1>8

-----------------------------------------------------------------------------
(* The steps of the object leave the system alone.                         *)
LEMMA ObjectKeepsTypes ==
    ASSUME ProcessTypeInv, UNCHANGED system_vars,
           object' \in BOOLEAN, process_info' \in Ids \cup {None},
           buffer_len' \in Int, buffer_len' >= -1,
           operations' \in 0..MaxOperations, lost' \in Nat, lost' <= operations',
           found' \in 0..Len(name_of),
           reused' \in BOOLEAN, appended' \in BOOLEAN, unwritten' \in BOOLEAN,
           wild' \in {"no", "load", "buffer", "handle"}
    PROVE  ProcessTypeInv'
<1>1. UNCHANGED <<running, name_of, threads, spawned>>
    BY DEF system_vars
<1>2. lost' \in 0..MaxOperations
    BY ProcessAssumption
<1> QED BY <1>1, <1>2 DEF ProcessTypeInv, ProcessTypeOK

LEMMA FindKeepsTypes ==
    ASSUME ProcessTypeInv, NEW matches \in SUBSET Ids, Find(matches)
    PROVE  ProcessTypeInv'
<1>1. /\ UNCHANGED system_vars /\ object' = TRUE /\ buffer_len' = buffer_len /\ wild' = wild
      /\ reused' = FALSE /\ appended' = FALSE /\ unwritten' = FALSE
      /\ operations < MaxOperations /\ operations' = operations + 1
    BY DEF Find, Operate
<1>2. process_info' \in Ids \cup {None} /\ found' \in 0..Len(name_of)
    <2>1. running \in [Ids -> 0..Len(name_of)] /\ Len(name_of) \in Nat
        BY DEF ProcessTypeInv, ProcessTypeOK
    <2> QED BY <2>1 DEF Find, None
<1>3. lost' = lost \/ lost' = lost + 1
    BY DEF Find
<1>4. /\ operations \in 0..MaxOperations /\ lost \in 0..MaxOperations /\ lost <= operations
      /\ buffer_len \in Int /\ buffer_len >= -1 /\ wild \in {"no", "load", "buffer", "handle"}
    BY DEF ProcessTypeInv, ProcessTypeOK
<1>5. operations' \in 0..MaxOperations /\ lost' \in Nat /\ lost' <= operations'
    BY <1>1, <1>3, <1>4, ProcessAssumption
<1> QED BY <1>1, <1>2, <1>4, <1>5, ObjectKeepsTypes

(* The steps of an object that is there.                                   *)
LEMMA UseKeepsTypes ==
    ASSUME ProcessTypeInv,
           Delete \/ LoadModules \/ LoadThreads \/ QueryLength \/ QueryThreads \/ GetProcessHandle
    PROVE  ProcessTypeInv'
<1>1. /\ operations \in 0..MaxOperations /\ lost \in 0..MaxOperations /\ lost <= operations
      /\ buffer_len \in Int /\ buffer_len >= -1 /\ found \in 0..Len(name_of)
      /\ process_info \in Ids \cup {None} /\ Len(name_of) \in Nat
    BY DEF ProcessTypeInv, ProcessTypeOK
<1>2. /\ object \in BOOLEAN /\ reused \in BOOLEAN /\ appended \in BOOLEAN /\ unwritten \in BOOLEAN
      /\ wild \in {"no", "load", "buffer", "handle"}
    BY DEF ProcessTypeInv, ProcessTypeOK
<1>3. UNCHANGED system_vars /\ lost' = lost
    BY DEF Delete, LoadModules, LoadThreads, QueryLength, QueryThreads, GetProcessHandle, find_vars
<1>4. /\ object' \in BOOLEAN /\ reused' \in BOOLEAN
      /\ process_info' \in Ids \cup {None}
      /\ wild' \in {"no", "load", "buffer", "handle"}
    BY <1>1, <1>2 DEF Delete, LoadModules, LoadThreads, QueryLength, QueryThreads, GetProcessHandle,
                     object_vars
<1>5. appended' \in BOOLEAN /\ unwritten' \in BOOLEAN
    BY <1>2 DEF Delete, LoadModules, LoadThreads, QueryLength, QueryThreads, GetProcessHandle
<1>6. found' \in 0..Len(name_of)
    BY <1>1 DEF Delete, LoadModules, LoadThreads, QueryLength, QueryThreads, GetProcessHandle,
                find_vars, None
<1>7. \/ operations' = operations
      \/ operations < MaxOperations /\ operations' = operations + 1
    BY DEF Delete, LoadModules, LoadThreads, QueryLength, QueryThreads, GetProcessHandle, Operate
<1>8. operations' \in 0..MaxOperations /\ lost' \in Nat /\ lost' <= operations'
    BY <1>1, <1>3, <1>7, ProcessAssumption
<1>9. buffer_len' \in Int /\ buffer_len' >= -1
    <2>1. \/ buffer_len' = buffer_len \/ buffer_len' = -1
          \/ buffer_len' = Cardinality(AllThreads)
        BY DEF Delete, LoadModules, LoadThreads, QueryLength, QueryThreads, GetProcessHandle
    <2> QED BY <1>1, <2>1, ThreadsAreFinite
<1> QED BY <1>3, <1>4, <1>5, <1>6, <1>8, <1>9, ObjectKeepsTypes

LEMMA ProcessTypeStep == ProcessTypeInv /\ [ProcessNext]_process_vars => ProcessTypeInv'
<1> SUFFICES ASSUME ProcessTypeInv, [ProcessNext]_process_vars PROVE ProcessTypeInv'
    OBVIOUS
<1>1. CASE System
    BY <1>1, SystemKeepsTypes
<1>2. ASSUME NEW id \in Ids, FindById(id) PROVE ProcessTypeInv'
    BY <1>2, FindKeepsTypes DEF FindById
<1>3. ASSUME NEW name \in Names, FindByName(name) PROVE ProcessTypeInv'
    BY <1>3, FindKeepsTypes DEF FindByName
<1>4. CASE Delete \/ LoadModules \/ LoadThreads \/ QueryLength \/ QueryThreads \/ GetProcessHandle
    BY <1>4, UseKeepsTypes
<1>5. CASE UNCHANGED process_vars
    BY <1>5 DEF process_vars, system_vars, object_vars, find_vars, ProcessTypeInv, ProcessTypeOK
<1> QED BY <1>1, <1>2, <1>3, <1>4, <1>5 DEF ProcessNext, Object

(* Whatever processes and threads come and go, and whatever is asked of an *)
(* object: every variable of the process model has its type.               *)
THEOREM ProcessTypeCorrect == ProcessSpec => []ProcessTypeOK
<1>1. ProcessTypeInv => ProcessTypeOK
    BY DEF ProcessTypeInv
<1> QED BY <1>1, ProcessTypeInit, ProcessTypeStep, PTL DEF ProcessSpec

-----------------------------------------------------------------------------
(* A list is that of the process whose id is kept, and its elements are    *)
(* there; nothing is listed, and no answer awaited, without an id.  The id *)
(* is of the process found, of no process, or of another by now.           *)
ListsInv ==
    /\ ListsAreOfTheProcess
    /\ module_list \in Seq(Nat) /\ thread_list \in Seq(Nat \X Nat)
    /\ process_info = None => module_list = <<>> /\ thread_list = <<>> /\ buffer_len = -1
    /\ ~ object => process_info = None
    /\ ~ reused /\ process_info # None => running[process_info] \in {None, found}

LEMMA ListsInit == ProcessInit => ListsInv
<1> SUFFICES ASSUME ProcessInit PROVE ListsInv
    OBVIOUS
<1>1. /\ module_list = <<>> /\ thread_list = <<>> /\ process_info = None /\ ~ object
      /\ buffer_len = -1
    BY DEF ProcessInit
<1>2. module_list \in Seq(Nat) /\ thread_list \in Seq(Nat \X Nat)
    BY <1>1, EmptySeq
<1>3. DOMAIN module_list = {} /\ DOMAIN thread_list = {}
    BY <1>1
<1> QED BY <1>1, <1>2, <1>3 DEF ListsInv, ListsAreOfTheProcess

(* While the lists and the object stay as they are, a process may end; one *)
(* that takes its id marks the id as reused.                               *)
LEMMA SystemKeepsLists ==
    ASSUME ProcessTypeInv, ListsInv, System
    PROVE  ListsInv'
<1>1. UNCHANGED <<object, process_info, module_list, thread_list, buffer_len, found, appended, unwritten>>
    BY DEF System, StartProcess, EndProcess, StartThread, EndThread, object_vars, find_vars
<1>2. reused => reused'
    BY DEF System, StartProcess, EndProcess, StartThread, EndThread
<1>3. ASSUME ~ reused', process_info' # None
      PROVE  running'[process_info'] \in {None, found'}
    <2>1. process_info \in Ids /\ process_info # None /\ object /\ ~ reused
        BY <1>1, <1>2, <1>3 DEF ProcessTypeInv, ProcessTypeOK, ListsInv
    <2>2. running[process_info] \in {None, found} /\ running \in [Ids -> 0..Len(name_of)]
        BY <2>1 DEF ListsInv, ProcessTypeInv, ProcessTypeOK
    <2>3. \/ running'[process_info] = running[process_info]
          \/ running'[process_info] = None
        <3>1. PICK i \in Ids : \/ \E name \in Names : StartProcess(i, name)
                               \/ EndProcess(i) \/ StartThread(i)
                               \/ \E k \in 1..MaxThreads : EndThread(i, k)
            BY DEF System
        <3>2. ASSUME NEW name \in Names, StartProcess(i, name)
              PROVE  running'[process_info] = running[process_info]
            <4>1. i # process_info /\ running' = [running EXCEPT ![i] = Len(name_of) + 1]
                BY <1>3, <2>1, <3>2 DEF StartProcess
            <4> QED BY <2>1, <2>2, <4>1
        <3>3. CASE EndProcess(i)
            BY <2>1, <2>2, <3>3 DEF EndProcess
        <3>4. CASE StartThread(i) \/ \E k \in 1..MaxThreads : EndThread(i, k)
            BY <3>4 DEF StartThread, EndThread
        <3> QED BY <3>1, <3>2, <3>3, <3>4
    <2> QED BY <1>1, <2>2, <2>3
<1>4. ListsAreOfTheProcess'
    BY <1>1, <1>2 DEF ListsInv, ListsAreOfTheProcess
<1> QED BY <1>1, <1>3, <1>4 DEF ListsInv

LEMMA FindKeepsLists ==
    ASSUME ProcessTypeInv, ListsInv, NEW matches \in SUBSET Ids, Find(matches)
    PROVE  ListsInv'
<1>1. /\ module_list' = <<>> /\ thread_list' = <<>> /\ object' /\ running' = running
      /\ ~ reused' /\ ~ appended' /\ ~ unwritten' /\ buffer_len' = -1
    BY DEF Find, Operate, system_vars
<1>2. module_list' \in Seq(Nat) /\ thread_list' \in Seq(Nat \X Nat)
    BY <1>1, EmptySeq
<1>3. DOMAIN module_list' = {} /\ DOMAIN thread_list' = {}
    BY <1>1
<1>4. process_info' # None => running'[process_info'] = found'
    BY <1>1 DEF Find
<1>5. ListsAreOfTheProcess'
    BY <1>3 DEF ListsAreOfTheProcess
<1> QED BY <1>1, <1>2, <1>4, <1>5 DEF ListsInv

(* A list that is loaded is that of the process found, or of one that has  *)
(* been given its id.                                                      *)
LEMMA LoadsAreOfTheProcess ==
    ASSUME ProcessTypeInv, ListsInv, process_info # None
    PROVE  /\ Id = process_info /\ running[Id] \in Nat
           /\ running[Id] # None /\ ~ reused => running[Id] = found
           /\ owned \in Seq(Nat \X Nat) /\ DOMAIN owned = 1..Len(owned)
           /\ ~ reused => \A i \in DOMAIN owned : owned[i][1] = found
           /\ \A i, j \in DOMAIN owned : owned[i] = owned[j] => i = j
<1>1. Id = process_info /\ process_info \in Ids /\ running[Id] \in 0..Len(name_of)
    BY DEF Id, ProcessTypeInv, ProcessTypeOK
<1>2. running[Id] # None /\ ~ reused => running[Id] = found
    BY <1>1 DEF ListsInv
<1>3. AllThreads \subseteq Nat \X Nat
    <2> SUFFICES ASSUME NEW th \in AllThreads PROVE th \in Nat \X Nat
        OBVIOUS
    <2>1. PICK p \in DOMAIN threads : th \in {p} \X threads[p]
        BY DEF AllThreads
    <2>2. p \in Nat /\ threads[p] \subseteq Nat
        BY ElementOfSeq DEF ProcessTypeInv
    <2> QED BY <2>1, <2>2
<1>4. owned \in Seq(Nat \X Nat) /\ DOMAIN owned = 1..Len(owned)
    BY <1>3, OwnedIsOfOne
<1>5. ~ reused => \A i \in DOMAIN owned : owned[i][1] = found
    BY <1>2, OwnedIsOfOne
<1>6. running[Id] \in Nat
    BY <1>1
<1> QED BY <1>1, <1>2, <1>4, <1>5, <1>6, OwnedIsOfOne

LEMMA LoadModulesKeepsLists ==
    ASSUME ProcessTypeInv, ListsInv, LoadModules
    PROVE  ListsInv'
<1>1. /\ process_info # None /\ buffer_len' = buffer_len
      /\ UNCHANGED <<running, object, process_info, thread_list, found, reused, appended, unwritten>>
    BY DEF LoadModules, MayLoad, system_vars, find_vars
<1>2. CASE module_list' = module_list
    <2>1. ListsAreOfTheProcess'
        BY <1>1, <1>2 DEF ListsInv, ListsAreOfTheProcess
    <2> QED BY <1>1, <1>2, <2>1 DEF ListsInv
<1>3. CASE module_list' # module_list
    <2>1. running[Id] # None /\ module_list' \in {<<>>, <<listed(Id)>>}
        BY <1>3 DEF LoadModules
    <2>2. /\ Id = process_info /\ running[Id] \in Nat /\ (~ reused => running[Id] = found)
        BY <1>1, <2>1, LoadsAreOfTheProcess
    <2>3. listed(Id) \in Nat /\ (Id # IdleId => listed(Id) = running[Id])
        BY <2>2, ProcessAssumption DEF listed, Caller
    <2>4. module_list' \in Seq(Nat)
        <3>1. \A p \in Nat : <<p>> \in Seq(Nat)
            OBVIOUS
        <3> QED BY <2>1, <2>3, <3>1, EmptySeq
    <2>6. \A i \in DOMAIN module_list' : module_list'[i] = listed(Id)
        BY <2>1
    <2>5. ListsAreOfTheProcess'
        BY <1>1, <2>2, <2>3, <2>6 DEF ListsInv, ListsAreOfTheProcess
    <2> QED BY <1>1, <2>4, <2>5 DEF ListsInv
<1> QED BY <1>2, <1>3

LEMMA LoadThreadsKeepsLists ==
    ASSUME ProcessTypeInv, ListsInv, LoadThreads
    PROVE  ListsInv'
<1>1. /\ process_info # None /\ buffer_len' = buffer_len
      /\ UNCHANGED <<running, object, process_info, module_list, found, reused>>
    BY DEF LoadThreads, MayLoad, system_vars, find_vars
<1>2. CASE UNCHANGED <<thread_list, appended, unwritten>>
    <2>1. ListsAreOfTheProcess'
        BY <1>1, <1>2 DEF ListsInv, ListsAreOfTheProcess
    <2> QED BY <1>1, <1>2, <2>1 DEF ListsInv
<1>3. ASSUME thread_list' = owned \/ thread_list' = <<>> PROVE ListsInv'
    <2>1. thread_list' \in Seq(Nat \X Nat)
        BY <1>1, <1>3, LoadsAreOfTheProcess, EmptySeq
    <2>2. /\ ~ reused => \A i \in DOMAIN thread_list' : thread_list'[i][1] = found
          /\ \A i, j \in DOMAIN thread_list' : thread_list'[i] = thread_list'[j] => i = j
        <3>1. CASE thread_list' = <<>>
            <4>1. DOMAIN thread_list' = {}
                BY <3>1
            <4> QED BY <4>1
        <3>2. CASE thread_list' = owned
            BY <1>1, <3>2, LoadsAreOfTheProcess
        <3> QED BY <1>3, <3>1, <3>2
    <2>3. ~ appended' => \A i, j \in DOMAIN thread_list' : thread_list'[i] = thread_list'[j] => i = j
        BY <2>2
    <2>4. ListsAreOfTheProcess'
        BY <1>1, <2>2, <2>3 DEF ListsInv, ListsAreOfTheProcess
    <2> QED BY <1>1, <2>1, <2>4 DEF ListsInv
<1>4. <<>> \o owned = owned
    BY <1>1, LoadsAreOfTheProcess, ConcatEmptySeq
<1> QED BY <1>2, <1>3, <1>4 DEF LoadThreads, cleared

(* Every element of a list that was added to is an element of either.      *)
LEMMA Appended ==
    ASSUME NEW list \in Seq(Nat \X Nat), NEW more \in Seq(Nat \X Nat)
    PROVE  /\ list \o more \in Seq(Nat \X Nat)
           /\ \A i \in DOMAIN (list \o more) :
                  \/ \E j \in DOMAIN list : (list \o more)[i] = list[j]
                  \/ \E j \in DOMAIN more : (list \o more)[i] = more[j]
<1> DEFINE all == list \o more
<1>1. /\ all \in Seq(Nat \X Nat) /\ Len(all) = Len(list) + Len(more)
      /\ \A i \in 1..(Len(list) + Len(more)) :
             all[i] = IF i <= Len(list) THEN list[i] ELSE more[i - Len(list)]
    BY ConcatProperties
<1>2. /\ Len(list) \in Nat /\ Len(more) \in Nat
      /\ DOMAIN list = 1..Len(list) /\ DOMAIN more = 1..Len(more) /\ DOMAIN all = 1..Len(all)
    BY <1>1
<1> HIDE DEF all
<1>3. ASSUME NEW i \in DOMAIN all
      PROVE  \/ \E j \in DOMAIN list : all[i] = list[j]
             \/ \E j \in DOMAIN more : all[i] = more[j]
    <2>1. i \in 1..(Len(list) + Len(more))
        BY <1>1, <1>2, <1>3
    <2>2. CASE i <= Len(list)
        <3>1. i \in DOMAIN list /\ all[i] = list[i]
            BY <1>1, <1>2, <2>1, <2>2
        <3> QED BY <3>1
    <2>3. CASE ~ i <= Len(list)
        <3>1. i - Len(list) \in DOMAIN more /\ all[i] = more[i - Len(list)]
            BY <1>1, <1>2, <2>1, <2>3
        <3> QED BY <3>1
    <2> QED BY <2>2, <2>3
<1> QED BY <1>1, <1>3 DEF all

LEMMA QueryKeepsLists ==
    ASSUME ProcessTypeInv, ListsInv, QueryLength \/ QueryThreads
    PROVE  ListsInv'
<1>1. /\ process_info # None
      /\ UNCHANGED <<running, object, process_info, module_list, found, reused>>
    BY DEF QueryLength, QueryThreads, MayLoad, system_vars, object_vars, find_vars, ListsInv
<1>2. CASE UNCHANGED <<thread_list, appended, unwritten>>
    <2>1. ListsAreOfTheProcess'
        BY <1>1, <1>2 DEF ListsInv, ListsAreOfTheProcess
    <2> QED BY <1>1, <1>2, <2>1 DEF ListsInv
<1>3. ASSUME thread_list' = thread_list \o owned, appended' = (appended \/ thread_list # <<>>),
             unwritten' = unwritten
      PROVE  ListsInv'
    <2>1. /\ thread_list \in Seq(Nat \X Nat) /\ owned \in Seq(Nat \X Nat)
          /\ DOMAIN owned = 1..Len(owned)
        BY <1>1, LoadsAreOfTheProcess DEF ListsInv
    <2>2. /\ thread_list' \in Seq(Nat \X Nat)
          /\ \A i \in DOMAIN thread_list' : \/ \E j \in DOMAIN thread_list : thread_list'[i] = thread_list[j]
                                            \/ \E j \in DOMAIN owned : thread_list'[i] = owned[j]
        <3>1. /\ thread_list \o owned \in Seq(Nat \X Nat)
              /\ \A i \in DOMAIN (thread_list \o owned) :
                    \/ \E j \in DOMAIN thread_list : (thread_list \o owned)[i] = thread_list[j]
                    \/ \E j \in DOMAIN owned : (thread_list \o owned)[i] = owned[j]
            BY Zenon, <2>1, Appended
        <3> QED BY Zenon, <1>3, <3>1
    <2>3. ~ reused /\ ~ unwritten => \A i \in DOMAIN thread_list' : thread_list'[i][1] = found
        <3> HAVE ~ reused /\ ~ unwritten
        <3>1. \A j \in DOMAIN thread_list : thread_list[j][1] = found
            BY Zenon DEF ListsInv, ListsAreOfTheProcess
        <3>2. \A j \in DOMAIN owned : owned[j][1] = found
            BY <1>1, LoadsAreOfTheProcess
        <3> QED BY Zenon, <2>2, <3>1, <3>2
    <2>4. ~ appended' => \A i, j \in DOMAIN thread_list' : thread_list'[i] = thread_list'[j] => i = j
        <3> SUFFICES ASSUME ~ appended'
                     PROVE  \A i, j \in DOMAIN thread_list' : thread_list'[i] = thread_list'[j] => i = j
            OBVIOUS
        <3>1. thread_list = <<>>
            BY <1>3
        <3>2. thread_list' = owned
            BY <1>3, <2>1, <3>1, ConcatEmptySeq
        <3> QED BY <1>1, <3>2, LoadsAreOfTheProcess
    <2>5. ListsAreOfTheProcess'
        BY <1>1, <1>3, <2>3, <2>4 DEF ListsInv, ListsAreOfTheProcess
    <2> QED BY <1>1, <2>2, <2>5 DEF ListsInv
<1>4. ASSUME NEW n \in 0..MaxUnwritten, thread_list' = thread_list \o [k \in 1..n |-> Unwritten],
             unwritten' = (unwritten \/ n > 0), appended' = (appended \/ thread_list # <<>>)
      PROVE  ListsInv'
    <2> DEFINE garbage == [k \in 1..n |-> Unwritten]
    <2>1. n \in Nat /\ Unwritten \in Nat \X Nat
        BY ProcessAssumption DEF Unwritten, None
    <2>2. garbage \in Seq(Nat \X Nat) /\ Len(garbage) = n
        BY <2>1
    <2>3. thread_list \in Seq(Nat \X Nat)
        BY DEF ListsInv
    <2> HIDE DEF garbage
    <2>4. thread_list' \in Seq(Nat \X Nat)
        BY <1>4, <2>2, <2>3 DEF garbage
    <2>5. CASE n > 0
        <3>1. unwritten'
            BY <1>4, <2>5
        <3>2. ListsAreOfTheProcess'
            BY <1>1, <3>1 DEF ListsInv, ListsAreOfTheProcess
        <3> QED BY <1>1, <2>4, <3>2 DEF ListsInv
    <2>6. CASE ~ n > 0
        <3>1. garbage = <<>>
            BY <2>1, <2>2, <2>6, EmptySeq
        <3>2. thread_list' = thread_list /\ (unwritten' <=> unwritten)
            <4>1. thread_list \o garbage = thread_list
                BY <2>3, <3>1, ConcatEmptySeq
            <4>2. thread_list' = thread_list \o garbage
                BY <1>4 DEF garbage
            <4>3. unwritten' <=> unwritten
                BY Zenon, <1>4, <2>6
            <4> QED BY Zenon, <4>1, <4>2, <4>3
        <3>3. ListsAreOfTheProcess'
            BY <1>1, <1>4, <3>2 DEF ListsInv, ListsAreOfTheProcess
        <3> QED BY <1>1, <2>4, <3>3 DEF ListsInv
    <2> QED BY <2>5, <2>6
<1>5. ASSUME UNCHANGED <<thread_list, unwritten>>, appended' = (appended \/ thread_list # <<>>)
      PROVE  ListsInv'
    <2>1. ListsAreOfTheProcess'
        BY <1>1, <1>5 DEF ListsInv, ListsAreOfTheProcess
    <2> QED BY <1>1, <1>5, <2>1 DEF ListsInv
<1>6. CASE QueryLength
    BY <1>2, <1>6 DEF QueryLength, object_vars
<1>7. CASE QueryThreads
    BY <1>3, <1>4, <1>5, <1>7 DEF QueryThreads
<1> QED BY <1>6, <1>7

LEMMA ListsStep == ProcessTypeInv /\ ListsInv /\ [ProcessNext]_process_vars => ListsInv'
<1> SUFFICES ASSUME ProcessTypeInv, ListsInv, [ProcessNext]_process_vars PROVE ListsInv'
    OBVIOUS
<1>1. CASE System
    BY <1>1, SystemKeepsLists
<1>2. ASSUME NEW id \in Ids, FindById(id) PROVE ListsInv'
    BY <1>2, FindKeepsLists DEF FindById
<1>3. ASSUME NEW name \in Names, FindByName(name) PROVE ListsInv'
    BY <1>3, FindKeepsLists DEF FindByName
<1>4. CASE Delete
    <2>1. /\ module_list' = <<>> /\ thread_list' = <<>> /\ process_info' = None /\ buffer_len' = -1
        BY <1>4 DEF Delete, Operate
    <2>2. module_list' \in Seq(Nat) /\ thread_list' \in Seq(Nat \X Nat)
        BY <2>1, EmptySeq
    <2>3. DOMAIN module_list' = {} /\ DOMAIN thread_list' = {}
        BY <2>1
    <2> QED BY <2>1, <2>2, <2>3 DEF ListsInv, ListsAreOfTheProcess
<1>5. CASE LoadModules
    BY <1>5, LoadModulesKeepsLists
<1>6. CASE LoadThreads
    BY <1>6, LoadThreadsKeepsLists
<1>7. CASE QueryLength \/ QueryThreads
    BY <1>7, QueryKeepsLists
<1>8. CASE GetProcessHandle \/ UNCHANGED process_vars
    <2>1. UNCHANGED <<running, object, process_info, module_list, thread_list, found, reused, appended,
                    unwritten>>
        BY <1>8 DEF GetProcessHandle, process_vars, system_vars, object_vars, find_vars
    <2>2. buffer_len' = buffer_len
        BY <1>8 DEF GetProcessHandle, process_vars
    <2> QED BY <2>1, <2>2 DEF ListsInv, ListsAreOfTheProcess
<1> QED BY <1>1, <1>2, <1>3, <1>4, <1>5, <1>6, <1>7, <1>8 DEF ProcessNext, Object

(* However processes end and their ids are given away, and however often   *)
(* the lists are loaded: they are those of the process that was found,     *)
(* until its id is that of another, and no thread is in the list twice     *)
(* unless NtQuerySystemInformation has added to a list that was there;     *)
(* but for the modules of the id 0, and for the threads that were read     *)
(* from a buffer nobody wrote.                                             *)
THEOREM ListsHold == ProcessSpec => []ListsAreOfTheProcess
<1>1. ListsInv => ListsAreOfTheProcess
    BY DEF ListsInv
<1> QED BY <1>1, ProcessTypeInit, ProcessTypeStep, ListsInit, ListsStep, PTL DEF ProcessSpec

-----------------------------------------------------------------------------
(***************************************************************************)
(* The services together: a program that uses one of them does to it what  *)
(* that service alone allows, and nothing to the others.                   *)
(***************************************************************************)
THEOREM ServicesAreTheirOwn ==
    Spec => RequestSpec /\ RegistrySpec /\ ProcessSpec /\ HookSpec
<1>1. Init => RequestInit /\ RegistryInit /\ ProcessInit /\ HookInit
    BY DEF Init
<1>2. [Next]_vars => [RequestNext]_request_vars
    BY DEF Next, vars
<1>3. [Next]_vars => [RegistryNext]_registry_vars
    BY DEF Next, vars
<1>4. [Next]_vars => [ProcessNext]_process_vars
    BY DEF Next, vars
<1>5. [Next]_vars => [HookNext]_hooking_vars
    BY DEF Next, vars
<1> QED BY <1>1, <1>2, <1>3, <1>4, <1>5, PTL DEF Spec, RequestSpec, RegistrySpec, ProcessSpec, HookSpec

(* Every variable of the services has its type.                            *)
THEOREM ServicesTypeCorrect == Spec => []TypeOK
<1>1. RequestTypeOK /\ RegistryTypeOK /\ ProcessTypeOK /\ HookTypeOK => TypeOK
    BY DEF TypeOK
<1> QED BY <1>1, ServicesAreTheirOwn, RequestTypeCorrect, RegistryTypeCorrect, ProcessTypeCorrect,
           HookTypeCorrect, PTL

=============================================================================
