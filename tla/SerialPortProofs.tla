-------------------------- MODULE SerialPortProofs --------------------------
(***************************************************************************)
(* Theorems about SerialPort, for any number of descriptors, bytes and     *)
(* buffer sizes: its types, NothingStale and LeaksOnlyFailures.  What the  *)
(* driver holds is the end of what has arrived, and what read() has        *)
(* returned comes before it.                                               *)
(***************************************************************************)
EXTENDS SerialPort, NaturalsInduction, WellFoundedInduction, SequenceTheorems,
        FiniteSetTheorems, TLAPS

(* The driver holds the last of the bytes that have arrived, in order.     *)
UnreadInv ==
    /\ Len(unread) <= arrived
    /\ \A k \in 1..Len(unread) : unread[k] = arrived - Len(unread) + k

(* What was returned has left the driver.                                  *)
ReturnedInv == \A k \in 1..Len(returned) : returned[k] <= arrived - Len(unread)

PortInv == TypeOK /\ NothingStale /\ LeaksOnlyFailures /\ UnreadInv /\ ReturnedInv

-----------------------------------------------------------------------------
(* A set of natural numbers has a least one; a bounded one has a greatest. *)
LEMMA LeastExists ==
    ASSUME NEW S \in SUBSET Nat, S # {}
    PROVE  \E n \in S : \A k \in S : n <= k
<1>1. \E x \in S : \A y \in S : ~ (<<y, x>> \in OpToRel(<, Nat))
    BY NatLessThanWellFounded, WFMin
<1>2. PICK n \in S : \A y \in S : ~ (<<y, n>> \in OpToRel(<, Nat))
    BY <1>1
<1>3. \A y \in S : ~ (y < n)
    BY <1>2 DEF OpToRel
<1> QED BY <1>3

LEMMA GreatestExists ==
    ASSUME NEW m \in Nat, NEW S \in SUBSET (0..m), S # {}
    PROVE  \E n \in S : \A k \in S : k <= n
<1> DEFINE gaps == {m - n : n \in S}
<1>1. gaps \in SUBSET Nat /\ gaps # {}
    OBVIOUS
<1> HIDE DEF gaps
<1>2. PICK g \in gaps : \A h \in gaps : g <= h
    BY <1>1, LeastExists
<1>3. PICK n \in S : g = m - n
    BY DEF gaps
<1>4. \A k \in S : g <= m - k
    BY <1>2 DEF gaps
<1> QED BY <1>3, <1>4

(* open() returns a descriptor that was free.                              *)
LEMMA LowestIsFree ==
    ASSUME Free # {}
    PROVE  Lowest(Free) \in Free /\ Lowest(Free) \in Fds
<1>1. Free \in SUBSET Nat /\ Free \subseteq Fds
    BY SerialAssumption DEF Free, Fds
<1>2. \E f \in Free : \A g \in Free : f <= g
    BY <1>1, LeastExists
<1> QED BY <1>1, <1>2 DEF Lowest

(* std::string stops at the first '\0', and at the length it is given.     *)
LEMMA TextIsInside ==
    ASSUME NEW S, NEW cells \in Seq(S), NEW bytes \in 0..Len(cells)
    PROVE  \E n \in 0..bytes :
               /\ \A k \in 1..n : ~ IsNul(cells[k])
               /\ text(cells, bytes) = SubSeq(cells, 1, n)
<1> DEFINE inside == {n \in 0..bytes : \A k \in 1..n : ~ IsNul(cells[k])}
           last == CHOOSE n \in inside : \A m \in inside : m <= n
<1>1. bytes \in Nat /\ 0 \in inside /\ inside \in SUBSET (0..bytes)
    OBVIOUS
<1>2. text(cells, bytes) = SubSeq(cells, 1, last)
    BY DEF text
<1>3. \A n \in inside : n \in 0..bytes /\ \A k \in 1..n : ~ IsNul(cells[k])
    OBVIOUS
<1> HIDE DEF inside
<1>4. \E n \in inside : \A m \in inside : m <= n
    BY <1>1, GreatestExists
<1>5. last \in inside
    BY <1>4
<1> HIDE DEF last
<1> QED BY <1>2, <1>3, <1>5

(* A sequence over one set may be one over another.                        *)
LEMMA Retyped ==
    ASSUME NEW S, NEW T, NEW s \in Seq(S), \A k \in 1..Len(s) : s[k] \in T
    PROVE  s \in Seq(T)
<1>1. Len(s) \in Nat /\ s = [k \in 1..Len(s) |-> s[k]]
    OBVIOUS
<1>2. s \in [1..Len(s) -> T]
    BY <1>1
<1> QED BY <1>1, <1>2

(* The first of a sequence and the rest.                                   *)
LEMMA Cut ==
    ASSUME NEW S, NEW s \in Seq(S), NEW n \in 0..Len(s)
    PROVE  /\ SubSeq(s, 1, n) \in Seq(S) /\ Len(SubSeq(s, 1, n)) = n
           /\ \A k \in 1..n : SubSeq(s, 1, n)[k] = s[k]
           /\ SubSeq(s, n + 1, Len(s)) \in Seq(S) /\ Len(SubSeq(s, n + 1, Len(s))) = Len(s) - n
           /\ \A k \in 1..(Len(s) - n) : SubSeq(s, n + 1, Len(s))[k] = s[k + n]
<1> DEFINE a == SubSeq(s, 1, n)
           b == SubSeq(s, n + 1, Len(s))
<1>0. Len(s) \in Nat /\ n \in Nat /\ \A k \in 1..Len(s) : s[k] \in S
    OBVIOUS
<1>1. a \in Seq(S) /\ Len(a) = n /\ \A k \in 1..n : a[k] = s[k]
    <2>1. \A k \in 1..n : s[k] \in S
        BY <1>0
    <2>2. /\ a \in Seq(S) /\ Len(a) = (IF 1 <= n THEN n - 1 + 1 ELSE 0)
          /\ \A k \in 1..(n - 1 + 1) : a[k] = s[1 + k - 1]
        BY <1>0, <2>1, SubSeqProperties
    <2> HIDE DEF a
    <2>3. \A k \in 1..n : 1 + k - 1 = k
        BY <1>0
    <2> QED BY <1>0, <2>2, <2>3
<1>2. b \in Seq(S) /\ Len(b) = Len(s) - n /\ \A k \in 1..(Len(s) - n) : b[k] = s[k + n]
    <2>1. \A k \in (n + 1)..Len(s) : s[k] \in S
        BY <1>0
    <2>2. /\ b \in Seq(S) /\ Len(b) = (IF n + 1 <= Len(s) THEN Len(s) - (n + 1) + 1 ELSE 0)
          /\ \A k \in 1..(Len(s) - (n + 1) + 1) : b[k] = s[(n + 1) + k - 1]
        BY <1>0, <2>1, SubSeqProperties
    <2> HIDE DEF b
    <2>3. \A k \in 1..(Len(s) - n) : (n + 1) + k - 1 = k + n
        BY <1>0
    <2>4. Len(s) - (n + 1) + 1 = Len(s) - n
        BY <1>0
    <2>5. Len(b) = Len(s) - n
        BY <1>0, <2>2
    <2>6. \A k \in 1..(Len(s) - n) : b[k] = s[(n + 1) + k - 1]
        BY <2>2, <2>4
    <2> QED BY <2>2, <2>3, <2>5, <2>6
<1> QED BY <1>1, <1>2

-----------------------------------------------------------------------------
LEMMA LeakedIsFinite == IsFiniteSet(Leaked) /\ Cardinality(Leaked) \in Nat
<1>1. IsFiniteSet(Fds)
    BY SerialAssumption, FS_Interval DEF Fds
<1>2. Leaked \in SUBSET Fds
    BY DEF Leaked
<1> QED BY <1>1, <1>2, FS_Subset, FS_CardinalityType

LEMMA PortInvInit == Init => PortInv
<1> SUFFICES ASSUME Init PROVE PortInv
    OBVIOUS
<1>1. TypeOK
    <2>1. /\ \A S : <<>> \in Seq(S)
          /\ 0 \in 0..MaxBytes /\ 0 \in 0..MaxFailures
        BY SerialAssumption
    <2>2. buffer \in Seq(0..Alien) /\ unread \in Seq(1..MaxBytes) /\ returned \in Seq(1..MaxBytes)
        BY <2>1 DEF Init
    <2> QED BY <2>1, <2>2, SerialAssumption DEF Init, TypeOK
<1>2. NothingStale /\ UnreadInv /\ ReturnedInv
    BY DEF Init, NothingStale, UnreadInv, ReturnedInv
<1>3. LeaksOnlyFailures
    <2>1. Leaked = {}
        BY DEF Init, Leaked
    <2>2. Cardinality(Leaked) = 0
        BY <2>1, FS_EmptySet
    <2> QED BY <2>2 DEF Init, LeaksOnlyFailures
<1> QED BY <1>1, <1>2, <1>3 DEF PortInv

-----------------------------------------------------------------------------
(* Descriptors are not leaked by a step that opens none,                   *)
LEMMA NoneOpened ==
    ASSUME PortInv, Leaked' = Leaked, UNCHANGED half_opened
    PROVE  LeaksOnlyFailures'
BY DEF PortInv, LeaksOnlyFailures

(* nor by one that opens one and counts it.                                *)
LEMMA OneOpened ==
    ASSUME PortInv, NEW f, f \notin Leaked, Leaked' = Leaked \cup {f},
           half_opened' = half_opened + 1
    PROVE  LeaksOnlyFailures'
<1>1. Cardinality(Leaked) = half_opened
    BY DEF PortInv, LeaksOnlyFailures
<1>2. Cardinality(Leaked \cup {f}) = Cardinality(Leaked) + 1
    BY LeakedIsFinite, FS_AddElement
<1> QED BY <1>1, <1>2 DEF LeaksOnlyFailures

(* ::read writes the bytes over the front of the buffer.                   *)
LEMMA FilledBuffer ==
    ASSUME TypeOK, NEW bytes \in Seq(0..Alien)
    PROVE  /\ Filled(bytes) \in Seq(0..Alien) /\ Len(Filled(bytes)) = Len(buffer)
           /\ Len(buffer) \in Nat
           /\ \A k \in 1..Len(buffer) : k <= Len(bytes) => Filled(bytes)[k] = bytes[k]
<1> DEFINE Cells == 0..Alien
<1>0. buffer \in Seq(Cells) /\ bytes \in Seq(Cells)
    BY DEF TypeOK
<1> HIDE DEF Cells
<1>1. /\ Len(buffer) \in Nat /\ Len(bytes) \in Nat
      /\ \A k \in 1..Len(buffer) : buffer[k] \in Cells
      /\ \A k \in 1..Len(bytes) : bytes[k] \in Cells
    BY <1>0
<1>2. \A k \in 1..Len(buffer) :
          (IF k <= Len(bytes) THEN bytes[k] ELSE buffer[k]) \in Cells
    BY <1>1
<1>3. Filled(bytes) \in [1..Len(buffer) -> Cells]
    BY <1>2 DEF Filled
<1>4. Filled(bytes) \in Seq(Cells) /\ Len(Filled(bytes)) = Len(buffer)
    <2> HIDE DEF Filled
    <2> QED BY <1>1, <1>3
<1>5. \A k \in 1..Len(buffer) : k <= Len(bytes) => Filled(bytes)[k] = bytes[k]
    BY DEF Filled
<1> QED BY <1>1, <1>4, <1>5 DEF Cells

(* Everything but the bytes of a read.                                     *)
LEMMA SameBytes ==
    ASSUME PortInv, UNCHANGED <<arrived, unread, returned>>
    PROVE  UnreadInv' /\ ReturnedInv'
BY DEF PortInv, UnreadInv, ReturnedInv

(* ::read takes what has arrived, and read() returns the first of it.      *)
LEMMA ReadStep ==
    ASSUME PortInv, Read
    PROVE  PortInv'
<1>0. TypeOK /\ NothingStale /\ UnreadInv /\ ReturnedInv
    BY DEF PortInv
<1> DEFINE size   == IF Len(unread) < buffer_size THEN Len(unread) ELSE buffer_size
           filled == Filled(Taken)
           rest   == SubSeq(unread, size + 1, Len(unread))
<1>1. /\ status_code = 1 /\ buffer' = filled
      /\ unread' = SubSeq(unread, Len(Taken) + 1, Len(unread))
      /\ returned' = returned \o text(filled, Len(Taken))
      /\ UNCHANGED <<status_code, serial_port, buffer_size, last_err_code, name_lives, files,
                     arrived, written_to, half_opened>>
      /\ ended' \in {"no", "overread"}
    BY <1>0 DEF Read, TypeOK, Survives, Alive
<1>2. /\ unread \in Seq(1..MaxBytes) /\ Len(unread) \in Nat /\ buffer_size \in Nat
      /\ returned \in Seq(1..MaxBytes) /\ Len(returned) \in Nat /\ arrived \in Nat
      /\ Len(buffer) = buffer_size /\ MaxBytes \in Nat
    BY <1>0, <1>1, SerialAssumption DEF TypeOK, NothingStale
<1>3. size \in 0..Len(unread) /\ size \in 0..buffer_size /\ Taken = SubSeq(unread, 1, size)
    BY <1>2 DEF Taken
<1> HIDE DEF size, filled
<1>4. /\ Taken \in Seq(1..MaxBytes) /\ Len(Taken) = size
      /\ \A k \in 1..size : Taken[k] = unread[k]
      /\ rest \in Seq(1..MaxBytes) /\ Len(rest) = Len(unread) - size
      /\ \A k \in 1..(Len(unread) - size) : rest[k] = unread[k + size]
    BY <1>2, <1>3, Cut
<1> HIDE DEF rest
<1>5. unread' = rest
    BY <1>1, <1>4 DEF rest
<1>6. /\ filled \in Seq(0..Alien) /\ Len(filled) = buffer_size
      /\ \A k \in 1..size : filled[k] = unread[k]
    <2>1. Taken \in Seq(0..Alien)
        <3>1. \A k \in 1..MaxBytes : k \in 0..Alien
            BY <1>2 DEF Alien
        <3>2. \A k \in 1..size : Taken[k] \in 0..Alien
            BY <1>3, <1>4, <3>1
        <3> QED BY <1>4, <3>2, Retyped
    <2>2. /\ filled \in Seq(0..Alien) /\ Len(filled) = Len(buffer)
          /\ \A k \in 1..Len(buffer) : k <= Len(Taken) => filled[k] = Taken[k]
        BY <1>0, <2>1, FilledBuffer DEF filled
    <2>3. \A k \in 1..size : k \in 1..buffer_size /\ k <= size
        BY <1>2, <1>3
    <2> QED BY <1>2, <1>4, <2>2, <2>3
<1>7. PICK n \in 0..size : text(filled, Len(Taken)) = SubSeq(filled, 1, n)
    <2>1. size \in 0..Len(filled)
        BY <1>3, <1>6
    <2> QED BY <1>4, <1>6, <2>1, TextIsInside
<1> DEFINE new == SubSeq(filled, 1, n)
<1>8. new \in Seq(1..MaxBytes) /\ Len(new) = n /\ \A k \in 1..n : new[k] = unread[k]
    <2>1. n \in 0..Len(filled) /\ n \in Nat /\ \A k \in 1..n : k \in 1..size /\ k \in 1..Len(unread)
        BY <1>2, <1>3, <1>6
    <2>2. new \in Seq(0..Alien) /\ Len(new) = n /\ \A k \in 1..n : new[k] = filled[k]
        BY <1>6, <2>1, Cut
    <2> HIDE DEF new
    <2>3. \A k \in 1..n : new[k] = unread[k] /\ new[k] \in 1..MaxBytes
        BY <1>2, <1>6, <2>1, <2>2
    <2> QED BY <2>2, <2>3, Retyped
<1> HIDE DEF new
<1>9. /\ returned' \in Seq(1..MaxBytes) /\ Len(returned') = Len(returned) + n
      /\ \A k \in 1..(Len(returned) + n) :
             returned'[k] = IF k <= Len(returned) THEN returned[k] ELSE new[k - Len(returned)]
    <2>1. returned' = returned \o new
        BY <1>1, <1>7 DEF new
    <2>2. /\ returned \o new \in Seq(1..MaxBytes)
          /\ Len(returned \o new) = Len(returned) + Len(new)
          /\ \A k \in 1..(Len(returned) + Len(new)) :
                 (returned \o new)[k] = IF k <= Len(returned) THEN returned[k] ELSE new[k - Len(returned)]
        BY <1>2, <1>8, ConcatProperties
    <2> QED BY <1>8, <2>1, <2>2
<1>10. \A k \in 1..(Len(returned) + n) :
           \/ k \in 1..Len(returned) /\ returned'[k] = returned[k]
           \/ /\ k - Len(returned) \in 1..n /\ k - Len(returned) \in 1..Len(unread)
              /\ returned'[k] = arrived - Len(unread) + (k - Len(returned))
    <2> TAKE k \in 1..(Len(returned) + n)
    <2>1. CASE k <= Len(returned)
        <3>1. k \in 1..Len(returned)
            BY <1>2, <1>3, <2>1
        <3> QED BY <1>9, <2>1, <3>1
    <2>2. CASE ~ (k <= Len(returned))
        <3>1. k - Len(returned) \in 1..n /\ k - Len(returned) \in 1..Len(unread)
            BY <1>2, <1>3, <2>2
        <3>2. returned'[k] = unread[k - Len(returned)]
            BY <1>8, <1>9, <2>2, <3>1
        <3> QED BY <1>0, <3>1, <3>2 DEF UnreadInv
    <2> QED BY <2>1, <2>2
<1>11. TypeOK'
    BY <1>0, <1>1, <1>4, <1>5, <1>6, <1>9 DEF TypeOK
<1>12. NothingStale'
    <2> SUFFICES ASSUME NEW k \in 2..(Len(returned) + n)
                 PROVE  returned'[k - 1] < returned'[k]
        BY <1>1, <1>2, <1>6, <1>9 DEF NothingStale
    <2>0. /\ k \in 1..(Len(returned) + n) /\ k - 1 \in 1..(Len(returned) + n)
          /\ k \in Nat /\ n \in Nat
        BY <1>2, <1>3
    <2>1. CASE k \in 1..Len(returned)
        <3>1. /\ k \in 2..Len(returned) /\ k - 1 \in 1..Len(returned)
              /\ k <= Len(returned) /\ k - 1 <= Len(returned)
            BY <1>2, <2>1, <2>0
        <3>2. returned'[k] = returned[k] /\ returned'[k - 1] = returned[k - 1]
            BY <1>9, <2>0, <3>1
        <3> QED BY <1>0, <3>1, <3>2 DEF NothingStale
    <2>2. CASE k = Len(returned) + 1
        <3>1. k - 1 \in 1..Len(returned) /\ returned'[k - 1] = returned[k - 1]
            BY <1>2, <1>9, <2>0, <2>2
        <3>2. returned[k - 1] <= arrived - Len(unread) /\ returned[k - 1] \in Nat
            BY <1>0, <1>2, <3>1 DEF ReturnedInv
        <3>3. returned'[k] = arrived - Len(unread) + 1
            BY <1>2, <1>10, <2>0, <2>2
        <3> QED BY <1>2, <3>1, <3>2, <3>3
    <2>3. CASE k > Len(returned) + 1
        <3>0. k \notin 1..Len(returned) /\ k - 1 \notin 1..Len(returned)
            BY <1>2, <2>0, <2>3
        <3>1. /\ returned'[k] = arrived - Len(unread) + (k - Len(returned))
              /\ returned'[k - 1] = arrived - Len(unread) + (k - 1 - Len(returned))
            BY <1>10, <2>0, <3>0
        <3> QED BY <1>2, <2>0, <3>1
    <2> QED BY <1>2, <2>0, <2>1, <2>2, <2>3
<1>13. UnreadInv'
    <2>1. Len(unread') = Len(unread) - size /\ size \in Nat
        BY <1>3, <1>4, <1>5
    <2>2. ASSUME NEW k \in 1..(Len(unread) - size)
          PROVE  unread'[k] = arrived - (Len(unread) - size) + k
        <3>1. k + size \in 1..Len(unread) /\ k \in Nat
            BY <1>2, <2>1
        <3>2. unread'[k] = arrived - Len(unread) + (k + size)
            BY <1>0, <1>4, <1>5, <3>1 DEF UnreadInv
        <3> QED BY <1>2, <2>1, <3>1, <3>2
    <2>3. Len(unread) - size <= arrived
        BY <1>0, <1>2, <2>1 DEF UnreadInv
    <2> QED BY <1>1, <2>1, <2>2, <2>3 DEF UnreadInv
<1>14. ReturnedInv'
    <2> SUFFICES ASSUME NEW k \in 1..(Len(returned) + n)
                 PROVE  returned'[k] <= arrived - (Len(unread) - size)
        BY <1>1, <1>4, <1>5, <1>9 DEF ReturnedInv
    <2>1. CASE k \in 1..Len(returned) /\ returned'[k] = returned[k]
        <3>1. returned[k] <= arrived - Len(unread) /\ returned[k] \in Nat
            BY <1>0, <1>2, <2>1 DEF ReturnedInv
        <3> QED BY <1>2, <1>3, <2>1, <3>1
    <2>2. CASE /\ k - Len(returned) \in 1..n
               /\ returned'[k] = arrived - Len(unread) + (k - Len(returned))
        BY <1>2, <1>3, <2>2
    <2> QED BY <1>10, <2>1, <2>2
<1>15. LeaksOnlyFailures'
    BY <1>1, NoneOpened DEF Leaked, Held
<1> QED BY <1>11, <1>12, <1>13, <1>14, <1>15 DEF PortInv

(* open() adds one descriptor: the port's, or one that is lost.            *)
LEMMA OpenSteps ==
    ASSUME PortInv, Open \/ OpenHalfWay
    PROVE  PortInv'
<1> USE DEF device_vars, history_vars
<1>0. TypeOK /\ NothingStale /\ buffer_size \in Nat
    BY SerialAssumption DEF PortInv, TypeOK
<1>1. /\ Lowest(Free) \in Fds /\ status_code = 0 /\ serial_port' = Lowest(Free)
      /\ files' = [files EXCEPT ![Lowest(Free)] = "port"]
      /\ UNCHANGED <<arrived, unread, returned, buffer_size>>
    BY LowestIsFree DEF Open, OpenHalfWay, MayOpen
<1>2. UnreadInv' /\ ReturnedInv'
    BY <1>1, SameBytes
<1>3. files' \in [Fds -> {"free", "port", "other"}]
    BY <1>0, <1>1 DEF TypeOK
<1>4. half_opened \in 0..MaxFailures /\ MaxFailures \in Nat
    BY <1>0, SerialAssumption DEF TypeOK
<1>7. files[Lowest(Free)] = "free"
    BY LowestIsFree DEF Free, Open, OpenHalfWay
<1>5. ASSUME Open PROVE TypeOK' /\ NothingStale' /\ LeaksOnlyFailures'
    <2>1. status_code' = 1 /\ half_opened' = half_opened /\ buffer' = [k \in 1..buffer_size |-> 0]
        BY <1>5 DEF Open
    <2>2. buffer' \in Seq(0..Alien) /\ Len(buffer') = buffer_size
        <3>1. 0 \in 0..Alien
            BY SerialAssumption DEF Alien
        <3> DEFINE Cells == 0..Alien
        <3>2. 0 \in Cells
            BY <3>1
        <3> HIDE DEF Cells
        <3>3. buffer' \in [1..buffer_size -> Cells]
            BY <2>1, <3>2
        <3>4. buffer' \in Seq(Cells) /\ Len(buffer') = buffer_size
            BY <1>0, <3>3
        <3> QED BY <3>4 DEF Cells
    <2>3. TypeOK'
        BY <1>0, <1>1, <1>3, <1>5, <2>1, <2>2 DEF Open, TypeOK
    <2>4. NothingStale'
        BY <1>0, <1>1, <2>2 DEF NothingStale
    <2>5. Leaked' = Leaked
        BY <1>0, <1>1, <1>7, <2>1 DEF Leaked, Held, TypeOK
    <2>6. LeaksOnlyFailures'
        BY <2>1, <2>5, NoneOpened
    <2> QED BY <2>3, <2>4, <2>6
<1>6. ASSUME OpenHalfWay PROVE TypeOK' /\ NothingStale' /\ LeaksOnlyFailures'
    <2>1. status_code' = status_code /\ half_opened' = half_opened + 1 /\ half_opened < MaxFailures
        BY <1>6 DEF OpenHalfWay
    <2>2. half_opened' \in 0..MaxFailures
        BY <1>4, <2>1
    <2>3. TypeOK'
        BY <1>0, <1>1, <1>3, <1>6, <2>2 DEF OpenHalfWay, TypeOK
    <2>4. NothingStale'
        BY <1>0, <1>1, <2>1 DEF NothingStale
    <2>5. Lowest(Free) \notin Leaked /\ Leaked' = Leaked \cup {Lowest(Free)}
        BY <1>0, <1>1, <1>7, <2>1 DEF Leaked, Held, TypeOK
    <2>6. LeaksOnlyFailures'
        BY <2>1, <2>5, OneOpened
    <2> QED BY <2>3, <2>4, <2>6
<1> QED BY <1>2, <1>5, <1>6 DEF PortInv

(* A read of another file, through a number that was the port's.           *)
LEMMA ReadElsewhereStep ==
    ASSUME PortInv, ReadElsewhere
    PROVE  PortInv'
<1> USE DEF device_vars, history_vars
<1>0. TypeOK /\ NothingStale /\ buffer_size \in Nat
    BY SerialAssumption DEF PortInv, TypeOK
<1>1. PICK n \in 0..buffer_size : buffer' = Filled([k \in 1..n |-> Alien])
    BY DEF ReadElsewhere
<1> DEFINE bytes == [k \in 1..n |-> Alien]
<1>2. bytes \in Seq(0..Alien)
    <2> DEFINE Cells == 0..Alien
    <2>1. Alien \in Cells /\ n \in Nat
        BY <1>0, SerialAssumption DEF Alien
    <2> HIDE DEF Cells
    <2>2. bytes \in [1..n -> Cells]
        BY <2>1
    <2> HIDE DEF bytes
    <2>3. bytes \in Seq(Cells)
        BY <2>1, <2>2
    <2> QED BY <2>3 DEF Cells
<1> HIDE DEF bytes
<1>3. buffer' \in Seq(0..Alien) /\ Len(buffer') = Len(buffer)
    BY <1>0, <1>1, <1>2, FilledBuffer DEF bytes
<1>4. /\ UNCHANGED <<status_code, serial_port, buffer_size, last_err_code, name_lives, files,
                     device_vars, history_vars>>
      /\ ended' \in {"no", "overread"}
    BY DEF ReadElsewhere, Survives, Alive
<1>5. TypeOK'
    BY <1>0, <1>3, <1>4 DEF TypeOK
<1>6. NothingStale' /\ UnreadInv' /\ ReturnedInv'
    BY <1>0, <1>3, <1>4, SameBytes DEF NothingStale
<1>7. LeaksOnlyFailures'
    BY <1>4, NoneOpened DEF Leaked, Held
<1> QED BY <1>5, <1>6, <1>7 DEF PortInv

(* The device sends its next byte.                                         *)
LEMMA ArriveStep ==
    ASSUME PortInv, Arrive
    PROVE  PortInv'
<1> USE DEF object_vars, history_vars
<1>0. TypeOK /\ NothingStale /\ UnreadInv /\ ReturnedInv
    BY DEF PortInv
<1>1. /\ arrived' = arrived + 1 /\ unread' = Append(unread, arrived + 1) /\ arrived < MaxBytes
      /\ UNCHANGED <<object_vars, files, history_vars, ended>>
    BY DEF Arrive
<1>2. /\ arrived \in Nat /\ MaxBytes \in Nat /\ arrived + 1 \in 1..MaxBytes
      /\ unread \in Seq(1..MaxBytes) /\ Len(unread) \in Nat
      /\ returned \in Seq(1..MaxBytes)
    BY <1>0, <1>1, SerialAssumption DEF TypeOK
<1>3. /\ unread' \in Seq(1..MaxBytes) /\ Len(unread') = Len(unread) + 1
      /\ \A k \in 1..Len(unread) : unread'[k] = unread[k]
      /\ unread'[Len(unread) + 1] = arrived + 1
    <2> DEFINE next == arrived + 1
    <2>1. next \in 1..MaxBytes /\ unread' = Append(unread, next)
        BY <1>1, <1>2
    <2> HIDE DEF next
    <2>2. /\ unread' \in Seq(1..MaxBytes) /\ Len(unread') = Len(unread) + 1
          /\ \A k \in 1..Len(unread) : unread'[k] = unread[k]
          /\ unread'[Len(unread) + 1] = next
        BY <1>2, <2>1
    <2> QED BY <2>2 DEF next
<1>4. TypeOK'
    BY <1>0, <1>1, <1>2, <1>3 DEF TypeOK
<1>5. UnreadInv'
    <2>1. ASSUME NEW k \in 1..(Len(unread) + 1)
          PROVE  unread'[k] = (arrived + 1) - (Len(unread) + 1) + k
        <3>1. CASE k \in 1..Len(unread)
            BY <1>0, <1>2, <1>3, <3>1 DEF UnreadInv
        <3>2. CASE k = Len(unread) + 1
            BY <1>2, <1>3, <3>2
        <3> QED BY <1>2, <3>1, <3>2
    <2>2. Len(unread) + 1 <= arrived + 1
        BY <1>0, <1>2 DEF UnreadInv
    <2> QED BY <1>1, <1>3, <2>1, <2>2 DEF UnreadInv
<1>6. ReturnedInv'
    <2>1. (arrived + 1) - (Len(unread) + 1) = arrived - Len(unread)
        BY <1>2
    <2> QED BY <1>0, <1>1, <1>3, <2>1 DEF ReturnedInv
<1>7. NothingStale' /\ LeaksOnlyFailures'
    BY <1>0, <1>1, NoneOpened DEF NothingStale, Leaked, Held
<1> QED BY <1>4, <1>5, <1>6, <1>7 DEF PortInv

LEMMA PortInvStep == PortInv /\ [Next]_vars => PortInv'
<1> SUFFICES ASSUME PortInv, [Next]_vars PROVE PortInv'
    OBVIOUS
<1> USE DEF object_vars, device_vars, history_vars
<1>0. TypeOK /\ NothingStale
    BY DEF PortInv
<1>a. ASSUME UNCHANGED <<device_vars, returned, status_code, half_opened>>,
             Leaked' = Leaked, TypeOK', NothingStale'
      PROVE  PortInv'
    BY <1>a, SameBytes, NoneOpened DEF PortInv
<1>1. CASE SetBufferSize
    <2>1. TypeOK' /\ NothingStale'
        BY <1>0, <1>1 DEF SetBufferSize, MayResize, TypeOK, NothingStale
    <2> QED BY <1>1, <1>a, <2>1 DEF SetBufferSize, Leaked, Held
<1>2. CASE OpenFails
    <2>1. TypeOK' /\ NothingStale'
        BY <1>0, <1>2 DEF OpenFails, MayOpen, TypeOK, NothingStale
    <2> QED BY <1>2, <1>a, <2>1 DEF OpenFails, MayOpen, Leaked, Held
<1>3. CASE Close
    <2>1. TypeOK' /\ NothingStale'
        BY <1>0, <1>3 DEF Close, TypeOK, NothingStale
    <2>2. Leaked' = Leaked
        BY <1>0, <1>3 DEF Close, TypeOK, Leaked, Held
    <2> QED BY <1>3, <1>a, <2>1, <2>2 DEF Close
<1>4. CASE Write
    <2>1. files[serial_port] \in {"free", "port", "other"}
        BY <1>0, <1>4 DEF Write, TypeOK
    <2>2. TypeOK' /\ NothingStale'
        BY <1>0, <1>4, <2>1 DEF Write, TypeOK, NothingStale
    <2> QED BY <1>4, <1>a, <2>2 DEF Write, Leaked, Held
<1>5. CASE Destroy \/ NameDies
    <2>1. TypeOK' /\ NothingStale'
        BY <1>0, <1>5 DEF Destroy, NameDies, TypeOK, NothingStale
    <2> QED BY <1>5, <1>a, <2>1 DEF Destroy, NameDies, Leaked, Held
<1>6. CASE OtherOpens
    <2>1. Lowest(Free) \in Fds
        BY <1>6, LowestIsFree DEF OtherOpens
    <2>2. TypeOK' /\ NothingStale'
        BY <1>0, <1>6, <2>1 DEF OtherOpens, TypeOK, NothingStale
    <2>3. Leaked' = Leaked
        <3>1. files[Lowest(Free)] = "free"
            BY <1>6, LowestIsFree DEF OtherOpens, Free
        <3> QED BY <1>0, <1>6, <2>1, <3>1 DEF OtherOpens, TypeOK, Leaked, Held
    <2> QED BY <1>6, <1>a, <2>2, <2>3 DEF OtherOpens
<1>7. ASSUME NEW f \in Fds, OtherCloses(f) PROVE PortInv'
    <2>1. TypeOK' /\ NothingStale'
        BY <1>0, <1>7 DEF OtherCloses, TypeOK, NothingStale
    <2>2. Leaked' = Leaked
        BY <1>0, <1>7 DEF OtherCloses, TypeOK, Leaked, Held
    <2> QED BY <1>7, <1>a, <2>1, <2>2 DEF OtherCloses
<1>8. CASE UNCHANGED vars
    <2>1. TypeOK' /\ NothingStale'
        BY <1>0, <1>8 DEF vars, TypeOK, NothingStale
    <2> QED BY <1>8, <1>a, <2>1 DEF vars, Leaked, Held
<1> QED BY <1>1, <1>2, <1>3, <1>4, <1>5, <1>6, <1>7, <1>8, ReadStep, OpenSteps, ReadElsewhereStep,
           ArriveStep DEF Next, Port, Program

LEMMA PortInvHolds == Spec => []PortInv
BY PortInvInit, PortInvStep, PTL DEF Spec

-----------------------------------------------------------------------------
(* Every variable has its type; an open port has a descriptor.             *)
THEOREM PortTypeCorrect == Spec => []TypeOK
BY PortInvHolds, PTL DEF PortInv

(* read() returns no byte twice, out of order, or left over in its buffer, *)
(* and ::read is given the size the buffer has.                            *)
THEOREM ReadsAreFresh == Spec => []NothingStale
BY PortInvHolds, PTL DEF PortInv

(* As many descriptors leak as configurations have failed, besides that of *)
(* the open() that succeeded, which a destructor without close() leaves.   *)
THEOREM LeaksAreCounted == Spec => []LeaksOnlyFailures
BY PortInvHolds, PTL DEF PortInv

=============================================================================
