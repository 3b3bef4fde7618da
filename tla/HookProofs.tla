------------------------------ MODULE HookProofs ------------------------------
(***************************************************************************)
(* Hook, for every number of threads and calls and every layout of the     *)
(* code.  What a thread has yet to do is a program in which a store stands *)
(* between the change of the protection and its return; so the pages that  *)
(* are writable are those of the write at its head.                        *)
(***************************************************************************)
EXTENDS Hook, NaturalsInduction, WellFoundedInduction, SequenceTheorems,
        FiniteSetTheorems, TLAPS

(* A set of natural numbers that is not empty has a least one.             *)
LEMMA LeastExists ==
    ASSUME NEW S \in SUBSET Nat, S # {}
    PROVE  \E n \in S : \A k \in S : n <= k
<1>1. \E x \in S : \A y \in S : ~ (<<y, x>> \in OpToRel(<, Nat))
    BY NatLessThanWellFounded, WFMin
<1>2. PICK n \in S : \A y \in S : ~ (<<y, n>> \in OpToRel(<, Nat))
    BY <1>1
<1>3. \A y \in S : ~ (y < n)
    BY <1>2 DEF OpToRel
<1> QED BY <1>3

-----------------------------------------------------------------------------
(* The steps of a call, and what they may write.                           *)
Args == {"", "stolen", "nop"} \cup Kinds
Ops == [op : {"protect", "store", "restore", "memcpy", "read", "alloc"},
        addr : Int, size : Int, arg : Args]
Programs == Seq(Ops)

(* A step is followed by the one it needs, at the same place.              *)
Follows(s, i, op) ==
    /\ i + 1 \in 1..Len(s)
    /\ s[i + 1].op = op /\ s[i + 1].addr = s[i].addr /\ s[i + 1].size = s[i].size

Ordered(s) ==
    /\ \A i \in 1..Len(s) :
          /\ s[i].op = "protect" => Follows(s, i, "store")
          /\ s[i].op = "store" => Follows(s, i, "restore")
    /\ \A i \in 2..Len(s) :
          /\ s[i].op = "store" => s[i - 1].op = "protect"
          /\ s[i].op = "restore" => s[i - 1].op = "store"

(* A program that may begin a call, or follow another one.                 *)
Fresh(s) == s # <<>> => s[1].op \notin {"store", "restore"}

(* What a store writes is there.                                           *)
Sources(s, stolen) ==
    \A i \in 1..Len(s) : s[i].op = "store" =>
        /\ s[i].size > 0
        /\ s[i].arg = "stolen" => s[i].size = stolen
        /\ s[i].arg \notin {"stolen", "nop"} => s[i].arg \in Kinds /\ s[i].size = JUMP_HOOK_SIZE

(* Only a jump is made up, and only the first step reads.                  *)
Memcpys(s) == \A i \in 1..Len(s) : s[i].op = "memcpy" => s[i].arg \in Kinds

NoRead(s) == \A i \in 1..Len(s) : s[i].op # "read"

WellMade(s, stolen) == s \in Programs /\ Ordered(s) /\ Sources(s, stolen) /\ Memcpys(s)

LEMMA ConcatIsWellMade ==
    ASSUME NEW a, NEW b, NEW stolen, WellMade(a, stolen), WellMade(b, stolen), Fresh(b)
    PROVE  /\ WellMade(a \o b, stolen)
           /\ Fresh(a) => Fresh(a \o b)
           /\ NoRead(a) /\ NoRead(b) => NoRead(a \o b)
           /\ Len(a \o b) = Len(a) + Len(b)
           /\ a # <<>> => a \o b # <<>> /\ (a \o b)[1] = a[1]
           /\ \A i \in 1..Len(a \o b) : \/ i \in 1..Len(a) /\ (a \o b)[i] = a[i]
                                        \/ i - Len(a) \in 1..Len(b) /\ (a \o b)[i] = b[i - Len(a)]
<1> DEFINE s == a \o b
           m == Len(a)
           n == Len(b)
<1>1. a \in Programs /\ b \in Programs /\ m \in Nat /\ n \in Nat
    BY LenProperties DEF WellMade, Programs
<1>2. s \in Programs /\ Len(s) = m + n
      /\ \A i \in 1..(m + n) : s[i] = IF i <= m THEN a[i] ELSE b[i - m]
    BY <1>1, ConcatProperties DEF Programs
<1>3. (a # <<>> => m # 0) /\ (a = <<>> => m = 0) /\ (b # <<>> <=> n # 0)
    BY <1>1, EmptySeq DEF Programs
<1>4. (\A i \in 1..m : a[i] \in Ops) /\ \A i \in 1..n : b[i] \in Ops
    BY <1>1, ElementOfSeq DEF Programs
<1> HIDE DEF s, m, n
<1>5. \A i \in 1..m : i \in 1..(m + n) /\ s[i] = a[i]
    BY <1>1, <1>2
<1>6. \A i \in 1..(m + n) : i \notin 1..m => i - m \in 1..n /\ s[i] = b[i - m]
    BY <1>1, <1>2
<1>7. Ordered(s)
    <2>1. Ordered(a) /\ Ordered(b) /\ Fresh(b)
        BY DEF WellMade
    <2>2. ASSUME NEW i \in 1..(m + n)
          PROVE  /\ s[i].op = "protect" => Follows(s, i, "store")
                 /\ s[i].op = "store" => Follows(s, i, "restore")
        <3>1. CASE i \in 1..m
            <4>1. s[i] = a[i]
                BY <1>5, <3>1
            <4>2. i + 1 \in 1..m => s[i + 1] = a[i + 1] /\ i + 1 \in 1..(m + n)
                BY <1>5
            <4> QED BY <1>2, <2>1, <3>1, <4>1, <4>2 DEF Ordered, Follows, m
        <3>2. CASE i \notin 1..m
            <4> DEFINE j == i - m
            <4>1. j \in 1..n /\ s[i] = b[j]
                BY <1>6, <3>2
            <4>2. j + 1 \in 1..n => i + 1 \in 1..(m + n) /\ s[i + 1] = b[j + 1]
                <5> SUFFICES ASSUME j + 1 \in 1..n PROVE i + 1 \in 1..(m + n) /\ s[i + 1] = b[j + 1]
                    OBVIOUS
                <5>1. ASSUME NEW k \in Int, k = i + 1 PROVE k \in 1..(m + n) /\ s[k] = b[j + 1]
                    <6>1. k \in 1..(m + n) /\ k \notin 1..m /\ k - m = j + 1
                        BY <1>1, <3>2, <5>1
                    <6>2. s[k] = b[k - m]
                        BY <1>6, <6>1
                    <6> QED BY <6>1, <6>2
                <5> QED BY <1>1, <5>1
            <4> HIDE DEF j
            <4> QED BY <1>2, <2>1, <4>1, <4>2 DEF Ordered, Follows, n
        <3> QED BY <3>1, <3>2
    <2>3. ASSUME NEW i \in 2..(m + n)
          PROVE  /\ s[i].op = "store" => s[i - 1].op = "protect"
                 /\ s[i].op = "restore" => s[i - 1].op = "store"
        <3>1. CASE i \in 1..m
            <4>1. s[i] = a[i] /\ s[i - 1] = a[i - 1] /\ i \in 2..m
                BY <1>1, <1>5, <3>1
            <4> QED BY <2>1, <4>1 DEF Ordered, m
        <3>2. CASE i = m + 1
            <4>1. s[i] = b[1] /\ n # 0
                <5>1. i \in 1..(m + n) /\ i \notin 1..m /\ i - m = 1
                    BY <1>1, <3>2
                <5>2. i - m \in 1..n /\ s[i] = b[i - m]
                    BY <1>6, <5>1
                <5> QED BY <1>1, <5>1, <5>2
            <4> QED BY <1>3, <2>1, <4>1 DEF Fresh
        <3>3. CASE i \notin 1..m /\ i # m + 1
            <4> DEFINE j == i - m
            <4>1. i \in 1..(m + n) /\ i - 1 \in 1..(m + n) /\ i - 1 \notin 1..m /\ i - 1 - m = j - 1
                BY <1>1, <3>3
            <4>2. j \in 1..n /\ j - 1 \in 1..n /\ s[i] = b[j] /\ s[i - 1] = b[j - 1]
                BY <1>6, <3>3, <4>1
            <4> HIDE DEF j
            <4>3. j \in 2..n
                BY <1>1, <4>2
            <4> QED BY <2>1, <4>2, <4>3 DEF Ordered, n
        <3> QED BY <3>1, <3>2, <3>3
    <2> QED BY <1>2, <2>2, <2>3 DEF Ordered
<1>8. Sources(s, stolen) /\ Memcpys(s)
    <2>1. \A i \in 1..(m + n) : (i \in 1..m /\ s[i] = a[i]) \/ (i - m \in 1..n /\ s[i] = b[i - m])
        BY <1>5, <1>6
    <2>2. Sources(a, stolen) /\ Sources(b, stolen) /\ Memcpys(a) /\ Memcpys(b)
        BY DEF WellMade
    <2> QED BY <1>2, <2>1, <2>2 DEF Sources, Memcpys, m, n
<1>9. a # <<>> => s # <<>> /\ s[1] = a[1]
    <2> SUFFICES ASSUME a # <<>> PROVE s # <<>> /\ s[1] = a[1]
        OBVIOUS
    <2>1. m + n # 0 /\ 1 \in 1..m
        BY <1>1, <1>3
    <2>2. s # <<>>
        BY <1>2, <2>1, EmptySeq
    <2> QED BY <1>5, <2>1, <2>2
<1>10. Fresh(a) => Fresh(s)
    <2>1. CASE a # <<>>
        BY <1>9, <2>1 DEF Fresh
    <2>2. CASE a = <<>>
        <3>1. s = b
            BY <1>1, <2>2, ConcatEmptySeq DEF s, Programs
        <3> QED BY <3>1
    <2> QED BY <2>1, <2>2
<1>11. \A i \in 1..(m + n) : (i \in 1..m /\ s[i] = a[i]) \/ (i - m \in 1..n /\ s[i] = b[i - m])
    BY <1>5, <1>6
<1>12. NoRead(a) /\ NoRead(b) => NoRead(s)
    BY <1>2, <1>11 DEF NoRead, m, n
<1> QED BY <1>2, <1>7, <1>8, <1>9, <1>10, <1>11, <1>12 DEF WellMade, s, m, n

(* The rest of a program after its first step.                             *)
LEMMA TailIsWellMade ==
    ASSUME NEW s, NEW stolen, WellMade(s, stolen), s # <<>>
    PROVE  /\ WellMade(Tail(s), stolen) /\ Len(Tail(s)) = Len(s) - 1
           /\ Head(s) = s[1] /\ Head(s) \in Ops /\ Len(s) \in Nat \ {0}
           /\ \A i \in 1..Len(Tail(s)) : i + 1 \in 1..Len(s) /\ Tail(s)[i] = s[i + 1]
           /\ IF Head(s).op \in {"protect", "store"}
              THEN /\ Tail(s) # <<>>
                   /\ Head(Tail(s)).op = IF Head(s).op = "protect" THEN "store" ELSE "restore"
                   /\ Head(Tail(s)).addr = Head(s).addr /\ Head(Tail(s)).size = Head(s).size
              ELSE Fresh(Tail(s))
<1> DEFINE t == Tail(s)
           n == Len(s)
<1>1. s \in Programs /\ Ordered(s) /\ Sources(s, stolen) /\ Memcpys(s)
    BY DEF WellMade
<1>2. n \in Nat /\ n # 0 /\ \A i \in 1..n : s[i] \in Ops
    BY <1>1, EmptySeq, ElementOfSeq DEF Programs
<1>3. t \in Programs /\ Len(t) = n - 1 /\ \A i \in 1..Len(t) : t[i] = s[i + 1]
    BY <1>1, HeadTailProperties DEF Programs
<1>4. Head(s) = s[1] /\ (t # <<>> => Head(t) = t[1]) /\ (t = <<>> <=> n = 1)
    <2>1. \A p \in Seq(Ops) : p # <<>> => Head(p) = p[1]
        OBVIOUS
    <2>2. t = <<>> <=> n - 1 = 0
        BY <1>3, EmptySeq DEF Programs
    <2> QED BY <1>1, <1>2, <1>3, <2>1, <2>2 DEF Programs
<1> HIDE DEF t, n
<1>5. \A i \in 1..(n - 1) : i + 1 \in 1..n /\ i + 1 \in 2..n /\ t[i] = s[i + 1]
    BY <1>2, <1>3
<1>6. Ordered(t)
    <2>1. ASSUME NEW i \in 1..(n - 1)
          PROVE  /\ t[i].op = "protect" => Follows(t, i, "store")
                 /\ t[i].op = "store" => Follows(t, i, "restore")
        <3>1. t[i] = s[i + 1] /\ i + 1 \in 1..n
            BY <1>5
        <3>2. i + 1 + 1 \in 1..n => i + 1 \in 1..(n - 1) /\ t[i + 1] = s[i + 1 + 1]
            <4>1. i + 1 + 1 \in 1..n => i + 1 \in 1..(n - 1)
                BY <1>2
            <4> QED BY <1>5, <4>1
        <3> QED BY <1>1, <1>3, <3>1, <3>2 DEF Ordered, Follows, n
    <2>2. ASSUME NEW i \in 2..(n - 1)
          PROVE  /\ t[i].op = "store" => t[i - 1].op = "protect"
                 /\ t[i].op = "restore" => t[i - 1].op = "store"
        <3>1. i \in 1..(n - 1) /\ i - 1 \in 1..(n - 1) /\ i - 1 + 1 = i /\ i + 1 - 1 = i
            BY <1>2
        <3>2. t[i] = s[i + 1] /\ t[i - 1] = s[i] /\ i + 1 \in 2..n
            <4>1. t[i - 1] = s[i - 1 + 1]
                BY <1>5, <3>1
            <4> QED BY <1>5, <3>1, <4>1
        <3>3. s[i + 1].op = "store" => s[i + 1 - 1].op = "protect"
            BY <1>1, <3>2 DEF Ordered, n
        <3>4. s[i + 1].op = "restore" => s[i + 1 - 1].op = "store"
            BY <1>1, <3>2 DEF Ordered, n
        <3> QED BY <3>1, <3>2, <3>3, <3>4
    <2> QED BY <1>3, <2>1, <2>2 DEF Ordered
<1>7. Sources(t, stolen) /\ Memcpys(t)
    BY <1>1, <1>3, <1>5 DEF Sources, Memcpys, n
<1>8. CASE s[1].op \in {"protect", "store"}
    <2>1. 1 \in 1..n
        BY <1>2
    <2>2. Follows(s, 1, IF s[1].op = "protect" THEN "store" ELSE "restore")
        BY <1>1, <1>8, <2>1 DEF Ordered, n
    <2>3. 1 + 1 \in 1..n /\ 1 \in 1..(n - 1)
        BY <1>2, <2>2 DEF Follows, n
    <2>4. t # <<>> /\ t[1] = s[1 + 1]
        BY <1>2, <1>4, <1>5, <2>3
    <2>5. Head(t).op = (IF s[1].op = "protect" THEN "store" ELSE "restore")
          /\ Head(t).addr = s[1].addr /\ Head(t).size = s[1].size
        BY <1>4, <2>2, <2>4 DEF Follows
    <2> QED BY <1>1, <1>2, <1>3, <1>4, <1>5, <1>6, <1>7, <1>8, <2>1, <2>4, <2>5 DEF WellMade, t, n
<1>9. CASE s[1].op \notin {"protect", "store"}
    <2>1. 1 \in 1..n
        BY <1>2
    <2>2. Fresh(t)
        <3> SUFFICES ASSUME t # <<>> PROVE t[1].op \notin {"store", "restore"}
            BY DEF Fresh
        <3>1. 2 \in 2..n /\ 1 \in 1..(n - 1) /\ t[1] = s[1 + 1]
            BY <1>2, <1>4, <1>5
        <3>2. s[2].op = "store" => s[2 - 1].op = "protect"
            BY <1>1, <3>1 DEF Ordered, n
        <3>3. s[2].op = "restore" => s[2 - 1].op = "store"
            BY <1>1, <3>1 DEF Ordered, n
        <3> QED BY <1>9, <3>1, <3>2, <3>3
    <2> QED BY <1>1, <1>2, <1>3, <1>4, <1>5, <1>6, <1>7, <1>9, <2>1, <2>2 DEF WellMade, t, n
<1> QED BY <1>8, <1>9

(* The programs of the calls are well made.                                *)
LEMMA EmptyIsWellMade == \A stolen : WellMade(<<>>, stolen) /\ Fresh(<<>>) /\ NoRead(<<>>)
<1>1. <<>> \in Programs /\ Len(<<>>) = 0
    BY EmptySeq DEF Programs
<1> QED BY <1>1 DEF WellMade, Fresh, NoRead, Ordered, Sources, Memcpys

LEMMA OneIsWellMade ==
    ASSUME NEW op \in {"memcpy", "read", "alloc"}, NEW addr \in Int, NEW size \in Int, NEW arg \in Args,
           op = "memcpy" => arg \in Kinds, NEW stolen
    PROVE  LET s == <<Op(op, addr, size, arg)>>
           IN  /\ WellMade(s, stolen) /\ Fresh(s) /\ s # <<>> /\ Len(s) = 1 /\ s[1] = Op(op, addr, size, arg)
               /\ op # "read" => NoRead(s)
<1> DEFINE o == Op(op, addr, size, arg)
           s == <<o>>
<1>1. o \in Ops /\ o.op = op /\ o.arg = arg
    BY DEF Op, Ops
<1> HIDE DEF o
<1>2. s \in Programs /\ Len(s) = 1 /\ s[1] = o /\ s # <<>>
    BY <1>1 DEF Programs
<1> HIDE DEF s
<1>3. Ordered(s)
    BY <1>1, <1>2 DEF Ordered
<1>4. Sources(s, stolen) /\ Memcpys(s) /\ Fresh(s) /\ (op # "read" => NoRead(s))
    BY <1>1, <1>2 DEF Sources, Memcpys, Fresh, NoRead
<1> QED BY <1>1, <1>2, <1>3, <1>4 DEF WellMade, s, o

LEMMA WriteIsWellMade ==
    ASSUME NEW addr \in Int, NEW size \in Nat, size > 0, NEW source \in Args, NEW stolen,
           source = "stolen" => size = stolen,
           source \notin {"stolen", "nop"} => source \in Kinds /\ size = JUMP_HOOK_SIZE
    PROVE  LET s == write(addr, source, size)
           IN  WellMade(s, stolen) /\ Fresh(s) /\ NoRead(s) /\ s # <<>>
<1> DEFINE o1 == Op("protect", addr, size, "")
           o2 == Op("store", addr, size, source)
           o3 == Op("restore", addr, size, "")
           s == <<o1, o2, o3>>
<1>1. o1 \in Ops /\ o2 \in Ops /\ o3 \in Ops
    <2>1. "" \in Args
        BY DEF Args
    <2>2. ASSUME NEW op \in {"protect", "store", "restore"}, NEW arg \in Args
          PROVE  Op(op, addr, size, arg) \in Ops
        BY DEF Op, Ops
    <2> QED BY <2>1, <2>2
<1>2. /\ o1.op = "protect" /\ o2.op = "store" /\ o3.op = "restore"
      /\ o1.addr = addr /\ o2.addr = addr /\ o3.addr = addr
      /\ o1.size = size /\ o2.size = size /\ o3.size = size
      /\ o2.arg = source
    BY DEF Op
<1>3. write(addr, source, size) = s
    BY DEF write
<1> HIDE DEF o1, o2, o3
<1>4. s \in Programs /\ Len(s) = 3 /\ s[1] = o1 /\ s[2] = o2 /\ s[3] = o3 /\ s # <<>>
    BY <1>1 DEF Programs
<1> HIDE DEF s
<1>5. \A i \in 1..3 : i = 1 \/ i = 2 \/ i = 3
    OBVIOUS
<1>6. Follows(s, 1, "store") /\ Follows(s, 2, "restore")
    BY <1>2, <1>4 DEF Follows
<1>7. \A i \in 2..3 : i = 2 \/ i = 3
    OBVIOUS
<1>8. Ordered(s)
    BY <1>2, <1>4, <1>5, <1>6, <1>7 DEF Ordered
<1>9. Sources(s, stolen) /\ Memcpys(s) /\ Fresh(s) /\ NoRead(s)
    BY <1>2, <1>4, <1>5 DEF Sources, Memcpys, Fresh, NoRead
<1> QED BY <1>3, <1>4, <1>8, <1>9 DEF WellMade

LEMMA KindsAre == Kinds \subseteq Args /\ Kinds \cap {"stolen", "nop"} = {}
BY HookAssumption DEF Args

LEMMA JmpIsWellMade ==
    ASSUME NEW kind \in Kinds, NEW from_addr \in Int, NEW target_addr \in Int,
           NEW size \in Nat, size >= JUMP_HOOK_SIZE, NEW stolen
    PROVE  LET s == jmp(kind, from_addr, target_addr, size)
           IN  WellMade(s, stolen) /\ Fresh(s) /\ NoRead(s) /\ s # <<>>
<1> DEFINE o == operand_of(kind, from_addr, target_addr)
           a == <<Op("memcpy", 0, o, kind)>>
           b == write(from_addr, kind, JUMP_HOOK_SIZE)
           c == fill_with_nop(from_addr + JUMP_HOOK_SIZE, size - JUMP_HOOK_SIZE)
           d == IF size > JUMP_HOOK_SIZE THEN c ELSE <<>>
<1>1. WellMade(a, stolen) /\ Fresh(a) /\ NoRead(a) /\ a # <<>>
    <2>1. o \in Int /\ kind \in Args
        BY KindsAre DEF operand_of, JUMP_HOOK_SIZE
    <2> HIDE DEF o
    <2>2. WellMade(a, stolen) /\ Fresh(a) /\ NoRead(a)
        BY <2>1, OneIsWellMade
    <2> QED BY <2>2
<1>2. WellMade(b, stolen) /\ Fresh(b) /\ NoRead(b)
    BY KindsAre, WriteIsWellMade DEF JUMP_HOOK_SIZE
<1>3. WellMade(d, stolen) /\ Fresh(d) /\ NoRead(d)
    <2>1. CASE size > JUMP_HOOK_SIZE
        <3>1. size - JUMP_HOOK_SIZE \in Nat /\ size - JUMP_HOOK_SIZE > 0
              /\ from_addr + JUMP_HOOK_SIZE \in Int /\ "nop" \in Args
            BY <2>1 DEF JUMP_HOOK_SIZE, Args
        <3>2. WellMade(c, stolen) /\ Fresh(c) /\ NoRead(c)
            BY <3>1, WriteIsWellMade DEF fill_with_nop
        <3> HIDE DEF c
        <3> QED BY <2>1, <3>2
    <2>2. CASE ~ (size > JUMP_HOOK_SIZE)
        BY <2>2, EmptyIsWellMade
    <2> QED BY <2>1, <2>2
<1>4. jmp(kind, from_addr, target_addr, size) = a \o b \o d
    BY DEF jmp
<1> HIDE DEF a, b, d
<1>5. WellMade(a \o b, stolen) /\ Fresh(a \o b) /\ NoRead(a \o b) /\ a \o b # <<>>
    BY <1>1, <1>2, ConcatIsWellMade
<1> DEFINE e == a \o b
<1> HIDE DEF e
<1>6. WellMade(e \o d, stolen) /\ Fresh(e \o d) /\ NoRead(e \o d) /\ e \o d # <<>>
    BY <1>3, <1>5, ConcatIsWellMade DEF e
<1> QED BY <1>4, <1>6 DEF e

(* Only the first step reads, what the call is for.                        *)
ReadsOnce(s, addr, size) ==
    \A i \in 1..Len(s) : s[i].op = "read" => i = 1 /\ s[i].addr = addr /\ s[i].size = size

LEMMA ReadThenNoRead ==
    ASSUME NEW a, NEW b, NEW stolen, WellMade(a, stolen), WellMade(b, stolen), Fresh(a), Fresh(b),
           NEW addr, NEW size, ReadsOnce(a, addr, size), NoRead(b), a # <<>>
    PROVE  /\ WellMade(a \o b, stolen) /\ Fresh(a \o b) /\ ReadsOnce(a \o b, addr, size)
           /\ a \o b # <<>> /\ (a \o b)[1] = a[1]
<1> DEFINE s == a \o b
<1>1. /\ WellMade(s, stolen) /\ Fresh(s) /\ s # <<>> /\ s[1] = a[1]
      /\ \A i \in 1..Len(s) : \/ i \in 1..Len(a) /\ s[i] = a[i]
                              \/ i - Len(a) \in 1..Len(b) /\ s[i] = b[i - Len(a)]
    BY ConcatIsWellMade
<1> HIDE DEF s
<1>2. ReadsOnce(s, addr, size)
    BY <1>1 DEF ReadsOnce, NoRead
<1> QED BY <1>1, <1>2 DEF s

LEMMA TrampolineIsWellMade ==
    ASSUME NEW kind \in Kinds, NEW from_addr \in Int, NEW target_addr \in Int,
           NEW size \in Nat, size >= JUMP_HOOK_SIZE, NEW original_func \in Int
    PROVE  LET s == trampoline(kind, from_addr, target_addr, size, original_func)
           IN  /\ WellMade(s, size) /\ Fresh(s) /\ ReadsOnce(s, from_addr, size)
               /\ s # <<>> /\ s[1].op = "read"
<1> DEFINE a == <<Op("read", from_addr, size, "")>>
           b == jmp(kind, from_addr, target_addr, size)
           c == <<Op("alloc", 0, 0, "")>>
           d == write(original_func, "stolen", size)
           e == jmp(kind, original_func + size, from_addr + size, JUMP_HOOK_SIZE)
           R(s) == /\ WellMade(s, size) /\ Fresh(s) /\ ReadsOnce(s, from_addr, size)
                   /\ s # <<>> /\ s[1].op = "read"
           N(s) == WellMade(s, size) /\ Fresh(s) /\ NoRead(s)
<1>1. R(a)
    <2> DEFINE o == Op("read", from_addr, size, "")
    <2>1. o.op = "read" /\ o.addr = from_addr /\ o.size = size
        BY DEF Op
    <2>2. WellMade(a, size) /\ Fresh(a) /\ a # <<>> /\ Len(a) = 1 /\ a[1] = o
        <3>1. "" \in Args /\ size \in Int /\ "read" \in {"memcpy", "read", "alloc"}
              /\ ("read" = "memcpy" => "" \in Kinds)
            BY DEF Args
        <3> QED BY <3>1, OneIsWellMade
    <2> HIDE DEF a, o
    <2> QED BY <2>1, <2>2 DEF ReadsOnce
<1>2. N(b)
    BY JmpIsWellMade
<1>3. N(c)
    <2>1. "" \in Args /\ 0 \in Int /\ "alloc" \in {"memcpy", "read", "alloc"}
          /\ ("alloc" = "memcpy" => "" \in Kinds) /\ "alloc" # "read"
        BY DEF Args
    <2>2. WellMade(c, size) /\ Fresh(c) /\ NoRead(c)
        BY <2>1, OneIsWellMade
    <2> QED BY <2>2
<1>4. N(d)
    <2>1. "stolen" \in Args /\ size > 0
        BY DEF Args, JUMP_HOOK_SIZE
    <2> QED BY <2>1, WriteIsWellMade
<1>5. N(e)
    <2>1. original_func + size \in Int /\ from_addr + size \in Int /\ JUMP_HOOK_SIZE \in Nat
          /\ JUMP_HOOK_SIZE >= JUMP_HOOK_SIZE
        BY DEF JUMP_HOOK_SIZE
    <2> QED BY <2>1, JmpIsWellMade
<1>6. trampoline(kind, from_addr, target_addr, size, original_func) = a \o b \o c \o d \o e
    BY DEF trampoline
<1> HIDE DEF a, b, c, d, e
<1>7. ASSUME NEW x, NEW y, R(x), N(y) PROVE R(x \o y)
    BY <1>7, ReadThenNoRead
<1> HIDE DEF R, N
<1>8. R(a \o b)
    BY <1>1, <1>2, <1>7
<1>9. R(a \o b \o c)
    BY <1>3, <1>7, <1>8
<1>10. R(a \o b \o c \o d)
    BY <1>4, <1>7, <1>9
<1>11. R(a \o b \o c \o d \o e)
    BY <1>5, <1>7, <1>10
<1> QED BY <1>6, <1>11 DEF R

-----------------------------------------------------------------------------
(* The types of the hooks, and what each thread has yet to do.             *)

Tags == {"none", "code", "ret", "nop", "operand", "absolute", "relative"}
CellType == Tags \X Int
CallType == [function : Nat, size : Nat, target : Int, kind : {"absolute", "relative"},
             original : Int, movable : BOOLEAN, before : {<<>>}]

StolenSize(prog, c, buf) == IF prog # <<>> /\ prog[1].op = "read" THEN c.size ELSE Len(buf)

ThreadOK(prog, c, st, buf, int) ==
    /\ WellMade(prog, StolenSize(prog, c, buf)) /\ ReadsOnce(prog, c.function, c.size)
    /\ c \in CallType /\ st \in Nat /\ buf \in Seq(CellType)
    /\ c = NoCall => prog = <<>> /\ buf = <<>>
    /\ c # NoCall => c.function \in Functions /\ c.size \in Sizes /\ c.target # 0
    /\ st > 0 => int /\ prog # <<>> /\ Head(prog).op = "store" /\ st < Head(prog).size

ThreadsInv ==
    /\ todo \in [Threads -> Programs] /\ call \in [Threads -> CallType]
    /\ stored \in [Threads -> Nat] /\ buffer \in [Threads -> Seq(CellType)]
    /\ \A t \in Threads : ThreadOK(todo[t], call[t], stored[t], buffer[t], internal)

CellsInv ==
    /\ memory \in [1..Cells -> CellType] /\ operand \in [Kinds -> Int]
    /\ protect \in [Pages -> {"rx", "rwx"}] /\ first_protect \in [Pages -> {"rx", "rwx"}]
    /\ old_protect \in [Threads -> {"rx", "rwx"}] /\ mixed \subseteq Pages
    /\ internal \in BOOLEAN /\ crashed \in BOOLEAN /\ disturbed \in BOOLEAN

Active == {t \in Threads : call[t] # NoCall}
CountInv ==
    /\ calls \in 0..MaxCalls /\ \E S : log \in Seq(S)
    /\ Len(log) + Cardinality(Active) <= calls

LEMMA OneThreadMoves ==
    ASSUME ThreadsInv, NEW t \in Threads, NEW prog, NEW c, NEW st, NEW buf,
           ThreadOK(prog, c, st, buf, internal), UNCHANGED internal,
           todo' = [todo EXCEPT ![t] = prog], call' = [call EXCEPT ![t] = c],
           stored' = [stored EXCEPT ![t] = st], buffer' = [buffer EXCEPT ![t] = buf]
    PROVE  ThreadsInv'
<1>1. prog \in Programs /\ c \in CallType /\ st \in Nat /\ buf \in Seq(CellType)
    BY DEF ThreadOK, WellMade
<1>2. /\ todo \in [Threads -> Programs] /\ call \in [Threads -> CallType]
      /\ stored \in [Threads -> Nat] /\ buffer \in [Threads -> Seq(CellType)]
    BY DEF ThreadsInv
<1>3. todo' \in [Threads -> Programs] /\ \A u \in Threads : todo'[u] = IF u = t THEN prog ELSE todo[u]
    BY <1>1, <1>2
<1>4. call' \in [Threads -> CallType] /\ \A u \in Threads : call'[u] = IF u = t THEN c ELSE call[u]
    BY <1>1, <1>2
<1>5. stored' \in [Threads -> Nat] /\ \A u \in Threads : stored'[u] = IF u = t THEN st ELSE stored[u]
    BY <1>1, <1>2
<1>6. buffer' \in [Threads -> Seq(CellType)] /\ \A u \in Threads : buffer'[u] = IF u = t THEN buf ELSE buffer[u]
    BY <1>1, <1>2
<1>7. \A u \in Threads : ThreadOK(todo'[u], call'[u], stored'[u], buffer'[u], internal')
    <2> TAKE u \in Threads
    <2>1. CASE u = t
        BY <1>3, <1>4, <1>5, <1>6, <2>1
    <2>2. CASE u # t
        BY <1>3, <1>4, <1>5, <1>6, <2>2 DEF ThreadsInv
    <2> QED BY <2>1, <2>2
<1> QED BY <1>3, <1>4, <1>5, <1>6, <1>7 DEF ThreadsInv

(* What does not change is changed to what it was.                         *)
LEMMA ThreadsStay ==
    ASSUME ThreadsInv, NEW t \in Threads
    PROVE  /\ todo = [todo EXCEPT ![t] = todo[t]] /\ call = [call EXCEPT ![t] = call[t]]
           /\ stored = [stored EXCEPT ![t] = stored[t]] /\ buffer = [buffer EXCEPT ![t] = buffer[t]]
           /\ ThreadOK(todo[t], call[t], stored[t], buffer[t], internal)
<1>1. /\ todo \in [Threads -> Programs] /\ call \in [Threads -> CallType]
      /\ stored \in [Threads -> Nat] /\ buffer \in [Threads -> Seq(CellType)]
    BY DEF ThreadsInv
<1>2. todo = [todo EXCEPT ![t] = todo[t]]
    BY <1>1
<1>3. call = [call EXCEPT ![t] = call[t]]
    BY <1>1
<1>4. stored = [stored EXCEPT ![t] = stored[t]]
    BY <1>1
<1>5. buffer = [buffer EXCEPT ![t] = buffer[t]]
    BY <1>1
<1> QED BY <1>2, <1>3, <1>4, <1>5 DEF ThreadsInv

(* After a step that is not a read, or is one, the rest remains.           *)
LEMMA TailIsOK ==
    ASSUME NEW prog, NEW c, NEW st, NEW buf, NEW int, ThreadOK(prog, c, st, buf, int), prog # <<>>
    PROVE  /\ Head(prog).op # "read" => ThreadOK(Tail(prog), c, 0, buf, int)
           /\ Head(prog).op # "store" => st = 0
           /\ Head(prog).op = "read" => \A new \in Seq(CellType) :
                 Len(new) = Head(prog).size => ThreadOK(Tail(prog), c, 0, new, int)
           /\ Head(prog).op = "read" =>
                 /\ Head(prog).addr = c.function /\ Head(prog).size = c.size
           /\ c # NoCall /\ c.function \in Functions /\ c.size \in Sizes
<1> DEFINE rest == Tail(prog)
           n == StolenSize(prog, c, buf)
<1>1. WellMade(prog, n) /\ ReadsOnce(prog, c.function, c.size) /\ c # NoCall
    BY DEF ThreadOK
<1>2. /\ WellMade(rest, n) /\ Head(prog) = prog[1] /\ Len(prog) \in Nat \ {0}
      /\ \A i \in 1..Len(rest) : i + 1 \in 1..Len(prog) /\ rest[i] = prog[i + 1]
    BY <1>1, TailIsWellMade
<1> HIDE DEF rest
<1>3. NoRead(rest) /\ (rest # <<>> => rest[1].op # "read") /\ ReadsOnce(rest, c.function, c.size)
    <2>1. NoRead(rest)
        <3>1. Len(rest) \in Nat
            BY <1>2, LenProperties DEF WellMade, Programs
        <3>2. \A i \in 1..Len(rest) : i + 1 # 1
            BY <3>1
        <3> QED BY <1>1, <1>2, <3>2 DEF NoRead, ReadsOnce
    <2>2. rest # <<>> => 1 \in 1..Len(rest)
        BY <1>2, EmptySeq DEF WellMade, Programs
    <2> QED BY <2>1, <2>2 DEF NoRead, ReadsOnce
<1>4. \A new : StolenSize(rest, c, new) = Len(new)
    BY <1>3 DEF StolenSize
<1>5. c \in CallType /\ c.function \in Functions /\ c.size \in Sizes /\ c.target # 0
    BY <1>1 DEF ThreadOK
<1>6. ASSUME Head(prog).op # "read" PROVE ThreadOK(rest, c, 0, buf, int)
    <2>1. n = Len(buf)
        BY <1>2, <1>6 DEF StolenSize
    <2>2. buf \in Seq(CellType)
        BY DEF ThreadOK
    <2> HIDE DEF n
    <2> QED BY <1>1, <1>2, <1>3, <1>4, <1>5, <2>1, <2>2 DEF ThreadOK
<1>7. ASSUME Head(prog).op = "read"
      PROVE  /\ Head(prog).addr = c.function /\ Head(prog).size = c.size
             /\ \A new \in Seq(CellType) : Len(new) = Head(prog).size => ThreadOK(rest, c, 0, new, int)
    <2>1. Head(prog).addr = c.function /\ Head(prog).size = c.size
        <3>1. 1 \in 1..Len(prog)
            BY <1>2
        <3> QED BY <1>1, <1>2, <1>7, <3>1 DEF ReadsOnce
    <2>2. n = c.size
        BY <1>2, <1>7 DEF StolenSize
    <2> HIDE DEF n
    <2> QED BY <1>1, <1>2, <1>3, <1>4, <1>5, <2>1, <2>2 DEF ThreadOK
<1>8. Head(prog).op # "store" => st = 0
    BY DEF ThreadOK
<1> QED BY <1>1, <1>5, <1>6, <1>7, <1>8 DEF rest

(* What a store writes are cells.                                          *)
LEMMA BytesAreCells ==
    ASSUME ThreadsInv, CellsInv, NEW t \in Threads, Does(t, "store")
    PROVE  \A i \in 1..Head(todo[t]).size : Bytes(t)[i] \in CellType
<1> DEFINE op == Head(todo[t])
           n == StolenSize(todo[t], call[t], buffer[t])
<1>1. todo[t] # <<>> /\ op.op = "store"
    BY DEF Does
<1>2. WellMade(todo[t], n) /\ buffer[t] \in Seq(CellType)
    BY DEF ThreadsInv, ThreadOK
<1>3. op = todo[t][1] /\ Len(todo[t]) \in Nat \ {0} /\ op \in Ops
    BY <1>1, <1>2, TailIsWellMade
<1>4. n = Len(buffer[t])
    BY <1>1, <1>3 DEF StolenSize
<1> HIDE DEF n
<1>5. /\ op.arg = "stolen" => op.size = Len(buffer[t])
      /\ op.arg \notin {"stolen", "nop"} => op.arg \in Kinds /\ op.size = JUMP_HOOK_SIZE
    <2>1. 1 \in 1..Len(todo[t]) /\ Sources(todo[t], n)
        BY <1>2, <1>3 DEF WellMade
    <2> QED BY <1>1, <1>3, <1>4, <2>1 DEF Sources
<1>6. op.size \in Int
    BY <1>3 DEF Ops
<1>7. Bytes(t) = IF op.arg = "stolen" THEN buffer[t]
                 ELSE IF op.arg = "nop" THEN [i \in 1..op.size |-> Nop]
                 ELSE << <<op.arg, 0>>, <<"operand", operand[op.arg]>> >>
    BY DEF Bytes
<1> HIDE DEF op
<1>8. CASE op.arg = "stolen"
    BY <1>2, <1>5, <1>7, <1>8, ElementOfSeq DEF op
<1>9. CASE op.arg = "nop"
    <2>1. Nop \in CellType
        BY DEF Nop, CellType, Tags
    <2>2. Bytes(t) = [i \in 1..op.size |-> Nop]
        BY <1>7, <1>9
    <2> QED BY <2>1, <2>2 DEF op
<1>10. CASE op.arg \notin {"stolen", "nop"}
    <2>1. op.arg \in Kinds /\ op.size = 2 /\ op.arg \in Tags
        BY <1>5, <1>10, HookAssumption DEF JUMP_HOOK_SIZE, Tags
    <2>2. operand[op.arg] \in Int
        BY <2>1 DEF CellsInv
    <2>3. <<op.arg, 0>> \in CellType /\ <<"operand", operand[op.arg]>> \in CellType
        BY <2>1, <2>2 DEF CellType, Tags
    <2>4. Bytes(t)[1] = <<op.arg, 0>> /\ Bytes(t)[2] = <<"operand", operand[op.arg]>>
        BY <1>7, <1>10
    <2>5. \A i \in 1..op.size : i = 1 \/ i = 2
        BY <2>1
    <2> QED BY <2>3, <2>4, <2>5 DEF op
<1> QED BY <1>8, <1>9, <1>10

(***************************************************************************)
(* Each step keeps the types of what the threads have to do.               *)
(***************************************************************************)
LEMMA InitIsTyped == HookInit => ThreadsInv /\ CellsInv /\ CountInv
<1> SUFFICES ASSUME HookInit PROVE ThreadsInv /\ CellsInv /\ CountInv
    OBVIOUS
<1>1. ThreadsInv
    <2>1. <<>> \in Programs /\ <<>> \in Seq(CellType) /\ NoCall \in CallType
        BY EmptySeq DEF Programs, NoCall, CallType
    <2>2. \A stolen : WellMade(<<>>, stolen)
        BY EmptyIsWellMade
    <2>3. \A addr, size : ReadsOnce(<<>>, addr, size)
        BY DEF ReadsOnce
    <2>4. \A int : ThreadOK(<<>>, NoCall, 0, <<>>, int)
        BY <2>1, <2>2, <2>3 DEF ThreadOK
    <2> QED BY <2>1, <2>4 DEF HookInit, MemoryInit, ThreadsInv
<1>2. CellsInv
    <2>1. memory \in [1..Cells -> CellType]
        <3>1. memory = [a \in 1..Cells |->
                  IF a > CodeSize THEN <<"none", 0>>
                  ELSE IF a = CodeSize \/ a + 1 \in Functions THEN <<"ret", 0>> ELSE <<"code", a>>]
            BY DEF HookInit
        <3>2. <<"none", 0>> \in CellType /\ <<"ret", 0>> \in CellType
              /\ \A a \in 1..Cells : <<"code", a>> \in CellType
            BY DEF CellType, Tags
        <3> QED BY <3>1, <3>2
    <2>2. operand \in [Kinds -> Int] /\ old_protect \in [Threads -> {"rx", "rwx"}]
        BY DEF HookInit, MemoryInit
    <2>3. protect \in [Pages -> {"rx", "rwx"}] /\ first_protect \in [Pages -> {"rx", "rwx"}]
        BY MemoryAssumption DEF HookInit, MemoryInit
    <2> QED BY <2>1, <2>2, <2>3 DEF HookInit, MemoryInit, CellsInv
<1>3. CountInv
    <2>1. Active = {} /\ Cardinality({}) = 0
        BY FS_EmptySet DEF Active, HookInit
    <2>2. calls = 0 /\ log = <<>> /\ <<>> \in Seq({}) /\ Len(<<>>) = 0
        BY EmptySeq DEF HookInit
    <2>3. 0 \in 0..MaxCalls
        BY HookAssumption
    <2> QED BY <2>1, <2>2, <2>3 DEF CountInv
<1> QED BY <1>1, <1>2, <1>3

LEMMA CallKeepsThreads ==
    ASSUME ThreadsInv, CountInv, NEW t \in Threads, NEW function \in Functions, NEW size \in Sizes,
           NEW kind \in Kinds, NEW keep \in BOOLEAN, Call(t, function, size, kind, keep)
    PROVE  ThreadsInv'
<1> DEFINE target == -(calls + 1)
           original == Allocated(calls + 1)
           c == [NoCall EXCEPT !.function = function, !.size = size, !.target = target,
                               !.kind = kind, !.original = IF keep THEN original ELSE 0]
           prog == IF keep THEN trampoline(kind, function, target, size, original)
                           ELSE jmp(kind, function, target, size)
<1>1. /\ call' = [call EXCEPT ![t] = c] /\ todo' = [todo EXCEPT ![t] = prog]
      /\ UNCHANGED <<stored, buffer, internal>> /\ call[t] = NoCall
      /\ size >= JUMP_HOOK_SIZE /\ calls < MaxCalls
    BY DEF Call
<1>2. calls \in Nat /\ MaxCalls \in Nat \ {0} /\ target \in Int /\ target # 0
    BY <1>1, HookAssumption DEF CountInv
<1>3. original \in Int
    <2>1. Cells - CodeSize \in Int /\ MaxCalls \in Nat \ {0}
        BY <1>2, MemoryAssumption
    <2> DEFINE q == (Cells - CodeSize) \div MaxCalls
    <2>2. q \in Int
        BY <2>1
    <2>3. original = CodeSize + 1 + ((calls + 1) - 1) * q
        BY DEF Allocated
    <2> HIDE DEF q, target, original
    <2>4. (calls + 1) - 1 \in Int
        BY <1>2
    <2>5. ((calls + 1) - 1) * q \in Int
        BY <2>2, <2>4
    <2> QED BY <2>3, <2>5, MemoryAssumption
<1>4. function \in Nat /\ function \in Int /\ size \in Nat /\ kind \in {"absolute", "relative"}
    BY HookAssumption
<1> HIDE DEF target, original
<1>5. c \in CallType /\ c.function = function /\ c.size = size /\ c.target = target /\ NoCall.target = 0
    <2>1. (IF keep THEN original ELSE 0) \in Int /\ NoCall \in CallType
        BY <1>3 DEF NoCall, CallType
    <2>2. NoCall.target = 0
        BY DEF NoCall
    <2> QED BY <1>2, <1>4, <2>1, <2>2 DEF CallType
<1>6. c # NoCall
    BY <1>2, <1>5
<1>7. todo[t] = <<>> /\ buffer[t] = <<>> /\ stored[t] = 0
    <2>1. ThreadOK(todo[t], call[t], stored[t], buffer[t], internal)
        BY DEF ThreadsInv
    <2> QED BY <1>1, <2>1 DEF ThreadOK
<1>8. WellMade(prog, StolenSize(prog, c, <<>>)) /\ ReadsOnce(prog, function, size)
    <2>1. CASE keep
        <3>1. WellMade(prog, size) /\ ReadsOnce(prog, function, size) /\ prog # <<>> /\ prog[1].op = "read"
            BY <1>1, <1>2, <1>3, <1>4, <2>1, TrampolineIsWellMade
        <3> HIDE DEF prog, c
        <3> QED BY <1>5, <3>1 DEF StolenSize
    <2>2. CASE ~ keep
        <3>1. \A stolen : WellMade(prog, stolen) /\ NoRead(prog) /\ prog # <<>>
            BY <1>1, <1>2, <1>3, <1>4, <2>2, JmpIsWellMade
        <3> HIDE DEF prog, c
        <3> QED BY <3>1 DEF ReadsOnce, NoRead
    <2> QED BY <2>1, <2>2
<1> HIDE DEF prog, c
<1>9. ThreadOK(prog, c, 0, <<>>, internal)
    <2>1. <<>> \in Seq(CellType)
        BY EmptySeq
    <2> QED BY <1>2, <1>5, <1>6, <1>8, <2>1 DEF ThreadOK
<1>10. stored' = [stored EXCEPT ![t] = 0] /\ buffer' = [buffer EXCEPT ![t] = <<>>]
    BY <1>1, <1>7, ThreadsStay
<1> QED BY <1>1, <1>9, <1>10, OneThreadMoves

(* A step of the program, that is not its read.                            *)
LEMMA DoneKeepsThreads ==
    ASSUME ThreadsInv, NEW t \in Threads, todo[t] # <<>>, Head(todo[t]).op # "read", Done(t),
           stored' = [stored EXCEPT ![t] = 0], UNCHANGED <<call, buffer, internal>>
    PROVE  ThreadsInv'
<1>1. ThreadOK(Tail(todo[t]), call[t], 0, buffer[t], internal)
    BY ThreadsStay, TailIsOK
<1>2. todo' = [todo EXCEPT ![t] = Tail(todo[t])]
    BY DEF Done
<1>3. call' = [call EXCEPT ![t] = call[t]] /\ buffer' = [buffer EXCEPT ![t] = buffer[t]]
    BY ThreadsStay
<1> QED BY <1>1, <1>2, <1>3, OneThreadMoves

LEMMA NothingStored ==
    ASSUME ThreadsInv, NEW t \in Threads, todo[t] # <<>>, Head(todo[t]).op # "store"
    PROVE  stored[t] = 0 /\ stored = [stored EXCEPT ![t] = 0]
<1>1. stored[t] = 0
    BY ThreadsStay, TailIsOK
<1> QED BY <1>1, ThreadsStay

LEMMA AllocKeepsThreads ==
    ASSUME ThreadsInv, NEW t \in Threads, Alloc(t)
    PROVE  ThreadsInv'
<1>1. todo[t] # <<>> /\ Head(todo[t]).op = "alloc" /\ UNCHANGED <<stored, buffer, internal>>
    BY DEF Alloc, Does
<1>2. stored[t] = 0 /\ stored' = [stored EXCEPT ![t] = 0]
    BY <1>1, NothingStored
<1>3. CASE Done(t) /\ UNCHANGED call
    BY <1>1, <1>2, <1>3, DoneKeepsThreads
<1>4. CASE UNCHANGED <<todo, call>>
    <2>1. ThreadOK(todo[t], call[t], stored[t], buffer[t], internal)
        BY ThreadsStay
    <2> QED BY <1>1, <1>4, <2>1, OneThreadMoves, ThreadsStay
<1>5. CASE /\ call' = [call EXCEPT ![t].original = 0]
           /\ \E i \in 1..Len(todo[t]) :
                 todo[t][i].op = "memcpy" /\ todo' = [todo EXCEPT ![t] = << @[i] >>]
    <2> DEFINE c == [call[t] EXCEPT !.original = 0]
    <2>1. call' = [call EXCEPT ![t] = c]
        BY <1>5
    <2>a. PICK i \in 1..Len(todo[t]) :
              todo[t][i].op = "memcpy" /\ todo' = [todo EXCEPT ![t] = << todo[t][i] >>]
        BY <1>5
    <2> DEFINE prog == << todo[t][i] >>
    <2>b. \A stolen : WellMade(prog, stolen) /\ NoRead(prog) /\ prog[1].op # "read"
        <3>1. todo[t] \in Programs /\ Memcpys(todo[t])
            BY DEF ThreadsInv, ThreadOK, WellMade
        <3>2. todo[t][i] \in Ops /\ todo[t][i].arg \in Kinds
            BY <2>a, <3>1 DEF Programs, Memcpys
        <3> DEFINE o == todo[t][i]
        <3>3. o = Op("memcpy", o.addr, o.size, o.arg) /\ o.addr \in Int /\ o.size \in Int /\ o.arg \in Args
            BY <2>a, <3>2 DEF Op, Ops
        <3> HIDE DEF o
        <3>4. \A stolen : /\ WellMade(<<Op("memcpy", o.addr, o.size, o.arg)>>, stolen)
                          /\ NoRead(<<Op("memcpy", o.addr, o.size, o.arg)>>)
            BY <3>2, <3>3, OneIsWellMade DEF o
        <3> QED BY <2>a, <3>3, <3>4 DEF o
    <2> HIDE DEF prog
    <2>2. call[t] # NoCall /\ call[t] \in CallType /\ buffer[t] \in Seq(CellType)
          /\ call[t].function \in Functions /\ call[t].size \in Sizes /\ call[t].target # 0
        <3>1. ThreadOK(todo[t], call[t], stored[t], buffer[t], internal)
            BY DEF ThreadsInv
        <3> QED BY <1>1, <3>1, TailIsOK DEF ThreadOK
    <2>3. c \in CallType /\ c.function \in Functions /\ c.size \in Sizes /\ c.target # 0 /\ NoCall.target = 0
        BY <2>2 DEF CallType, NoCall
    <2> HIDE DEF c
    <2>4. c # NoCall
        BY <2>3
    <2>5. ThreadOK(prog, c, 0, buffer[t], internal)
        <3>2. \A addr, size : ReadsOnce(prog, addr, size)
            BY <2>b DEF ReadsOnce, NoRead
        <3> QED BY <2>2, <2>3, <2>4, <2>b, <3>2 DEF ThreadOK
    <2>6. buffer' = [buffer EXCEPT ![t] = buffer[t]] /\ UNCHANGED internal
          /\ todo' = [todo EXCEPT ![t] = prog] /\ stored' = [stored EXCEPT ![t] = 0]
        BY <1>1, <1>2, <2>a, ThreadsStay DEF prog
    <2> QED BY <2>1, <2>5, <2>6, OneThreadMoves
<1> QED BY <1>3, <1>4, <1>5 DEF Alloc

LEMMA StealKeepsThreads ==
    ASSUME ThreadsInv, CellsInv, NEW t \in Threads, Steal(t)
    PROVE  ThreadsInv'
<1> DEFINE op == Head(todo[t])
<1>0. PICK got \in 0..op.size :
          buffer' = [buffer EXCEPT ![t] =
              [i \in 1..op.size |-> IF i <= got THEN memory[op.addr + i - 1] ELSE Unset]]
    BY DEF Steal, Read
<1> DEFINE new == [i \in 1..op.size |-> IF i <= got THEN memory[op.addr + i - 1] ELSE Unset]
<1>1. /\ todo[t] # <<>> /\ op.op = "read" /\ UNCHANGED <<stored, call, internal>>
      /\ buffer' = [buffer EXCEPT ![t] = new] /\ todo' = [todo EXCEPT ![t] = Tail(todo[t])]
    BY <1>0 DEF Steal, Read, Does, Done
<1>2. ThreadOK(todo[t], call[t], stored[t], buffer[t], internal)
    BY DEF ThreadsInv
<1>3. op.addr = call[t].function /\ op.size = call[t].size
      /\ call[t].function \in Functions /\ call[t].size \in Sizes
    BY <1>1, <1>2, TailIsOK
<1>4. op.addr \in Nat \ {0} /\ op.size \in Nat /\ op.addr + op.size - 1 <= Cells
    BY <1>3, HookAssumption
<1>5. stored' = [stored EXCEPT ![t] = 0]
    BY <1>1, NothingStored
<1>6. \A n \in Seq(CellType) : Len(n) = op.size => ThreadOK(Tail(todo[t]), call[t], 0, n, internal)
    BY <1>1, <1>2, TailIsOK
<1> HIDE DEF op
<1>7. new \in Seq(CellType) /\ Len(new) = op.size
    <2>1. Unset \in CellType
        BY DEF Unset, CellType, Tags
    <2>2. ASSUME NEW i \in 1..op.size, i <= got PROVE memory[op.addr + i - 1] \in CellType
        <3>1. op.addr + i - 1 \in 1..Cells
            BY <1>4, MemoryAssumption
        <3> QED BY <3>1 DEF CellsInv
    <2>3. new \in [1..op.size -> CellType]
        BY <2>1, <2>2
    <2> HIDE DEF new
    <2> QED BY <1>4, <2>3
<1> HIDE DEF new
<1>8. ThreadOK(Tail(todo[t]), call[t], 0, new, internal)
    BY <1>6, <1>7
<1>9. call' = [call EXCEPT ![t] = call[t]]
    BY <1>1, ThreadsStay
<1> QED BY <1>1, <1>5, <1>8, <1>9, OneThreadMoves

LEMMA WriteKeepsThreads ==
    ASSUME ThreadsInv, NEW t \in Threads, WriteStep(t)
    PROVE  ThreadsInv'
<1>1. UNCHANGED <<call, buffer, internal>>
    BY DEF WriteStep, hook_vars, Protect, Restore, ProtectFails, Store, StoreExternal
<1>2. todo[t] # <<>> /\ Head(todo[t]).op # "read"
    BY DEF WriteStep, Protect, Restore, ProtectFails, Store, StoreExternal, Does
<1>3. ThreadOK(todo[t], call[t], stored[t], buffer[t], internal)
    BY DEF ThreadsInv
<1>4. CASE Protect(t) \/ Restore(t) \/ ProtectFails(t)
    <2>1. Done(t) /\ UNCHANGED stored /\ Head(todo[t]).op # "store"
        BY <1>4 DEF Protect, Restore, ProtectFails, Does
    <2> QED BY <1>1, <1>2, <2>1, NothingStored, DoneKeepsThreads
<1>5. CASE StoreExternal(t, Bytes(t))
    <2>1. Done(t) /\ UNCHANGED stored /\ ~ internal
        BY <1>5 DEF StoreExternal
    <2>2. stored[t] = 0
        BY <1>3, <2>1 DEF ThreadOK
    <2> QED BY <1>1, <1>2, <2>1, <2>2, ThreadsStay, DoneKeepsThreads
<1>6. CASE Store(t, Bytes(t))
    <2>1. CASE stored' = [stored EXCEPT ![t] = 0] /\ Done(t)
        BY <1>1, <1>2, <2>1, DoneKeepsThreads
    <2>2. CASE stored[t] + 1 < Head(todo[t]).size /\ stored' = [stored EXCEPT ![t] = @ + 1] /\ UNCHANGED todo
        <3>1. internal /\ Head(todo[t]).op = "store"
            BY <1>6 DEF Store, Does
        <3>2. stored[t] \in Nat /\ stored' = [stored EXCEPT ![t] = stored[t] + 1]
            BY <1>3, <2>2 DEF ThreadOK
        <3>3. stored[t] + 1 \in Nat /\ stored[t] + 1 > 0
            BY <3>2
        <3>4. ThreadOK(todo[t], call[t], stored[t] + 1, buffer[t], internal)
            BY <1>2, <1>3, <2>2, <3>1, <3>3 DEF ThreadOK
        <3>5. /\ todo' = [todo EXCEPT ![t] = todo[t]] /\ call' = [call EXCEPT ![t] = call[t]]
              /\ buffer' = [buffer EXCEPT ![t] = buffer[t]]
            BY <1>1, <2>2, ThreadsStay
        <3> QED BY ZenonT(30), <1>1, <3>2, <3>4, <3>5, OneThreadMoves
    <2>3. CASE UNCHANGED <<stored, todo>>
        BY <1>1, <1>3, <2>3, OneThreadMoves, ThreadsStay
    <2> QED BY <1>6, <2>1, <2>2, <2>3 DEF Store
<1> QED BY <1>4, <1>5, <1>6 DEF WriteStep

LEMMA ReturnKeepsThreads ==
    ASSUME ThreadsInv, NEW t \in Threads, Return(t)
    PROVE  ThreadsInv'
<1>1. /\ todo[t] = <<>> /\ call' = [call EXCEPT ![t] = NoCall] /\ buffer' = [buffer EXCEPT ![t] = <<>>]
      /\ UNCHANGED <<todo, stored, internal>>
    BY DEF Return
<1>2. stored[t] = 0
    BY <1>1 DEF ThreadsInv, ThreadOK
<1>3. ThreadOK(<<>>, NoCall, 0, <<>>, internal)
    <2>1. <<>> \in Seq(CellType) /\ NoCall \in CallType
        BY EmptySeq DEF NoCall, CallType
    <2>2. \A stolen : WellMade(<<>>, stolen)
        BY EmptyIsWellMade
    <2>3. \A addr, size : ReadsOnce(<<>>, addr, size)
        BY DEF ReadsOnce
    <2> QED BY <2>1, <2>2, <2>3 DEF ThreadOK
<1>4. stored' = [stored EXCEPT ![t] = 0] /\ todo' = [todo EXCEPT ![t] = <<>>]
    BY <1>1, <1>2, ThreadsStay
<1> QED BY <1>1, <1>3, <1>4, OneThreadMoves

LEMMA ThreadsStep ==
    ASSUME ThreadsInv, CellsInv, CountInv, [HookNext]_hooking_vars
    PROVE  ThreadsInv'
<1>1. CASE UNCHANGED hooking_vars
    BY <1>1 DEF hooking_vars, hook_vars, ThreadsInv
<1>2. ASSUME NEW t \in Threads, NEW size \in Sizes, Refuse(t, size) PROVE ThreadsInv'
    BY <1>2 DEF Refuse, ThreadsInv
<1>3. ASSUME NEW t \in Threads, NEW function \in Functions, NEW size \in Sizes, NEW kind \in Kinds,
             NEW keep \in BOOLEAN, Call(t, function, size, kind, keep)
      PROVE  ThreadsInv'
    BY <1>3, CallKeepsThreads
<1>4. ASSUME NEW t \in Threads, Memcpy(t) PROVE ThreadsInv'
    <2>1. todo[t] # <<>> /\ Head(todo[t]).op = "memcpy" /\ Done(t) /\ UNCHANGED <<stored, call, buffer, internal>>
        BY <1>4 DEF Memcpy, Does
    <2> QED BY <2>1, NothingStored, DoneKeepsThreads
<1>5. ASSUME NEW t \in Threads, Alloc(t) \/ Steal(t) \/ WriteStep(t) \/ Return(t) PROVE ThreadsInv'
    BY <1>5, AllocKeepsThreads, StealKeepsThreads, WriteKeepsThreads, ReturnKeepsThreads
<1> QED BY <1>1, <1>2, <1>3, <1>4, <1>5 DEF HookNext

(***************************************************************************)
(* The memory, its protection and the counts.                              *)
(***************************************************************************)
LEMMA PagesAre ==
    /\ Pages \subseteq Nat
    /\ \A addr, size : PagesOf(addr, size) \subseteq Pages
    /\ \A pages \in SUBSET Pages : pages # {} =>
           (CHOOSE p \in pages : \A q \in pages : p <= q) \in pages
<1>1. Pages \subseteq Nat
    <2>1. (CodeSize + PageSize - 1) \div PageSize \in Int
        BY MemoryAssumption
    <2> QED BY <2>1 DEF Pages
<1>2. ASSUME NEW pages \in SUBSET Pages, pages # {}
      PROVE  (CHOOSE p \in pages : \A q \in pages : p <= q) \in pages
    <2>1. \E p \in pages : \A q \in pages : p <= q
        BY <1>1, <1>2, LeastExists
    <2> QED BY <2>1
<1>3. \A addr, size : PagesOf(addr, size) \subseteq Pages
    BY DEF PagesOf
<1> QED BY <1>1, <1>2, <1>3

LEMMA MemoryStep ==
    ASSUME ThreadsInv, CellsInv, [HookNext]_hooking_vars
    PROVE  memory' \in [1..Cells -> CellType]
<1>1. memory \in [1..Cells -> CellType]
    BY DEF CellsInv
<1>2. CASE UNCHANGED memory
    BY <1>1, <1>2
<1>3. ASSUME NEW t \in Threads, Store(t, Bytes(t)) PROVE memory' \in [1..Cells -> CellType]
    <2> DEFINE op == Head(todo[t])
               addr == op.addr + stored[t]
               byte == Bytes(t)[stored[t] + 1]
    <2>1. UNCHANGED memory \/ memory' = [memory EXCEPT ![addr] = byte]
        BY <1>3 DEF Store
    <2>2. Does(t, "store")
        BY <1>3 DEF Store
    <2>3. op.size \in Int /\ op.size > 0 /\ stored[t] \in Nat /\ (stored[t] > 0 => stored[t] < op.size)
        <3>1. todo[t] # <<>> /\ op.op = "store"
            BY <2>2 DEF Does
        <3>2. ThreadOK(todo[t], call[t], stored[t], buffer[t], internal)
            BY DEF ThreadsInv
        <3>3. WellMade(todo[t], StolenSize(todo[t], call[t], buffer[t]))
            BY <3>2 DEF ThreadOK
        <3>4. op = todo[t][1] /\ op \in Ops /\ Len(todo[t]) \in Nat \ {0}
            BY <3>1, <3>3, TailIsWellMade
        <3>5. 1 \in 1..Len(todo[t])
            BY <3>4
        <3>6. op.size > 0
            BY <3>1, <3>3, <3>4, <3>5 DEF WellMade, Sources
        <3>7. op.size \in Int
            BY <3>4 DEF Ops
        <3> QED BY <3>2, <3>6, <3>7 DEF ThreadOK
    <2>4. byte \in CellType
        <3> HIDE DEF op
        <3>1. ASSUME NEW i \in Int, i = stored[t] + 1 PROVE i \in 1..op.size
            BY <2>3, <3>1
        <3>2. \A i \in 1..op.size : Bytes(t)[i] \in CellType
            BY <2>2, BytesAreCells DEF op
        <3>3. stored[t] + 1 \in Int
            BY <2>3
        <3> QED BY <3>1, <3>2, <3>3
    <2> HIDE DEF byte, addr
    <2> QED BY <1>1, <2>1, <2>4
<1>4. ASSUME NEW t \in Threads, StoreExternal(t, Bytes(t)) PROVE memory' \in [1..Cells -> CellType]
    <2> DEFINE op == Head(todo[t])
    <2>1. PICK n \in 0..op.size :
              memory' = [a \in 1..Cells |-> IF a \in op.addr..(op.addr + n - 1)
                                           THEN Bytes(t)[a - op.addr + 1] ELSE memory[a]]
        BY <1>4 DEF StoreExternal
    <2>2. Does(t, "store")
        BY <1>4 DEF StoreExternal
    <2>3. op.addr \in Int /\ op.size \in Int
        <3>1. todo[t] # <<>> /\ WellMade(todo[t], StolenSize(todo[t], call[t], buffer[t]))
            BY <2>2 DEF Does, ThreadsInv, ThreadOK
        <3> QED BY <3>1, TailIsWellMade DEF Ops
    <2>4. \A i \in 1..op.size : Bytes(t)[i] \in CellType
        BY <2>2, BytesAreCells
    <2> HIDE DEF op
    <2>5. \A a \in 1..Cells : a \in op.addr..(op.addr + n - 1) => Bytes(t)[a - op.addr + 1] \in CellType
        <3> SUFFICES ASSUME NEW a \in 1..Cells, a \in op.addr..(op.addr + n - 1)
                     PROVE  Bytes(t)[a - op.addr + 1] \in CellType
            OBVIOUS
        <3>1. a - op.addr + 1 \in 1..op.size
            BY <2>3
        <3> QED BY <2>4, <3>1
    <2> QED BY <1>1, <2>1, <2>5
<1>5. ASSUME NEW t \in Threads, WriteStep(t), ~ Store(t, Bytes(t)), ~ StoreExternal(t, Bytes(t))
      PROVE  UNCHANGED memory
    BY <1>5 DEF WriteStep, Protect, Restore, ProtectFails
<1>6. ASSUME NEW t \in Threads, Memcpy(t) \/ Alloc(t) \/ Steal(t) \/ Return(t) PROVE UNCHANGED memory
    BY <1>6 DEF Memcpy, Alloc, Steal, Read, Return
<1>7. ASSUME NEW t \in Threads, NEW function, NEW size, NEW kind, NEW keep,
             Refuse(t, size) \/ Call(t, function, size, kind, keep)
      PROVE  UNCHANGED memory
    BY <1>7 DEF Refuse, Call
<1>8. CASE UNCHANGED hooking_vars
    BY <1>2, <1>8 DEF hooking_vars
<1> QED BY <1>2, <1>3, <1>4, <1>5, <1>6, <1>7, <1>8 DEF HookNext

LEMMA OperandStep ==
    ASSUME ThreadsInv, CellsInv, [HookNext]_hooking_vars
    PROVE  operand' \in [Kinds -> Int]
<1>1. operand \in [Kinds -> Int]
    BY DEF CellsInv
<1>2. ASSUME NEW t \in Threads, Memcpy(t) PROVE operand' \in [Kinds -> Int]
    <2>1. todo[t] # <<>> /\ WellMade(todo[t], StolenSize(todo[t], call[t], buffer[t]))
        BY <1>2 DEF Memcpy, Does, ThreadsInv, ThreadOK
    <2>2. Head(todo[t]) \in Ops
        BY <2>1, TailIsWellMade
    <2>3. Head(todo[t]).size \in Int
        BY <2>2 DEF Ops
    <2> QED BY <1>1, <1>2, <2>3 DEF Memcpy
<1>3. ASSUME NEW t \in Threads, Alloc(t) \/ Steal(t) \/ WriteStep(t) \/ Return(t) PROVE UNCHANGED operand
    BY <1>3 DEF Alloc, Steal, WriteStep, Return, hook_vars
<1>4. ASSUME NEW t \in Threads, NEW function, NEW size, NEW kind, NEW keep,
             Refuse(t, size) \/ Call(t, function, size, kind, keep)
      PROVE  UNCHANGED operand
    BY <1>4 DEF Refuse, Call
<1>5. CASE UNCHANGED hooking_vars
    BY <1>1, <1>5 DEF hooking_vars, hook_vars
<1> QED BY <1>1, <1>2, <1>3, <1>4, <1>5 DEF HookNext

Protection == {"rx", "rwx"}

LEMMA ProtectStep ==
    ASSUME CellsInv, [HookNext]_hooking_vars
    PROVE  /\ protect' \in [Pages -> Protection] /\ old_protect' \in [Threads -> Protection]
           /\ mixed' \subseteq Pages /\ UNCHANGED first_protect
<1>1. protect \in [Pages -> Protection] /\ old_protect \in [Threads -> Protection] /\ mixed \subseteq Pages
    BY DEF CellsInv, Protection
<1>2. "rx" \in Protection /\ "rwx" \in Protection
    BY DEF Protection
<1> DEFINE Goal == /\ protect' \in [Pages -> Protection] /\ old_protect' \in [Threads -> Protection]
                   /\ mixed' \subseteq Pages /\ UNCHANGED first_protect
<1>3. ASSUME NEW t \in Threads, Protect(t) PROVE Goal
    <2> DEFINE pages == PagesOf(Head(todo[t]).addr, Head(todo[t]).size)
               first == CHOOSE p \in pages : \A q \in pages : p <= q
    <2>1. /\ protect' = [p \in Pages |-> IF p \in pages THEN "rwx" ELSE protect[p]]
          /\ old_protect' = [old_protect EXCEPT ![t] = IF pages = {} THEN "rwx" ELSE protect[first]]
          /\ mixed' = mixed \cup {p \in pages : protect[p] # protect[first]}
          /\ UNCHANGED first_protect
        BY <1>3 DEF Protect
    <2>2. pages \subseteq Pages /\ (pages # {} => first \in pages)
        BY PagesAre
    <2> HIDE DEF pages, first
    <2>3. (IF pages = {} THEN "rwx" ELSE protect[first]) \in Protection
        BY <1>1, <1>2, <2>2
    <2>4. old_protect' \in [Threads -> Protection]
        BY <1>1, <2>1, <2>3
    <2>5. protect' \in [Pages -> Protection]
        BY <1>1, <1>2, <2>1
    <2> QED BY <1>1, <2>1, <2>2, <2>4, <2>5
<1>4. ASSUME NEW t \in Threads, Restore(t) PROVE Goal
    <2> DEFINE pages == PagesOf(Head(todo[t]).addr, Head(todo[t]).size)
    <2>1. /\ protect' = [p \in Pages |-> IF p \in pages THEN old_protect[t] ELSE protect[p]]
          /\ old_protect' = [old_protect EXCEPT ![t] = "rwx"]
          /\ UNCHANGED <<first_protect, mixed>>
        BY <1>4 DEF Restore
    <2> HIDE DEF pages
    <2> QED BY <1>1, <1>2, <2>1
<1>a. ASSUME NEW t \in Threads, ProtectFails(t) PROVE Goal
    <2>1. PICK unset \in {"rx", "rwx"} :
              /\ old_protect' = [old_protect EXCEPT ![t] =
                                    IF Head(todo[t]).op = "protect" THEN unset ELSE "rwx"]
              /\ UNCHANGED <<protect, first_protect, mixed>>
        BY <1>a DEF ProtectFails
    <2>2. (IF Head(todo[t]).op = "protect" THEN unset ELSE "rwx") \in Protection
        BY DEF Protection
    <2> QED BY <1>1, <2>1, <2>2
<1>5. ASSUME UNCHANGED <<page_vars, first_protect>> PROVE Goal
    BY <1>1, <1>5 DEF page_vars
<1>6. ASSUME NEW t \in Threads, WriteStep(t), ~ Protect(t), ~ Restore(t), ~ ProtectFails(t)
      PROVE  UNCHANGED <<page_vars, first_protect>>
    BY <1>6 DEF WriteStep, Store, StoreExternal
<1>7. ASSUME NEW t \in Threads, Memcpy(t) \/ Alloc(t) \/ Steal(t) \/ Return(t)
      PROVE  UNCHANGED <<page_vars, first_protect>>
    BY <1>7 DEF Memcpy, Alloc, Steal, Read, Return
<1>8. ASSUME NEW t \in Threads, NEW function, NEW size, NEW kind, NEW keep,
             Refuse(t, size) \/ Call(t, function, size, kind, keep)
      PROVE  UNCHANGED <<page_vars, first_protect>>
    BY <1>8 DEF Refuse, Call
<1>9. ASSUME UNCHANGED hooking_vars PROVE Goal
    BY <1>5, <1>9 DEF hooking_vars
<1> HIDE DEF Goal
<1>10. ASSUME NEW t \in Threads, WriteStep(t) PROVE Goal
    BY <1>3, <1>4, <1>a, <1>5, <1>6, <1>10
<1>11. ASSUME HookNext PROVE Goal
    BY Zenon, <1>5, <1>7, <1>8, <1>10, <1>11 DEF HookNext
<1>12. Goal
    BY <1>9, <1>11
<1> QED BY <1>12 DEF Goal

LEMMA FlagsStep ==
    ASSUME CellsInv, [HookNext]_hooking_vars
    PROVE  internal' \in BOOLEAN /\ crashed' \in BOOLEAN /\ disturbed' \in BOOLEAN /\ UNCHANGED internal
<1>1. internal \in BOOLEAN /\ crashed \in BOOLEAN /\ disturbed \in BOOLEAN
    BY DEF CellsInv
<1>2. ASSUME NEW a \in BOOLEAN, NEW b PROVE (a \/ b) \in BOOLEAN
    OBVIOUS
<1>3. ASSUME NEW t \in Threads, WriteStep(t) PROVE UNCHANGED internal
    BY <1>3 DEF WriteStep, Protect, Restore, ProtectFails, Store, StoreExternal
<1>4. ASSUME NEW t \in Threads, Memcpy(t) \/ Alloc(t) \/ Steal(t) \/ Return(t) PROVE UNCHANGED internal
    BY <1>4 DEF Memcpy, Alloc, Steal, Read, Return
<1>5. ASSUME NEW t \in Threads, NEW function, NEW size, NEW kind, NEW keep,
             Refuse(t, size) \/ Call(t, function, size, kind, keep)
      PROVE  UNCHANGED internal /\ crashed' \in BOOLEAN /\ disturbed' \in BOOLEAN
    BY Zenon, <1>1, <1>2, <1>5 DEF Refuse, Call
<1>6. CASE UNCHANGED hooking_vars
    BY <1>1, <1>6 DEF hooking_vars
<1>7. ASSUME NEW t \in Threads, WriteStep(t) PROVE crashed' \in BOOLEAN
    BY Zenon, <1>1, <1>7 DEF WriteStep, Protect, Restore, ProtectFails, Store, StoreExternal
<1>8. ASSUME NEW t \in Threads, WriteStep(t) PROVE disturbed' \in BOOLEAN
    <2>1. TRUE \in BOOLEAN
        OBVIOUS
    <2>2. ASSUME StoreExternal(t, Bytes(t)) PROVE disturbed' \in BOOLEAN
        BY <1>1, <2>2 DEF StoreExternal
    <2> QED BY Zenon, <1>1, <1>2, <1>8, <2>1, <2>2 DEF WriteStep, Protect, Restore, ProtectFails, Store
<1>9. ASSUME NEW t \in Threads, Memcpy(t) \/ Alloc(t) \/ Steal(t) \/ Return(t) PROVE crashed' \in BOOLEAN
    BY Zenon, <1>1, <1>9 DEF Memcpy, Alloc, Steal, Read, Return
<1>10. ASSUME NEW t \in Threads, Memcpy(t) \/ Alloc(t) \/ Steal(t) \/ Return(t) PROVE disturbed' \in BOOLEAN
    <2>1. TRUE \in BOOLEAN
        OBVIOUS
    <2>2. ASSUME Steal(t) PROVE disturbed' \in BOOLEAN
        BY <1>1, <2>2 DEF Steal, Read
    <2> QED BY Zenon, <1>1, <1>2, <1>10, <2>1, <2>2 DEF Memcpy, Alloc, Return
<1> QED BY Zenon, <1>1, <1>3, <1>4, <1>5, <1>6, <1>7, <1>8, <1>9, <1>10 DEF HookNext

LEMMA CellsStep ==
    ASSUME ThreadsInv, CellsInv, [HookNext]_hooking_vars
    PROVE  CellsInv'
<1>1. /\ protect' \in [Pages -> {"rx", "rwx"}] /\ old_protect' \in [Threads -> {"rx", "rwx"}]
      /\ mixed' \subseteq Pages /\ UNCHANGED first_protect
    BY ProtectStep DEF Protection
<1>2. first_protect \in [Pages -> {"rx", "rwx"}]
    BY DEF CellsInv
<1> QED BY <1>1, <1>2, MemoryStep, OperandStep, FlagsStep DEF CellsInv

LEMMA CallsAreCounted ==
    ASSUME CountInv
    PROVE  /\ IsFiniteSet(Active) /\ Cardinality(Active) \in Nat /\ Len(log) \in Nat
           /\ calls \in Nat /\ MaxCalls \in Nat /\ calls <= MaxCalls
<1>1. IsFiniteSet(Active)
    BY MemoryAssumption, FS_Subset DEF Active
<1>2. Len(log) \in Nat
    BY LenProperties DEF CountInv
<1>3. calls \in Nat /\ MaxCalls \in Nat /\ calls <= MaxCalls
    BY HookAssumption DEF CountInv
<1> QED BY <1>1, <1>2, <1>3, FS_CardinalityType

LEMMA CountStep ==
    ASSUME ThreadsInv, CountInv, [HookNext]_hooking_vars
    PROVE  CountInv'
<1>1. calls \in 0..MaxCalls /\ (\E S : log \in Seq(S)) /\ Len(log) + Cardinality(Active) <= calls
    BY DEF CountInv
<1>2. call \in [Threads -> CallType]
    BY DEF ThreadsInv
<1>3. ASSUME Active' = Active, UNCHANGED <<calls, log>> PROVE CountInv'
    BY <1>1, <1>3 DEF CountInv
<1>4. ASSUME NEW t \in Threads, NEW size \in Sizes, Refuse(t, size) PROVE CountInv'
    <2>1. calls < MaxCalls /\ calls' = calls + 1 /\ UNCHANGED <<call, log>>
        BY <1>4 DEF Refuse
    <2>2. Active' = Active
        BY <2>1 DEF Active
    <2> QED BY <1>1, <2>1, <2>2, CallsAreCounted DEF CountInv
<1>5. ASSUME NEW t \in Threads, NEW function \in Functions, NEW size \in Sizes, NEW kind \in Kinds,
             NEW keep \in BOOLEAN, Call(t, function, size, kind, keep)
      PROVE  CountInv'
    <2>1. calls < MaxCalls /\ calls' = calls + 1 /\ UNCHANGED log /\ call[t] = NoCall
        BY <1>5 DEF Call
    <2>2. \A u \in Threads \ {t} : call'[u] = call[u]
        BY <1>2, <1>5 DEF Call
    <2>3. t \notin Active /\ (Active' = Active \cup {t} \/ Active' = Active)
        BY <2>1, <2>2 DEF Active
    <2>4. Cardinality(Active') <= Cardinality(Active) + 1 /\ Cardinality(Active') \in Nat
        BY <2>3, CallsAreCounted, FS_AddElement
    <2> QED BY <1>1, <2>1, <2>4, CallsAreCounted DEF CountInv
<1>6. ASSUME NEW t \in Threads, Return(t) PROVE CountInv'
    <2> DEFINE entry == [call[t] EXCEPT
                  !.before  = before[t],
                  !.movable = \A i \in 1..Len(buffer[t]) : buffer[t][i][1] # "relative"]
    <2>1. /\ call[t] # NoCall /\ log' = Append(log, entry) /\ call' = [call EXCEPT ![t] = NoCall]
          /\ UNCHANGED calls
        BY <1>6 DEF Return
    <2> HIDE DEF entry
    <2>2. Active' = Active \ {t} /\ t \in Active
        BY <1>2, <2>1 DEF Active
    <2>3. Cardinality(Active') = Cardinality(Active) - 1
        BY <2>2, CallsAreCounted, FS_RemoveElement
    <2>4. PICK S : log \in Seq(S)
        BY <1>1
    <2>5. log \in Seq(S \cup {entry}) /\ entry \in S \cup {entry}
        BY <2>4, SeqMonotonic
    <2>6. log' \in Seq(S \cup {entry}) /\ Len(log') = Len(log) + 1
        BY <2>1, <2>5, AppendProperties
    <2> QED BY <1>1, <2>1, <2>3, <2>6, CallsAreCounted DEF CountInv
<1>7. ASSUME NEW t \in Threads, Memcpy(t) \/ Steal(t) \/ WriteStep(t) PROVE CountInv'
    <2>1. UNCHANGED <<call, calls, log>>
        BY <1>7 DEF Memcpy, Steal, WriteStep, hook_vars
    <2>2. Active' = Active
        BY <2>1 DEF Active
    <2> QED BY <1>3, <2>1, <2>2
<1>8. ASSUME NEW t \in Threads, Alloc(t) PROVE CountInv'
    <2>1. UNCHANGED <<calls, log>> /\ todo[t] # <<>>
        BY <1>8 DEF Alloc, Does
    <2>2. CASE UNCHANGED call
        <3>1. Active' = Active
            BY <2>2 DEF Active
        <3> QED BY <1>3, <2>1, <3>1
    <2>3. CASE call' = [call EXCEPT ![t].original = 0]
        <3>1. call[t] # NoCall /\ call[t].target # 0
            BY <2>1 DEF ThreadsInv, ThreadOK
        <3>2. \A u \in Threads \ {t} : call'[u] = call[u]
            BY <1>2, <2>3
        <3>3. call'[t].target = call[t].target /\ NoCall.target = 0
            BY <1>2, <2>3 DEF CallType, NoCall
        <3>4. call'[t] # NoCall
            BY <3>1, <3>3
        <3>5. Active' = Active
            BY <3>1, <3>2, <3>4 DEF Active
        <3> QED BY <1>3, <2>1, <3>5
    <2> QED BY <1>8, <2>2, <2>3 DEF Alloc
<1>9. CASE UNCHANGED hooking_vars
    <2>1. UNCHANGED <<call, calls, log>>
        BY <1>9 DEF hooking_vars, hook_vars
    <2>2. Active' = Active
        BY <2>1 DEF Active
    <2> QED BY <1>3, <2>1, <2>2
<1> QED BY <1>4, <1>5, <1>6, <1>7, <1>8, <1>9 DEF HookNext

LEMMA HookInvHolds == HookSpec => [](ThreadsInv /\ CellsInv /\ CountInv)
<1>1. (ThreadsInv /\ CellsInv /\ CountInv) /\ [HookNext]_hooking_vars => (ThreadsInv /\ CellsInv /\ CountInv)'
    BY ThreadsStep, CellsStep, CountStep
<1> QED BY <1>1, InitIsTyped, PTL DEF HookSpec

(* Every variable of the hooks has its type: a thread outside calls has    *)
(* nothing left to do, and a write stores no more than it was given.       *)
THEOREM HookTypeCorrect == HookSpec => []HookTypeOK
<1>1. ThreadsInv /\ CellsInv /\ CountInv => HookTypeOK
    <2> SUFFICES ASSUME ThreadsInv, CellsInv, CountInv PROVE HookTypeOK
        OBVIOUS
    <2>1. DOMAIN memory = 1..Cells /\ \A a \in 1..Cells : memory[a][1] \in
              {"none", "code", "ret", "nop", "operand", "absolute", "relative"}
        BY DEF CellsInv, CellType, Tags
    <2>2. /\ protect \in [Pages -> {"rx", "rwx"}] /\ first_protect \in [Pages -> {"rx", "rwx"}]
          /\ old_protect \in [Threads -> {"rx", "rwx"}] /\ mixed \subseteq Pages
        BY DEF CellsInv
    <2>3. {internal, crashed, disturbed} \subseteq BOOLEAN
        BY Zenon DEF CellsInv
    <2>4. /\ \A t \in Threads : call[t] = NoCall => todo[t] = <<>> /\ buffer[t] = <<>>
          /\ \A t \in Threads : stored[t] > 0 => todo[t] # <<>> /\ stored[t] < Head(todo[t]).size
        BY DEF ThreadsInv, ThreadOK
    <2>5. calls \in 0..MaxCalls /\ Len(log) <= calls
        BY CallsAreCounted DEF CountInv
    <2> QED BY Zenon, <2>1, <2>2, <2>3, <2>4, <2>5 DEF HookTypeOK
<1> QED BY <1>1, HookInvHolds, PTL

-----------------------------------------------------------------------------
(***************************************************************************)
(* The protection of the pages.  Unless two threads have used one page at  *)
(* once, the pages they have made writable are apart; the protection that  *)
(* a thread will give back to a page is the one it had in the beginning.   *)
(***************************************************************************)
HeadPages(prog) ==
    IF prog # <<>> /\ Head(prog).op \in {"store", "restore"}
    THEN PagesOf(Head(prog).addr, Head(prog).size) ELSE {}

Opened == [t \in Threads |-> HeadPages(todo[t])]

PagesOK(open, prot, old, mix, first) ==
    /\ \A t, u \in Threads : t # u => open[t] \cap open[u] = {}
    /\ \A t \in Threads : \A p \in open[t] :
          prot[p] = "rwx" /\ (p \notin mix => old[t] = first[p])
    /\ \A p \in Pages \ mix : (\A t \in Threads : p \notin open[t]) => prot[p] = first[p]

PagesInv ==
    /\ ~ disturbed => PagesOK(Opened, protect, old_protect, mixed, first_protect)
    /\ crashed => disturbed

(* In a well made program the only restore before every protect is the     *)
(* first step, or follows a store that is.                                 *)
LEMMA OpenedIs ==
    ASSUME ThreadsInv, NEW t \in Threads
    PROVE  Unprotected(t) = HeadPages(todo[t])
<1> DEFINE s == todo[t]
           open == {i \in 1..Len(s) : s[i].op = "restore" /\ \A k \in 1..i : s[k].op # "protect"}
           P(i) == PagesOf(s[i].addr, s[i].size)
<1>1. Unprotected(t) = UNION {P(i) : i \in open}
    BY DEF Unprotected
<1>2. WellMade(s, StolenSize(s, call[t], buffer[t]))
    BY DEF ThreadsInv, ThreadOK
<1>3. Ordered(s) /\ Len(s) \in Nat /\ (s = <<>> => Len(s) = 0) /\ (s # <<>> => Len(s) # 0 /\ Head(s) = s[1])
    <2>1. s = <<>> => Len(s) = 0
        BY EmptySeq
    <2>2. s # <<>> => Len(s) \in Nat \ {0} /\ Head(s) = s[1]
        BY <1>2, TailIsWellMade
    <2> QED BY <1>2, <2>1, <2>2, LenProperties DEF WellMade, Programs
<1> HIDE DEF s
<1>4. ASSUME NEW i \in open PROVE i = 1 \/ (i = 2 /\ s[1].op = "store")
    <2>1. i \in 1..Len(s) /\ s[i].op = "restore" /\ \A k \in 1..i : s[k].op # "protect"
        OBVIOUS
    <2>2. CASE i # 1
        <3>1. i \in 2..Len(s)
            BY <1>3, <2>1, <2>2
        <3>2. s[i - 1].op = "store"
            BY <1>3, <2>1, <3>1 DEF Ordered
        <3>3. i = 2
            <4> SUFFICES ASSUME i # 2 PROVE FALSE
                OBVIOUS
            <4>1. ASSUME NEW j \in Int, j = i - 1 PROVE FALSE
                <5>1. j \in 2..Len(s) /\ j - 1 \in 1..i /\ s[j].op = "store"
                    BY <1>3, <3>1, <3>2, <4>1
                <5>2. s[j - 1].op = "protect"
                    BY <1>3, <5>1 DEF Ordered
                <5> QED BY <2>1, <5>1, <5>2
            <4> QED BY <3>1, <4>1
        <3>4. s[1].op = "store"
            BY <3>2, <3>3
        <3> QED BY <3>3, <3>4
    <2> QED BY <2>2
<1>5. CASE s = <<>>
    <2>1. open = {}
        BY <1>3, <1>5
    <2> HIDE DEF open
    <2>2. Unprotected(t) = {}
        BY <1>1, <2>1
    <2> QED BY <1>5, <2>2 DEF HeadPages, s
<1>6. CASE s # <<>> /\ s[1].op = "restore"
    <2>1. 1 \in 1..Len(s) /\ \A k \in 1..1 : k = 1
        BY <1>3, <1>6
    <2>2. 1 \in open
        BY <1>6, <2>1
    <2>3. open = {1}
        BY <1>4, <1>6, <2>2
    <2> HIDE DEF open
    <2>4. Unprotected(t) = P(1)
        BY <1>1, <2>3
    <2> QED BY <1>3, <1>6, <2>4 DEF HeadPages, s
<1>7. CASE s # <<>> /\ s[1].op = "store"
    <2>1. 1 \in 1..Len(s)
        BY <1>3, <1>7
    <2>2. 2 \in 1..Len(s) /\ s[2].op = "restore" /\ s[2].addr = s[1].addr /\ s[2].size = s[1].size
        <3>1. Follows(s, 1, "restore")
            BY <1>3, <1>7, <2>1 DEF Ordered
        <3>2. 1 + 1 = 2
            OBVIOUS
        <3> QED BY <3>1, <3>2 DEF Follows
    <2>3. \A k \in 1..2 : k = 1 \/ k = 2
        OBVIOUS
    <2>4. 2 \in open /\ 1 \notin open
        BY <1>7, <2>2, <2>3
    <2>5. open = {2}
        BY <1>4, <2>4
    <2> HIDE DEF open
    <2>6. Unprotected(t) = P(2)
        BY <1>1, <2>5
    <2> QED BY <1>3, <1>7, <2>2, <2>6 DEF HeadPages, s
<1>8. CASE s # <<>> /\ s[1].op \notin {"store", "restore"}
    <2>1. open = {}
        BY <1>4, <1>8
    <2> HIDE DEF open
    <2>2. Unprotected(t) = {}
        BY <1>1, <2>1
    <2> QED BY <1>3, <1>8, <2>2 DEF HeadPages, s
<1> QED BY <1>5, <1>6, <1>7, <1>8

LEMMA FreshIsClosed ==
    ASSUME NEW prog \in Programs, Fresh(prog)
    PROVE  HeadPages(prog) = {}
<1>1. prog # <<>> => Head(prog) = prog[1]
    BY DEF Programs
<1> QED BY <1>1 DEF Fresh, HeadPages

(* Making pages writable that nobody else has.                             *)
MadeWritable(t, pages, open, prot, old, mix, open1, prot1, old1, mix1) ==
    /\ t \in Threads /\ pages \subseteq Pages /\ open \in [Threads -> SUBSET Pages] /\ open[t] = {}
    /\ \A u \in Threads \ {t} : pages \cap open[u] = {}
    /\ \A u \in Threads : open1[u] = IF u = t THEN pages ELSE open[u]
    /\ \A p \in Pages : prot1[p] = IF p \in pages THEN "rwx" ELSE prot[p]
    /\ \A u \in Threads \ {t} : old1[u] = old[u]
    /\ mix \subseteq mix1 /\ \A p \in pages \ mix1 : prot[p] = old1[t]

LEMMA ProtectKeepsPages ==
    ASSUME NEW t, NEW pages, NEW open, NEW prot, NEW old, NEW mix, NEW first,
           PagesOK(open, prot, old, mix, first),
           NEW open1, NEW prot1, NEW old1, NEW mix1,
           MadeWritable(t, pages, open, prot, old, mix, open1, prot1, old1, mix1)
    PROVE  PagesOK(open1, prot1, old1, mix1, first)
<1>1. /\ \A u \in Threads : open1[u] = IF u = t THEN pages ELSE open[u]
      /\ t \in Threads /\ pages \subseteq Pages /\ open \in [Threads -> SUBSET Pages] /\ open[t] = {}
      /\ \A u \in Threads \ {t} : pages \cap open[u] = {}
    BY DEF MadeWritable
<1>2. \A p \in Pages : prot1[p] = IF p \in pages THEN "rwx" ELSE prot[p]
    BY DEF MadeWritable
<1>3. \A u \in Threads \ {t} : old1[u] = old[u]
    BY DEF MadeWritable
<1>5. /\ \A v, u \in Threads : v # u => open[v] \cap open[u] = {}
      /\ \A v \in Threads : \A p \in open[v] :
            prot[p] = "rwx" /\ (p \notin mix => old[v] = first[p])
      /\ \A p \in Pages \ mix : (\A v \in Threads : p \notin open[v]) => prot[p] = first[p]
    BY DEF PagesOK
<1>6. \A p : p \notin mix1 => p \notin mix /\ (p \in pages => prot[p] = old1[t])
    BY DEF MadeWritable
<1>7. \A u \in Threads : open[u] \subseteq Pages
    BY <1>1
<1>8. \A v, u \in Threads : v # u => open1[v] \cap open1[u] = {}
    BY <1>1, <1>5
<1>9. ASSUME NEW u \in Threads, NEW p \in open1[u]
      PROVE  prot1[p] = "rwx" /\ (p \notin mix1 => old1[u] = first[p])
    <2>1. CASE u = t
        <3>1. p \in pages /\ p \in Pages
            BY <1>1, <2>1
        <3>2. \A v \in Threads : p \notin open[v]
            BY <1>1, <3>1
        <3> QED BY <1>2, <1>5, <1>6, <2>1, <3>1, <3>2
    <2>2. CASE u # t
        <3>1. p \in open[u] /\ p \in Pages /\ p \notin pages
            BY <1>1, <1>7, <2>2
        <3> QED BY <1>2, <1>3, <1>5, <1>6, <2>2, <3>1
    <2> QED BY <2>1, <2>2
<1>10. ASSUME NEW p \in Pages \ mix1, \A u \in Threads : p \notin open1[u] PROVE prot1[p] = first[p]
    <2>1. p \notin pages /\ \A u \in Threads : p \notin open[u]
        BY <1>1, <1>10
    <2> QED BY <1>2, <1>5, <1>6, <2>1
<1> QED BY <1>8, <1>9, <1>10 DEF PagesOK

LEMMA RestoreKeepsPages ==
    ASSUME NEW open \in [Threads -> SUBSET Pages], NEW prot, NEW old \in [Threads -> Protection],
           NEW mix, NEW first, PagesOK(open, prot, old, mix, first), NEW t \in Threads
    PROVE  PagesOK([open EXCEPT ![t] = {}],
                   [p \in Pages |-> IF p \in open[t] THEN old[t] ELSE prot[p]],
                   [old EXCEPT ![t] = "rwx"], mix, first)
<1> DEFINE open1 == [open EXCEPT ![t] = {}]
           prot1 == [p \in Pages |-> IF p \in open[t] THEN old[t] ELSE prot[p]]
           old1  == [old EXCEPT ![t] = "rwx"]
<1>1. \A u \in Threads : open1[u] = IF u = t THEN {} ELSE open[u]
    OBVIOUS
<1>2. \A p \in Pages : prot1[p] = IF p \in open[t] THEN old[t] ELSE prot[p]
    OBVIOUS
<1>3. \A u \in Threads \ {t} : old1[u] = old[u]
    OBVIOUS
<1>4. \A u \in Threads : open[u] \subseteq Pages
    OBVIOUS
<1>5. /\ \A v, u \in Threads : v # u => open[v] \cap open[u] = {}
      /\ \A v \in Threads : \A p \in open[v] :
            prot[p] = "rwx" /\ (p \notin mix => old[v] = first[p])
      /\ \A p \in Pages \ mix : (\A v \in Threads : p \notin open[v]) => prot[p] = first[p]
    BY DEF PagesOK
<1> HIDE DEF open1, prot1, old1
<1>6. \A v, u \in Threads : v # u => open1[v] \cap open1[u] = {}
    BY <1>1, <1>5
<1>7. ASSUME NEW u \in Threads, NEW p \in open1[u]
      PROVE  prot1[p] = "rwx" /\ (p \notin mix => old1[u] = first[p])
    <2>1. u # t /\ p \in open[u] /\ p \in Pages
        BY <1>1, <1>4
    <2>2. p \notin open[t]
        BY <1>5, <2>1
    <2> QED BY <1>2, <1>3, <1>5, <2>1, <2>2
<1>8. ASSUME NEW p \in Pages \ mix, \A u \in Threads : p \notin open1[u] PROVE prot1[p] = first[p]
    <2>1. \A u \in Threads \ {t} : p \notin open[u]
        BY <1>1, <1>8
    <2>2. CASE p \in open[t]
        BY <1>2, <1>5, <2>2
    <2>3. CASE p \notin open[t]
        BY <1>2, <1>5, <2>1, <2>3
    <2> QED BY <2>2, <2>3
<1>9. PagesOK(open1, prot1, old1, mix, first)
    BY <1>6, <1>7, <1>8 DEF PagesOK
<1> QED BY <1>9 DEF open1, prot1, old1

LEMMA OpenedMoves ==
    ASSUME ThreadsInv, NEW t \in Threads
    PROVE  /\ \A prog : todo' = [todo EXCEPT ![t] = prog] => Opened' = [Opened EXCEPT ![t] = HeadPages(prog)]
           /\ \A prog : todo' = [todo EXCEPT ![t] = prog] /\ HeadPages(prog) = HeadPages(todo[t])
                  => Opened' = Opened
           /\ Opened \in [Threads -> SUBSET Pages]
<1>1. todo \in [Threads -> Programs]
    BY DEF ThreadsInv
<1>2. \A prog : HeadPages(prog) \subseteq Pages
    BY PagesAre DEF HeadPages
<1>3. ASSUME NEW prog, todo' = [todo EXCEPT ![t] = prog]
      PROVE  Opened' = [Opened EXCEPT ![t] = HeadPages(prog)]
    <2>1. \A u \in Threads : todo'[u] = IF u = t THEN prog ELSE todo[u]
        BY <1>1, <1>3
    <2> QED BY <2>1 DEF Opened
<1>4. Opened = [Opened EXCEPT ![t] = HeadPages(todo[t])]
    BY DEF Opened
<1> QED BY <1>2, <1>3, <1>4 DEF Opened

(* What the rest of a program has made writable.                           *)
LEMMA TailOpens ==
    ASSUME ThreadsInv, NEW t \in Threads, todo[t] # <<>>
    PROVE  LET op == Head(todo[t])
           IN  HeadPages(Tail(todo[t])) = IF op.op \in {"protect", "store"}
                                          THEN PagesOf(op.addr, op.size) ELSE {}
<1> DEFINE s == todo[t]
           n == StolenSize(s, call[t], buffer[t])
<1>1. WellMade(s, n)
    BY DEF ThreadsInv, ThreadOK
<1> HIDE DEF n
<1>2. /\ WellMade(Tail(s), n)
      /\ IF Head(s).op \in {"protect", "store"}
         THEN /\ Tail(s) # <<>>
              /\ Head(Tail(s)).op = IF Head(s).op = "protect" THEN "store" ELSE "restore"
              /\ Head(Tail(s)).addr = Head(s).addr /\ Head(Tail(s)).size = Head(s).size
         ELSE Fresh(Tail(s))
    BY <1>1, TailIsWellMade
<1>3. CASE Head(s).op \in {"protect", "store"}
    BY <1>2, <1>3 DEF HeadPages
<1>4. CASE Head(s).op \notin {"protect", "store"}
    <2>1. Tail(s) \in Programs /\ Fresh(Tail(s))
        BY <1>2, <1>4 DEF WellMade
    <2>2. HeadPages(Tail(s)) = {}
        BY <2>1, FreshIsClosed
    <2> QED BY <1>4, <2>2
<1> QED BY <1>3, <1>4

LEMMA PagesStay ==
    ASSUME PagesInv, Opened' = Opened, UNCHANGED <<page_vars, first_protect>>, disturbed => disturbed'
    PROVE  ~ disturbed' => PagesOK(Opened, protect, old_protect, mixed, first_protect)'
BY Zenon DEF PagesInv, page_vars

(* A store finds its page writable, unless the pages have been used twice. *)
LEMMA StoreFindsItsPage ==
    ASSUME ThreadsInv, PagesInv, ~ disturbed, NEW t \in Threads, Does(t, "store")
    PROVE  Writable(Head(todo[t]).addr + stored[t], 1)
<1> DEFINE op == Head(todo[t])
<1>1. todo[t] # <<>> /\ op.op = "store" /\ ThreadOK(todo[t], call[t], stored[t], buffer[t], internal)
    BY DEF Does, ThreadsInv
<1>2. WellMade(todo[t], StolenSize(todo[t], call[t], buffer[t])) /\ stored[t] \in Nat
      /\ (stored[t] > 0 => stored[t] < op.size)
    BY <1>1 DEF ThreadOK
<1>3. op = todo[t][1] /\ op \in Ops /\ Len(todo[t]) \in Nat \ {0} /\ op.addr \in Int /\ op.size \in Int
    BY <1>1, <1>2, TailIsWellMade DEF Ops
<1>4. op.size > 0
    <2>1. 1 \in 1..Len(todo[t])
        BY <1>3
    <2> QED BY <1>1, <1>2, <1>3, <2>1 DEF WellMade, Sources
<1>5. Opened[t] = PagesOf(op.addr, op.size)
    BY <1>1 DEF Opened, HeadPages
<1> HIDE DEF op
<1>6. PagesOf(op.addr + stored[t], 1) \subseteq PagesOf(op.addr, op.size)
    <2>1. (op.addr + stored[t])..(op.addr + stored[t] + 1 - 1) \subseteq op.addr..(op.addr + op.size - 1)
        BY <1>2, <1>3, <1>4
    <2> QED BY <2>1 DEF PagesOf
<1>7. \A p \in Opened[t] : protect[p] = "rwx"
    BY DEF PagesInv, PagesOK
<1>8. \A p \in PagesOf(op.addr + stored[t], 1) : protect[p] = "rwx"
    BY <1>5, <1>6, <1>7
<1> QED BY <1>8 DEF Writable, op

LEMMA CallKeepsPages ==
    ASSUME ThreadsInv, CountInv, PagesInv, NEW t \in Threads, NEW function \in Functions,
           NEW size \in Sizes, NEW kind \in Kinds, NEW keep \in BOOLEAN,
           Call(t, function, size, kind, keep)
    PROVE  ~ disturbed' => PagesOK(Opened, protect, old_protect, mixed, first_protect)'
<1> DEFINE target == -(calls + 1)
           original == Allocated(calls + 1)
           prog == IF keep THEN trampoline(kind, function, target, size, original)
                           ELSE jmp(kind, function, target, size)
<1>1. /\ todo' = [todo EXCEPT ![t] = prog] /\ call[t] = NoCall /\ size >= JUMP_HOOK_SIZE
      /\ UNCHANGED <<page_vars, first_protect>> /\ (disturbed => disturbed') /\ calls < MaxCalls
    BY DEF Call
<1>2. calls \in Nat /\ MaxCalls \in Nat \ {0} /\ target \in Int /\ function \in Int /\ size \in Nat
    BY <1>1, HookAssumption, CallsAreCounted
<1>3. original \in Int
    <2> DEFINE q == (Cells - CodeSize) \div MaxCalls
    <2>1. q \in Int
        BY <1>2, MemoryAssumption
    <2>2. original = CodeSize + 1 + ((calls + 1) - 1) * q
        BY DEF Allocated
    <2> HIDE DEF q, target, original
    <2>3. (calls + 1) - 1 \in Int
        BY <1>2
    <2>4. ((calls + 1) - 1) * q \in Int
        BY <2>1, <2>3
    <2> QED BY <2>2, <2>4, MemoryAssumption
<1> HIDE DEF target, original
<1>4. Fresh(prog) /\ prog \in Programs
    <2>1. CASE keep
        <3>1. Fresh(prog) /\ WellMade(prog, size)
            BY <1>1, <1>2, <1>3, <2>1, TrampolineIsWellMade
        <3> QED BY <3>1 DEF WellMade
    <2>2. CASE ~ keep
        <3>1. Fresh(prog) /\ WellMade(prog, 0)
            BY <1>1, <1>2, <2>2, JmpIsWellMade
        <3> QED BY <3>1 DEF WellMade
    <2> QED BY <2>1, <2>2
<1> HIDE DEF prog
<1>5. HeadPages(prog) = {}
    BY <1>4, FreshIsClosed
<1>6. HeadPages(todo[t]) = {}
    BY <1>1 DEF ThreadsInv, ThreadOK, HeadPages
<1>7. Opened' = Opened
    BY <1>1, <1>5, <1>6, OpenedMoves
<1> QED BY <1>1, <1>7, PagesStay

LEMMA ProtectPages ==
    ASSUME ThreadsInv, CellsInv, PagesInv, NEW t \in Threads, Protect(t)
    PROVE  ~ disturbed' => PagesOK(Opened, protect, old_protect, mixed, first_protect)'
<1> SUFFICES ASSUME ~ disturbed' PROVE PagesOK(Opened, protect, old_protect, mixed, first_protect)'
    OBVIOUS
<1> DEFINE pages == PagesOf(Head(todo[t]).addr, Head(todo[t]).size)
           first == CHOOSE p \in pages : \A q \in pages : p <= q
<1>1. /\ protect' = [p \in Pages |-> IF p \in pages THEN "rwx" ELSE protect[p]]
      /\ old_protect' = [old_protect EXCEPT ![t] = IF pages = {} THEN "rwx" ELSE protect[first]]
      /\ mixed' = mixed \cup {p \in pages : protect[p] # protect[first]}
      /\ disturbed' = (disturbed \/ \E u \in Threads \ {t} : pages \cap Unprotected(u) # {})
      /\ UNCHANGED first_protect
      /\ todo[t] # <<>> /\ Head(todo[t]).op = "protect" /\ todo' = [todo EXCEPT ![t] = Tail(todo[t])]
    BY DEF Protect, Done, Does
<1>2. HeadPages(Tail(todo[t])) = pages
    BY <1>1, TailOpens
<1>3. HeadPages(todo[t]) = {}
    BY <1>1 DEF HeadPages
<1>4. pages \in SUBSET Pages
    BY PagesAre
<1> HIDE DEF pages, first
<1>5. Opened' = [Opened EXCEPT ![t] = pages] /\ Opened \in [Threads -> SUBSET Pages]
    BY <1>1, <1>2, OpenedMoves
<1>6. Opened[t] = {} /\ \A u \in Threads \ {t} : pages \cap Opened[u] = {}
    <2>1. \A u \in Threads \ {t} : pages \cap Unprotected(u) = {}
        BY <1>1
    <2>2. \A u \in Threads : Unprotected(u) = HeadPages(todo[u])
        BY OpenedIs
    <2> QED BY <1>3, <2>1, <2>2 DEF Opened
<1>7. ~ disturbed /\ old_protect \in [Threads -> Protection]
      /\ PagesOK(Opened, protect, old_protect, mixed, first_protect)
    BY <1>1 DEF PagesInv, CellsInv, Protection
<1>8. PagesOK(Opened', protect', old_protect', mixed', first_protect)
    <2>1. \A u \in Threads \ {t} : old_protect'[u] = old_protect[u]
        BY <1>1, <1>7
    <2>2. mixed \subseteq mixed' /\ \A p \in pages \ mixed' : protect[p] = old_protect'[t]
        BY <1>1, <1>7
    <2>3. /\ \A u \in Threads : Opened'[u] = IF u = t THEN pages ELSE Opened[u]
          /\ \A p \in Pages : protect'[p] = IF p \in pages THEN "rwx" ELSE protect[p]
        BY <1>1, <1>5
    <2>4. MadeWritable(t, pages, Opened, protect, old_protect, mixed,
                       Opened', protect', old_protect', mixed')
        BY <1>4, <1>5, <1>6, <2>1, <2>2, <2>3 DEF MadeWritable
    <2> QED BY <1>7, <2>4, ProtectKeepsPages
<1> QED BY Zenon, <1>1, <1>8

LEMMA RestorePages ==
    ASSUME ThreadsInv, CellsInv, PagesInv, NEW t \in Threads, Restore(t)
    PROVE  ~ disturbed' => PagesOK(Opened, protect, old_protect, mixed, first_protect)'
<1> SUFFICES ASSUME ~ disturbed' PROVE PagesOK(Opened, protect, old_protect, mixed, first_protect)'
    OBVIOUS
<1> DEFINE pages == PagesOf(Head(todo[t]).addr, Head(todo[t]).size)
<1>1. /\ protect' = [p \in Pages |-> IF p \in pages THEN old_protect[t] ELSE protect[p]]
      /\ old_protect' = [old_protect EXCEPT ![t] = "rwx"]
      /\ UNCHANGED <<first_protect, mixed, disturbed>>
      /\ todo[t] # <<>> /\ Head(todo[t]).op = "restore" /\ todo' = [todo EXCEPT ![t] = Tail(todo[t])]
    BY DEF Restore, Done, Does
<1>2. HeadPages(Tail(todo[t])) = {} /\ HeadPages(todo[t]) = pages
    BY <1>1, TailOpens DEF HeadPages
<1> HIDE DEF pages
<1>3. Opened' = [Opened EXCEPT ![t] = {}] /\ Opened \in [Threads -> SUBSET Pages] /\ Opened[t] = pages
    <2>1. Opened[t] = pages
        BY <1>2 DEF Opened
    <2> QED BY <1>1, <1>2, <2>1, OpenedMoves
<1>4. old_protect \in [Threads -> Protection] /\ PagesOK(Opened, protect, old_protect, mixed, first_protect)
    BY <1>1 DEF PagesInv, CellsInv, Protection
<1>5. PagesOK([Opened EXCEPT ![t] = {}],
              [p \in Pages |-> IF p \in Opened[t] THEN old_protect[t] ELSE protect[p]],
              [old_protect EXCEPT ![t] = "rwx"], mixed, first_protect)
    BY ZenonT(30), <1>3, <1>4, RestoreKeepsPages
<1>6. protect' = [p \in Pages |-> IF p \in Opened[t] THEN old_protect[t] ELSE protect[p]]
    BY <1>1, <1>3
<1> QED BY Zenon, <1>1, <1>3, <1>5, <1>6

(* A step after which nothing more and nothing less is writable.           *)
LEMMA DonePages ==
    ASSUME ThreadsInv, PagesInv, NEW t \in Threads, todo[t] # <<>>,
           Head(todo[t]).op \notin {"protect", "restore"}, Done(t),
           UNCHANGED <<page_vars, first_protect>>, disturbed => disturbed'
    PROVE  ~ disturbed' => PagesOK(Opened, protect, old_protect, mixed, first_protect)'
<1>1. HeadPages(Tail(todo[t])) = HeadPages(todo[t])
    BY TailOpens DEF HeadPages
<1>2. Opened' = Opened
    BY <1>1, OpenedMoves DEF Done
<1> QED BY <1>2, PagesStay

LEMMA PagesStep ==
    ASSUME ThreadsInv, CellsInv, CountInv, PagesInv, [HookNext]_hooking_vars
    PROVE  ~ disturbed' => PagesOK(Opened, protect, old_protect, mixed, first_protect)'
<1> DEFINE Goal == ~ disturbed' => PagesOK(Opened, protect, old_protect, mixed, first_protect)'
<1>1. ASSUME UNCHANGED <<todo, page_vars, first_protect>>, disturbed => disturbed' PROVE Goal
    <2>1. Opened' = Opened
        BY <1>1 DEF Opened
    <2> QED BY <1>1, <2>1, PagesStay
<1>2. ASSUME UNCHANGED hooking_vars PROVE Goal
    BY <1>1, <1>2 DEF hooking_vars
<1>3. ASSUME NEW t \in Threads, NEW size \in Sizes, Refuse(t, size) PROVE Goal
    BY <1>1, <1>3 DEF Refuse
<1>4. ASSUME NEW t \in Threads, NEW function \in Functions, NEW size \in Sizes, NEW kind \in Kinds,
             NEW keep \in BOOLEAN, Call(t, function, size, kind, keep)
      PROVE  Goal
    BY <1>4, CallKeepsPages
<1>5. ASSUME NEW t \in Threads, Memcpy(t) PROVE Goal
    <2>1. todo[t] # <<>> /\ Head(todo[t]).op = "memcpy" /\ Done(t)
          /\ UNCHANGED <<page_vars, first_protect>> /\ (disturbed => disturbed')
        BY <1>5 DEF Memcpy, Does
    <2> QED BY <2>1, DonePages
<1>6. ASSUME NEW t \in Threads, Steal(t) PROVE Goal
    <2>1. todo[t] # <<>> /\ Head(todo[t]).op = "read" /\ Done(t)
          /\ UNCHANGED <<page_vars, first_protect>> /\ (disturbed => disturbed')
        BY <1>6 DEF Steal, Read, Does
    <2> QED BY <2>1, DonePages
<1>7. ASSUME NEW t \in Threads, Alloc(t) PROVE Goal
    <2>1. todo[t] # <<>> /\ Head(todo[t]).op = "alloc"
          /\ UNCHANGED <<page_vars, first_protect>> /\ (disturbed => disturbed')
        BY <1>7 DEF Alloc, Does
    <2>2. CASE Done(t)
        BY <2>1, <2>2, DonePages
    <2>3. CASE UNCHANGED todo
        BY <1>1, <2>1, <2>3
    <2>4. CASE disturbed'
        BY <2>4
    <2> QED BY <1>7, <2>2, <2>3, <2>4 DEF Alloc
<1>8. ASSUME NEW t \in Threads, WriteStep(t) PROVE Goal
    <2>1. CASE Protect(t) \/ Restore(t)
        BY <2>1, ProtectPages, RestorePages
    <2>2. CASE Store(t, Bytes(t)) \/ StoreExternal(t, Bytes(t))
        <3>1. todo[t] # <<>> /\ Head(todo[t]).op = "store" /\ (Done(t) \/ UNCHANGED todo)
              /\ UNCHANGED <<page_vars, first_protect>>
            BY <2>2 DEF Store, StoreExternal, Does
        <3>2. disturbed => disturbed'
            BY <2>2 DEF Store, StoreExternal
        <3> QED BY <1>1, <3>1, <3>2, DonePages
    <2>3. CASE ProtectFails(t)
        BY <2>3 DEF ProtectFails
    <2> QED BY <1>8, <2>1, <2>2, <2>3 DEF WriteStep
<1>9. ASSUME NEW t \in Threads, Return(t) PROVE Goal
    BY <1>1, <1>9 DEF Return
<1> HIDE DEF Goal
<1>10. ASSUME HookNext PROVE Goal
    BY Zenon, <1>3, <1>4, <1>5, <1>6, <1>7, <1>8, <1>9, <1>10 DEF HookNext
<1>11. Goal
    BY <1>2, <1>10
<1> QED BY <1>11 DEF Goal

LEMMA CrashStep ==
    ASSUME ThreadsInv, PagesInv, [HookNext]_hooking_vars, crashed'
    PROVE  disturbed'
<1> DEFINE Goal == disturbed'
<1>1. crashed => disturbed
    BY DEF PagesInv
<1>2. ASSUME UNCHANGED hooking_vars PROVE Goal
    BY <1>1, <1>2 DEF hooking_vars
<1>3. ASSUME NEW t \in Threads, Alloc(t) PROVE Goal
    BY <1>3 DEF Alloc, Does
<1>4. ASSUME NEW t \in Threads, Store(t, Bytes(t)) PROVE Goal
    <2>1. Does(t, "store") /\ ~ crashed
        BY <1>4 DEF Store, Does
    <2>2. ~ Writable(Head(todo[t]).addr + stored[t], 1)
        BY <1>4, <2>1 DEF Store
    <2>3. disturbed
        BY <2>1, <2>2, StoreFindsItsPage
    <2> QED BY <1>4, <2>3 DEF Store
<1>5. ASSUME NEW t \in Threads, WriteStep(t), ~ Store(t, Bytes(t)) PROVE FALSE
    BY <1>5 DEF WriteStep, Protect, Restore, ProtectFails, StoreExternal, Does
<1>6. ASSUME NEW t \in Threads, Memcpy(t) \/ Steal(t) \/ Return(t) PROVE FALSE
    BY <1>6 DEF Memcpy, Steal, Read, Return, Does
<1>7. ASSUME NEW t \in Threads, NEW function, NEW size, NEW kind, NEW keep,
             Refuse(t, size) \/ Call(t, function, size, kind, keep)
      PROVE  FALSE
    BY <1>7 DEF Refuse, Call
<1> HIDE DEF Goal
<1>8. ASSUME NEW t \in Threads, WriteStep(t) PROVE Goal
    BY <1>4, <1>5, <1>8
<1>9. ASSUME HookNext PROVE Goal
    BY Zenon, <1>3, <1>6, <1>7, <1>8, <1>9 DEF HookNext
<1>10. Goal
    BY <1>2, <1>9
<1> QED BY <1>10 DEF Goal

LEMMA PagesInit == HookInit => PagesInv
<1> SUFFICES ASSUME HookInit PROVE PagesInv
    OBVIOUS
<1>1. \A t \in Threads : Opened[t] = {}
    BY DEF HookInit, MemoryInit, Opened, HeadPages
<1>2. PagesOK(Opened, protect, old_protect, mixed, first_protect)
    BY <1>1 DEF PagesOK, HookInit, MemoryInit
<1> QED BY <1>2 DEF PagesInv, HookInit, MemoryInit

LEMMA PagesHold == HookSpec => []PagesInv
<1> DEFINE Inv == ThreadsInv /\ CellsInv /\ CountInv
<1>1. PagesInv /\ Inv /\ [HookNext]_hooking_vars => PagesInv'
    <2> SUFFICES ASSUME PagesInv, ThreadsInv, CellsInv, CountInv, [HookNext]_hooking_vars PROVE PagesInv'
        OBVIOUS
    <2>1. crashed' => disturbed'
        BY CrashStep
    <2> QED BY <2>1, PagesStep DEF PagesInv
<1>2. HookSpec => []Inv
    BY HookInvHolds
<1> HIDE DEF Inv
<1> QED BY <1>1, <1>2, PagesInit, PTL DEF HookSpec

(* A page that no thread is writing has the protection it had in the       *)
(* beginning, unless a write to several pages has given it that of its     *)
(* first one, and no store of the library faults, as long as no two        *)
(* threads meet and no system call fails.                                  *)
THEOREM ProtectionReturns == HookSpec => []ProtectionComesBack
<1>1. PagesInv /\ ThreadsInv => ProtectionComesBack
    <2> SUFFICES ASSUME PagesInv, ThreadsInv PROVE ProtectionComesBack
        OBVIOUS
    <2>1. \A t \in Threads : Opened[t] = Unprotected(t)
        BY OpenedIs DEF Opened
    <2> QED BY <2>1 DEF PagesInv, PagesOK, ProtectionComesBack
<1>2. HookSpec => []ThreadsInv
    BY HookInvHolds, PTL
<1> QED BY <1>1, <1>2, PagesHold, PTL

-----------------------------------------------------------------------------
(***************************************************************************)
(* Where hooked functions go.  The bytes of the jump to the hook function  *)
(* are the first ones a call writes to a function, and those it writes     *)
(* afterwards are behind them or in new memory; until another thread makes *)
(* up a jump meanwhile, the operand is the one this call has put there.    *)
(***************************************************************************)
OperandOf(c) == operand_of(c.kind, c.function, c.target)

Written(mem, c) ==
    mem[c.function] = <<c.kind, 0>> /\ mem[c.function + 1] = <<"operand", OperandOf(c)>>

IsJump(op, c) ==
    op.op = "store" /\ op.arg = c.kind /\ op.addr = c.function /\ op.size = JUMP_HOOK_SIZE

IsBehind(op, c) ==
    \/ op.addr > CodeSize
    \/ op.addr >= c.function + JUMP_HOOK_SIZE /\ op.addr + op.size <= c.function + c.size

(* What may be done before the jump is written.                            *)
IsBefore(op, c) ==
    op.op # "alloc" /\ (op.op = "memcpy" => op.arg = c.kind /\ op.size = OperandOf(c))

(* A jump is written to the function, with the operand made up before it.  *)
Planned(s, c) ==
    \A i \in 1..Len(s) :
        /\ s[i].op = "store" => IsJump(s[i], c) \/ IsBehind(s[i], c)
        /\ IsJump(s[i], c) => \A j \in 1..(i - 1) : IsBefore(s[j], c)

Pending(s, c) == \E i \in 1..Len(s) : IsJump(s[i], c)

Unmade(s, c) ==
    \A i \in 1..Len(s) : IsJump(s[i], c) => \E j \in 1..(i - 1) : s[j].op = "memcpy"

GoesOn(s, c, st, mem, opr) ==
    /\ c.size >= JUMP_HOOK_SIZE /\ c.target < 0 /\ c.kind \in Kinds
    /\ Planned(s, c)
    /\ Pending(s, c) \/ Written(mem, c)
    /\ Unmade(s, c) \/ opr[c.kind] = OperandOf(c)
    /\ st > 0 /\ IsJump(Head(s), c) => mem[c.function] = <<c.kind, 0>>

(* A call that was not refused.                                            *)
IsHook(c) ==
    /\ c.size \in Sizes /\ c.size >= JUMP_HOOK_SIZE /\ c.kind \in Kinds
    /\ c.target \in Int /\ c.target < 0

(* The last call for the function has its jump there.                      *)
GoesToItsTarget(mem, past, function) ==
    \E i \in 1..Len(past) :
        LET c == past[i]
        IN  /\ \A j \in 1..Len(past) : past[j].function = function => j <= i
            /\ c.function = function /\ IsHook(c) /\ Written(mem, c)

HookedInv ==
    ~ disturbed =>
        /\ \A t \in Threads : call[t] # NoCall =>
              /\ GoesOn(todo[t], call[t], stored[t], memory, operand)
              /\ \A u \in Threads \ {t} : call[u].function # call[t].function
        /\ \A function \in Functions :
              CallsOf(function) # {} /\ (\A t \in Threads : call[t].function # function)
                  => GoesToItsTarget(memory, log, function)

(* A program that leaves the function's first bytes alone.                 *)
AllBehind(s, c) == \A i \in 1..Len(s) : ~ IsJump(s[i], c) /\ (s[i].op = "store" => IsBehind(s[i], c))

IsPlan(s, c) == s \in Programs /\ Planned(s, c) /\ Pending(s, c) /\ Unmade(s, c)

LEMMA PlanThenBehind ==
    ASSUME NEW c, NEW a, NEW b \in Programs, IsPlan(a, c), AllBehind(b, c)
    PROVE  IsPlan(a \o b, c)
<1> DEFINE s == a \o b
           m == Len(a)
           n == Len(b)
<1>1. a \in Programs /\ m \in Nat /\ n \in Nat
    BY LenProperties DEF IsPlan, Programs
<1>2. s \in Programs /\ Len(s) = m + n
      /\ \A i \in 1..(m + n) : s[i] = IF i <= m THEN a[i] ELSE b[i - m]
    BY <1>1, ConcatProperties DEF Programs
<1> HIDE DEF s, m, n
<1>3. \A i \in 1..m : i \in 1..(m + n) /\ s[i] = a[i]
    BY <1>1, <1>2
<1>4. \A i \in 1..(m + n) : i \notin 1..m => i - m \in 1..n /\ s[i] = b[i - m]
    BY <1>1, <1>2
<1>5. Planned(a, c) /\ Pending(a, c) /\ Unmade(a, c)
    BY DEF IsPlan
<1>6. ASSUME NEW i \in 1..(m + n), i \notin 1..m
      PROVE  ~ IsJump(s[i], c) /\ (s[i].op = "store" => IsBehind(s[i], c))
    BY <1>4, <1>6 DEF AllBehind, n
<1>7. \A i \in 1..m : \A j \in 1..(i - 1) : j \in 1..m
    BY <1>1
<1>8. ASSUME NEW i \in 1..(m + n)
      PROVE  /\ s[i].op = "store" => IsJump(s[i], c) \/ IsBehind(s[i], c)
             /\ IsJump(s[i], c) => \A j \in 1..(i - 1) : IsBefore(s[j], c)
    <2>1. CASE i \in 1..m
        <3>1. s[i] = a[i] /\ \A j \in 1..(i - 1) : s[j] = a[j]
            BY <1>3, <1>7, <2>1
        <3> QED BY <1>5, <2>1, <3>1 DEF Planned, m
    <2>2. CASE i \notin 1..m
        BY <1>6, <2>2
    <2> QED BY <2>1, <2>2
<1>9. ASSUME NEW i \in 1..(m + n), IsJump(s[i], c)
      PROVE  \E j \in 1..(i - 1) : s[j].op = "memcpy"
    <2>1. i \in 1..m /\ s[i] = a[i] /\ \A j \in 1..(i - 1) : s[j] = a[j]
        BY <1>3, <1>6, <1>7, <1>9
    <2> QED BY <1>5, <1>9, <2>1 DEF Unmade, m
<1>10. \E i \in 1..(m + n) : IsJump(s[i], c)
    BY <1>3, <1>5 DEF Pending, m
<1> QED BY <1>2, <1>8, <1>9, <1>10 DEF IsPlan, Planned, Pending, Unmade, s

LEMMA ReadThenPlan ==
    ASSUME NEW c, NEW o \in Ops, o.op \notin {"store", "memcpy", "alloc"}, NEW b, IsPlan(b, c)
    PROVE  IsPlan(<<o>> \o b, c)
<1> DEFINE s == <<o>> \o b
           n == Len(b)
<1>1. b \in Programs /\ n \in Nat /\ <<o>> \in Programs /\ Len(<<o>>) = 1
    BY LenProperties DEF IsPlan, Programs
<1>2. s \in Programs /\ Len(s) = 1 + n
      /\ \A i \in 1..(1 + n) : s[i] = IF i <= 1 THEN <<o>>[i] ELSE b[i - 1]
    BY <1>1, ConcatProperties DEF Programs
<1> HIDE DEF s, n
<1>3. s[1] = o /\ \A i \in 1..(1 + n) : i # 1 => i - 1 \in 1..n /\ s[i] = b[i - 1]
    BY <1>1, <1>2
<1>4. ASSUME NEW i \in 1..n, NEW k \in Int, k = i + 1 PROVE k \in 1..(1 + n) /\ s[k] = b[i]
    <2>1. k \in 1..(1 + n) /\ k # 1 /\ k - 1 = i
        BY <1>1, <1>4
    <2> QED BY <1>3, <2>1
<1>5. Planned(b, c) /\ Pending(b, c) /\ Unmade(b, c)
    BY DEF IsPlan
<1>6. ASSUME NEW i \in 1..(1 + n)
      PROVE  /\ s[i].op = "store" => IsJump(s[i], c) \/ IsBehind(s[i], c)
             /\ IsJump(s[i], c) => \A j \in 1..(i - 1) : IsBefore(s[j], c)
    <2>1. CASE i = 1
        BY <1>3, <2>1 DEF IsJump
    <2>2. CASE i # 1
        <3>1. i - 1 \in 1..n /\ s[i] = b[i - 1]
            BY <1>3, <2>2
        <3>2. b[i - 1].op = "store" => IsJump(b[i - 1], c) \/ IsBehind(b[i - 1], c)
            BY <1>5, <3>1 DEF Planned, n
        <3>3. ASSUME IsJump(b[i - 1], c), NEW j \in 1..(i - 1)
              PROVE  IsBefore(s[j], c)
            <4>1. CASE j = 1
                BY <1>3, <4>1 DEF IsBefore
            <4>2. CASE j # 1
                <5>1. j \in 1..(1 + n)
                    BY <1>1, <3>3
                <5>2. j - 1 \in 1..(i - 1 - 1) /\ s[j] = b[j - 1]
                    BY <1>1, <1>3, <4>2, <5>1
                <5> QED BY <1>5, <3>1, <3>3, <5>2 DEF Planned, n
            <4> QED BY <4>1, <4>2
        <3> QED BY <3>1, <3>2, <3>3
    <2> QED BY <2>1, <2>2
<1>7. ASSUME NEW i \in 1..(1 + n), IsJump(s[i], c)
      PROVE  \E j \in 1..(i - 1) : s[j].op = "memcpy"
    <2>1. i # 1
        BY <1>3, <1>7 DEF IsJump
    <2>2. i - 1 \in 1..n /\ s[i] = b[i - 1]
        BY <1>3, <2>1
    <2>3. PICK j \in 1..(i - 1 - 1) : b[j].op = "memcpy"
        BY <1>5, <1>7, <2>2 DEF Unmade, n
    <2>4. j \in 1..n /\ j + 1 \in Int /\ j + 1 \in 1..(i - 1)
        BY <1>1, <2>2
    <2>5. s[j + 1] = b[j]
        BY <1>4, <2>4
    <2> QED BY <2>3, <2>4, <2>5
<1>8. \E i \in 1..(1 + n) : IsJump(s[i], c)
    <2>1. PICK i \in 1..n : IsJump(b[i], c)
        BY <1>5 DEF Pending, n
    <2>2. i + 1 \in Int
        OBVIOUS
    <2>3. i + 1 \in 1..(1 + n) /\ s[i + 1] = b[i]
        BY <1>4, <2>2
    <2> QED BY <2>1, <2>3
<1> QED BY <1>2, <1>6, <1>7, <1>8 DEF IsPlan, Planned, Pending, Unmade, s

LEMMA BehindConcat ==
    ASSUME NEW c, NEW a \in Programs, NEW b \in Programs, AllBehind(a, c), AllBehind(b, c)
    PROVE  a \o b \in Programs /\ AllBehind(a \o b, c)
<1> DEFINE s == a \o b
           m == Len(a)
           n == Len(b)
<1>1. m \in Nat /\ n \in Nat
    BY LenProperties DEF Programs
<1>2. s \in Programs /\ Len(s) = m + n
      /\ \A i \in 1..(m + n) : s[i] = IF i <= m THEN a[i] ELSE b[i - m]
    BY <1>1, ConcatProperties DEF Programs
<1> HIDE DEF s, m, n
<1>3. \A i \in 1..(m + n) : (i \in 1..m /\ s[i] = a[i]) \/ (i - m \in 1..n /\ s[i] = b[i - m])
    BY <1>1, <1>2
<1>4. AllBehind(s, c)
    BY <1>2, <1>3 DEF AllBehind, m, n
<1> QED BY <1>2, <1>4 DEF s

LEMMA WriteBehind ==
    ASSUME NEW c, NEW addr \in Int, NEW size \in Int, NEW source \in Args,
           c.function \in Int, addr # c.function,
           addr > CodeSize \/ (addr >= c.function + JUMP_HOOK_SIZE /\ addr + size <= c.function + c.size)
    PROVE  write(addr, source, size) \in Programs /\ AllBehind(write(addr, source, size), c)
<1> DEFINE o1 == Op("protect", addr, size, "")
           o2 == Op("store", addr, size, source)
           o3 == Op("restore", addr, size, "")
           s == <<o1, o2, o3>>
<1>1. o1 \in Ops /\ o2 \in Ops /\ o3 \in Ops
    <2>1. "" \in Args
        BY DEF Args
    <2>2. ASSUME NEW op \in {"protect", "store", "restore"}, NEW arg \in Args
          PROVE  Op(op, addr, size, arg) \in Ops
        BY DEF Op, Ops
    <2> QED BY <2>1, <2>2
<1>2. o1.op = "protect" /\ o2.op = "store" /\ o3.op = "restore" /\ o2.addr = addr /\ o2.size = size
    BY DEF Op
<1>3. write(addr, source, size) = s
    BY DEF write
<1>4. ~ IsJump(o1, c) /\ ~ IsJump(o2, c) /\ ~ IsJump(o3, c) /\ IsBehind(o2, c)
    BY <1>2 DEF IsJump, IsBehind
<1> HIDE DEF o1, o2, o3
<1>5. s \in Programs /\ Len(s) = 3 /\ s[1] = o1 /\ s[2] = o2 /\ s[3] = o3
    BY <1>1 DEF Programs
<1> HIDE DEF s
<1>6. \A i \in 1..3 : i = 1 \/ i = 2 \/ i = 3
    OBVIOUS
<1>7. AllBehind(s, c)
    BY <1>2, <1>4, <1>5, <1>6 DEF AllBehind
<1> QED BY <1>3, <1>5, <1>7

LEMMA StepBehind ==
    ASSUME NEW c, NEW o \in Ops, o.op # "store"
    PROVE  <<o>> \in Programs /\ AllBehind(<<o>>, c)
<1>1. <<o>> \in Programs /\ Len(<<o>>) = 1 /\ <<o>>[1] = o
    BY DEF Programs
<1>2. \A i \in 1..1 : i = 1
    OBVIOUS
<1> QED BY <1>1, <1>2 DEF AllBehind, IsJump

(* The calls a program is for.                                             *)
IsCall(c) ==
    /\ c.function \in Int /\ c.function <= CodeSize /\ c.size \in Nat /\ c.size >= JUMP_HOOK_SIZE
    /\ c.kind \in Kinds /\ c.target \in Int

LEMMA JumpIsPlan ==
    ASSUME NEW c, IsCall(c)
    PROVE  IsPlan(jmp(c.kind, c.function, c.target, c.size), c)
<1> DEFINE o == Op("memcpy", 0, OperandOf(c), c.kind)
           o1 == Op("protect", c.function, JUMP_HOOK_SIZE, "")
           o2 == Op("store", c.function, JUMP_HOOK_SIZE, c.kind)
           o3 == Op("restore", c.function, JUMP_HOOK_SIZE, "")
           b == <<o1, o2, o3>>
           a == <<o>> \o b
           next == c.function + JUMP_HOOK_SIZE
           left == c.size - JUMP_HOOK_SIZE
           d == IF c.size > JUMP_HOOK_SIZE THEN write(next, "nop", left) ELSE <<>>
<1>1. OperandOf(c) \in Int /\ c.kind \in Args /\ "" \in Args /\ "nop" \in Args /\ JUMP_HOOK_SIZE \in Int
      /\ c.function \in Int /\ 0 \in Int
    <2>1. c.function \in Int /\ c.target \in Int /\ c.kind \in Kinds /\ JUMP_HOOK_SIZE \in Int /\ 0 \in Int
        BY DEF IsCall, JUMP_HOOK_SIZE
    <2>2. c.target - c.function - JUMP_HOOK_SIZE \in Int
        BY <2>1
    <2>3. OperandOf(c) \in Int
        BY <2>1, <2>2 DEF OperandOf, operand_of
    <2>4. c.kind \in Args /\ "" \in Args /\ "nop" \in Args
        BY <2>1, ZenonT(30) DEF Args
    <2> QED BY <2>1, <2>3, <2>4
<1>2. o \in Ops /\ o1 \in Ops /\ o2 \in Ops /\ o3 \in Ops
    <2>1. ASSUME NEW op \in {"protect", "store", "restore", "memcpy"}, NEW addr \in Int, NEW size \in Int, NEW arg \in Args
          PROVE  Op(op, addr, size, arg) \in Ops
        BY DEF Op, Ops
    <2> HIDE DEF JUMP_HOOK_SIZE
    <2> QED BY <1>1, <2>1
<1>3. /\ o.op = "memcpy" /\ o.arg = c.kind /\ o.size = OperandOf(c)
      /\ o1.op = "protect" /\ o2.op = "store" /\ o3.op = "restore" /\ IsJump(o2, c)
    BY DEF Op, IsJump
<1>4. jmp(c.kind, c.function, c.target, c.size) = a \o d
    BY DEF jmp, write, fill_with_nop, OperandOf
<1> HIDE DEF o, o1, o2, o3
<1>5. a \in Programs /\ Len(a) = 4 /\ a[1] = o /\ a[2] = o1 /\ a[3] = o2 /\ a[4] = o3
    <2>1. <<o>> \in Programs /\ b \in Programs /\ Len(<<o>>) = 1 /\ Len(b) = 3
          /\ <<o>>[1] = o /\ b[1] = o1 /\ b[2] = o2 /\ b[3] = o3
        BY <1>2 DEF Programs
    <2>2. a \in Programs /\ Len(a) = 1 + 3
          /\ \A i \in 1..(1 + 3) : a[i] = IF i <= 1 THEN <<o>>[i] ELSE b[i - 1]
        BY <2>1, ConcatProperties DEF Programs
    <2> HIDE DEF a, b
    <2> QED BY <2>1, <2>2
<1> HIDE DEF a, b
<1>6. IsPlan(a, c)
    <2>1. \A i \in 1..4 : i = 1 \/ i = 2 \/ i = 3 \/ i = 4
        OBVIOUS
    <2>2. \A j \in 1..(3 - 1) : j = 1 \/ j = 2
        OBVIOUS
    <2>3. ~ IsJump(o, c) /\ ~ IsJump(o1, c) /\ ~ IsJump(o3, c)
        BY <1>3 DEF IsJump
    <2>4. Planned(a, c)
        BY <1>3, <1>5, <2>1, <2>2, <2>3 DEF Planned, IsBefore
    <2>5. 1 \in 1..(3 - 1) /\ 3 \in 1..4
        OBVIOUS
    <2>6. Unmade(a, c) /\ Pending(a, c)
        BY <1>3, <1>5, <2>1, <2>3, <2>5 DEF Unmade, Pending
    <2> QED BY <1>5, <2>4, <2>6 DEF IsPlan
<1>7. d \in Programs /\ AllBehind(d, c)
    <2>1. CASE c.size > JUMP_HOOK_SIZE
        <3>1. next \in Int /\ left \in Int /\ next # c.function /\ next >= c.function + JUMP_HOOK_SIZE
              /\ next + left <= c.function + c.size
            BY DEF IsCall, JUMP_HOOK_SIZE
        <3> HIDE DEF next, left
        <3>2. write(next, "nop", left) \in Programs /\ AllBehind(write(next, "nop", left), c)
            BY <1>1, <3>1, WriteBehind
        <3> QED BY <2>1, <3>2
    <2>2. CASE ~ (c.size > JUMP_HOOK_SIZE)
        <3>1. <<>> \in Programs /\ AllBehind(<<>>, c)
            BY EmptySeq DEF Programs, AllBehind
        <3> QED BY <2>2, <3>1
    <2> QED BY <2>1, <2>2
<1> HIDE DEF d
<1> QED BY <1>4, <1>6, <1>7, PlanThenBehind

LEMMA TrampolineIsPlan ==
    ASSUME NEW c, IsCall(c), NEW original_func \in Int, original_func > CodeSize
    PROVE  IsPlan(trampoline(c.kind, c.function, c.target, c.size, original_func), c)
<1> DEFINE r == Op("read", c.function, c.size, "")
           j == jmp(c.kind, c.function, c.target, c.size)
           l == Op("alloc", 0, 0, "")
           w == write(original_func, "stolen", c.size)
           back == original_func + c.size
           m == Op("memcpy", 0, operand_of(c.kind, back, c.function + c.size), c.kind)
           v == write(back, c.kind, JUMP_HOOK_SIZE)
           e == jmp(c.kind, back, c.function + c.size, JUMP_HOOK_SIZE)
<1> HIDE DEF r, j, l, w, back, m, v, e
<1>1. /\ c.function \in Int /\ c.size \in Int /\ c.size \in Nat /\ c.function <= CodeSize
      /\ CodeSize \in Int /\ c.target \in Int /\ JUMP_HOOK_SIZE \in Int /\ 0 \in Int
    BY MemoryAssumption DEF IsCall, JUMP_HOOK_SIZE
<1>2. back \in Int /\ back > CodeSize /\ back # c.function /\ original_func # c.function
    BY <1>1 DEF back
<1>3. operand_of(c.kind, back, c.function + c.size) \in Int
    <2>1. (c.function + c.size) \in Int /\ (c.function + c.size) - back - JUMP_HOOK_SIZE \in Int
        BY <1>1, <1>2
    <2> QED BY <2>1 DEF operand_of
<1>a. c.kind \in Kinds /\ c.kind \in Args /\ "" \in Args /\ "stolen" \in Args
    <2>1. c.kind \in Kinds
        BY DEF IsCall
    <2> QED BY <2>1, ZenonT(30) DEF Args
<1>4. r \in Ops /\ r.op = "read" /\ l \in Ops /\ l.op = "alloc" /\ m \in Ops /\ m.op = "memcpy"
    <2>1. ASSUME NEW op \in {"read", "alloc", "memcpy"}, NEW addr \in Int, NEW size \in Int, NEW arg \in Args
          PROVE  Op(op, addr, size, arg) \in Ops /\ Op(op, addr, size, arg).op = op
        BY DEF Op, Ops
    <2>2. /\ "read" \in {"read", "alloc", "memcpy"} /\ "alloc" \in {"read", "alloc", "memcpy"}
          /\ "memcpy" \in {"read", "alloc", "memcpy"}
        OBVIOUS
    <2>a. c.function \in Int /\ c.size \in Int /\ 0 \in Int /\ "" \in Args /\ c.kind \in Args
        BY <1>1, <1>a
    <2>3. r \in Ops /\ r.op = "read"
        BY ZenonT(30), <2>a, <2>1, <2>2 DEF r
    <2>4. l \in Ops /\ l.op = "alloc"
        BY ZenonT(30), <2>a, <2>1, <2>2 DEF l
    <2>5. m \in Ops /\ m.op = "memcpy"
        <3>1. ASSUME NEW k \in Int
              PROVE  Op("memcpy", 0, k, c.kind) \in Ops /\ Op("memcpy", 0, k, c.kind).op = "memcpy"
            BY <2>a DEF Op, Ops
        <3> QED BY <1>3, <3>1, Zenon DEF m
    <2> QED BY <2>3, <2>4, <2>5
<1>5. trampoline(c.kind, c.function, c.target, c.size, original_func) = <<r>> \o j \o <<l>> \o w \o e
    BY DEF trampoline, r, j, l, w, e, back
<1>6. IsPlan(j, c)
    BY JumpIsPlan DEF j
<1>7. w \in Programs /\ AllBehind(w, c)
    BY <1>1, <1>2, <1>a, WriteBehind DEF w
<1>8. <<l>> \in Programs /\ AllBehind(<<l>>, c)
    BY <1>4, StepBehind
<1>9. e \in Programs /\ AllBehind(e, c)
    <2>1. <<m>> \in Programs /\ AllBehind(<<m>>, c)
        BY <1>4, StepBehind
    <2>2. v \in Programs /\ AllBehind(v, c)
        BY <1>1, <1>2, <1>a, WriteBehind DEF v
    <2>3. <<m>> \o v \in Programs /\ AllBehind(<<m>> \o v, c)
        BY <2>1, <2>2, BehindConcat
    <2>4. e = <<m>> \o v \o <<>>
        <3>1. ~ (JUMP_HOOK_SIZE > JUMP_HOOK_SIZE)
            BY DEF JUMP_HOOK_SIZE
        <3> QED BY <3>1 DEF jmp, e, m, v
    <2> DEFINE x == <<m>> \o v
    <2> HIDE DEF x
    <2>5. x \o <<>> = x
        BY <2>3, ConcatEmptySeq DEF x, Programs
    <2> QED BY <2>3, <2>4, <2>5 DEF x
<1>10. IsPlan(<<r>> \o j, c)
    BY <1>4, <1>6, ReadThenPlan
<1>11. IsPlan(<<r>> \o j \o <<l>>, c)
    BY <1>8, <1>10, PlanThenBehind
<1>12. IsPlan(<<r>> \o j \o <<l>> \o w, c)
    BY <1>7, <1>11, PlanThenBehind
<1> QED BY <1>5, <1>9, <1>12, PlanThenBehind

LEMMA AllocatedIsNew ==
    ASSUME NEW n \in Nat, n # 0, MaxCalls # 0
    PROVE  Allocated(n) \in Int /\ Allocated(n) > CodeSize
<1> DEFINE room == Cells - CodeSize
           q == room \div MaxCalls
<1>1. room \in Nat /\ MaxCalls \in Nat /\ MaxCalls > 0
    BY MemoryAssumption, HookAssumption
<1> HIDE DEF room
<1>2. q \in Int /\ q >= 0
    BY <1>1
<1>3. Allocated(n) = CodeSize + 1 + (n - 1) * q
    BY DEF Allocated, room
<1> HIDE DEF q
<1>4. n - 1 \in Nat
    OBVIOUS
<1>5. ASSUME NEW k \in Nat PROVE k * q \in Int /\ k * q >= 0
    BY <1>2
<1> QED BY <1>3, <1>4, <1>5, MemoryAssumption

-----------------------------------------------------------------------------
(* The function that Runs defines exists: what runs with no fuel depends   *)
(* on nothing, and each further unit adds one step.                        *)
Runner(cells, n) == CHOOSE run : run = [fuel \in 0..n |-> RunsOn(cells, fuel, run[fuel - 1])]

LEMMA RunnerExists ==
    ASSUME NEW cells, NEW n \in Nat
    PROVE  \E r : r = [fuel \in 0..n |-> RunsOn(cells, fuel, r[fuel - 1])]
<1> DEFINE Good(m) == \E r : r = [fuel \in 0..m |-> RunsOn(cells, fuel, r[fuel - 1])]
           Bad == {m \in Nat : ~ Good(m)}
<1>1. Good(0)
    <2> DEFINE r == [fuel \in 0..0 |-> RunsOn(cells, fuel, <<>>)]
    <2>1. \A fuel \in 0..0 : RunsOn(cells, fuel, <<>>) = RunsOn(cells, fuel, r[fuel - 1])
        BY DEF RunsOn
    <2>2. r = [fuel \in 0..0 |-> RunsOn(cells, fuel, r[fuel - 1])]
        BY <2>1
    <2> QED BY <2>2
<1>2. ASSUME NEW m \in Nat, NEW k \in Nat, k = m - 1, Good(k) PROVE Good(m)
    <2>1. PICK r : r = [fuel \in 0..k |-> RunsOn(cells, fuel, r[fuel - 1])]
        BY <1>2
    <2> DEFINE g == [fuel \in 0..m |-> IF fuel = m THEN RunsOn(cells, m, r[k]) ELSE r[fuel]]
    <2>2. g[k] = r[k] /\ g[m] = RunsOn(cells, m, r[k]) /\ \A fuel \in 0..k : g[fuel] = r[fuel]
        BY <1>2
    <2>3. \A fuel \in 0..k : r[fuel] = RunsOn(cells, fuel, r[fuel - 1])
        BY <2>1
    <2>4. \A fuel \in 0..k : fuel # 0 => fuel - 1 \in 0..k
        BY <1>2
    <2>5. DOMAIN g = 0..m /\ g = [fuel \in 0..m |-> g[fuel]]
        OBVIOUS
    <2> HIDE DEF g
    <2>6. \A fuel \in 0..m : g[fuel] = RunsOn(cells, fuel, g[fuel - 1])
        <3> TAKE fuel \in 0..m
        <3>1. CASE fuel = m
            <4>1. fuel - 1 = k
                BY <1>2, <3>1
            <4> QED BY <2>2, <3>1, <4>1
        <3>2. CASE fuel # m /\ fuel # 0
            <4>1. fuel \in 0..k /\ fuel - 1 \in 0..k
                BY <1>2, <2>4, <3>2
            <4> QED BY <2>2, <2>3, <4>1
        <3>3. CASE fuel # m /\ fuel = 0
            <4>1. fuel \in 0..k
                BY <1>2, <3>3
            <4>2. RunsOn(cells, 0, r[fuel - 1]) = RunsOn(cells, 0, g[fuel - 1])
                BY DEF RunsOn
            <4> QED BY <2>2, <2>3, <3>3, <4>1, <4>2
        <3> QED BY <3>1, <3>2, <3>3
    <2>7. g = [fuel \in 0..m |-> RunsOn(cells, fuel, g[fuel - 1])]
        BY <2>5, <2>6
    <2> QED BY <2>7
<1> HIDE DEF Good
<1>3. SUFFICES ASSUME ~ Good(n) PROVE FALSE
    BY DEF Good
<1>4. PICK m \in Bad : \A k \in Bad : m <= k
    <2>1. Bad \in SUBSET Nat /\ Bad # {}
        BY <1>3
    <2> HIDE DEF Bad
    <2> QED BY <2>1, LeastExists
<1>5. m \in Nat /\ ~ Good(m) /\ m # 0
    BY <1>1, <1>4
<1>6. m - 1 \in Nat /\ ~ (m <= m - 1)
    BY <1>5
<1>7. Good(m - 1)
    BY <1>4, <1>6
<1> QED BY <1>2, <1>5, <1>6, <1>7

LEMMA RunsIs ==
    ASSUME NEW cells, NEW entry
    PROVE  /\ Runs(cells, entry) = Runner(cells, 2 * Cells)[2 * Cells][entry]
           /\ \A fuel \in 0..(2 * Cells) :
                 Runner(cells, 2 * Cells)[fuel] = RunsOn(cells, fuel, Runner(cells, 2 * Cells)[fuel - 1])
<1> DEFINE n == 2 * Cells
           r == Runner(cells, n)
<1>1. n \in Nat
    BY MemoryAssumption
<1>2. Runs(cells, entry) = r[n][entry]
    BY DEF Runs, Runner
<1> HIDE DEF n
<1>3. r = [fuel \in 0..n |-> RunsOn(cells, fuel, r[fuel - 1])]
    <2>1. \E q : q = [fuel \in 0..n |-> RunsOn(cells, fuel, q[fuel - 1])]
        BY <1>1, RunnerExists
    <2> QED BY <2>1 DEF Runner
<1> HIDE DEF r
<1>4. \A fuel \in 0..n : r[fuel] = RunsOn(cells, fuel, r[fuel - 1])
    BY <1>3
<1> QED BY <1>2, <1>4 DEF n, r

(* The jump that has been written goes to the hook function.               *)
LEMMA WrittenRuns ==
    ASSUME NEW mem \in [1..Cells -> CellType], NEW c, c.function \in 1..Cells, c.function + 1 \in 1..Cells,
           c.kind \in Kinds, c.target \in Int, c.target < 0, Written(mem, c)
    PROVE  Runs(mem, c.function) = Loads(c.kind) \o << <<"hook", c.target>> >>
<1> DEFINE n == 2 * Cells
           r == Runner(mem, n)
           f == c.function
           there == r[n - 1][c.target]
<1>1. n \in Nat /\ n - 1 \in 0..n /\ n \in 0..n /\ n # 0 /\ n - 1 - 1 = n - 2 /\ f \in Int /\ ~ (f < 0)
    BY MemoryAssumption
<1>2. /\ Runs(mem, f) = r[n][f]
      /\ r[n] = RunsOn(mem, n, r[n - 1]) /\ r[n - 1] = RunsOn(mem, n - 1, r[(n - 1) - 1])
    <2>1. /\ Runs(mem, f) = r[n][f]
          /\ \A fuel \in 0..n : r[fuel] = RunsOn(mem, fuel, r[fuel - 1])
        BY RunsIs
    <2> HIDE DEF n, r
    <2> QED BY <1>1, <2>1
<1> HIDE DEF n, r
<1>3. \A on, fuel : RunsOn(mem, fuel, on)[c.target] = << <<"hook", c.target>> >>
    BY DEF RunsOn
<1>4. there = << <<"hook", c.target>> >>
    BY <1>2, <1>3
<1>5. f \in DOMAIN mem /\ mem[f] = <<c.kind, 0>> /\ mem[f + 1] = <<"operand", OperandOf(c)>>
    BY DEF Written
<1>6. mem[f][1] = c.kind /\ mem[f + 1][2] = OperandOf(c)
    BY <1>5
<1>7. c.kind \in {"absolute", "relative"}
    BY HookAssumption
<1>8. CASE c.kind = "absolute"
    <2>1. OperandOf(c) = c.target
        BY <1>8 DEF OperandOf, operand_of
    <2>2. RunsOn(mem, n, r[n - 1])[f] = Loads("absolute") \o r[n - 1][mem[f + 1][2]]
        BY <1>1, <1>5, <1>6, <1>8 DEF RunsOn
    <2> QED BY <1>2, <1>4, <1>6, <1>8, <2>1, <2>2
<1>9. CASE c.kind = "relative"
    <2>1. f + JUMP_HOOK_SIZE + OperandOf(c) = c.target
        <3>1. OperandOf(c) = c.target - f - JUMP_HOOK_SIZE
            BY <1>9 DEF OperandOf, operand_of
        <3> QED BY <1>1, <3>1 DEF JUMP_HOOK_SIZE
    <2>2. RunsOn(mem, n, r[n - 1])[f] = r[n - 1][f + JUMP_HOOK_SIZE + mem[f + 1][2]]
        BY <1>1, <1>5, <1>6, <1>9 DEF RunsOn
    <2>3. Loads(c.kind) \o << <<"hook", c.target>> >> = << <<"hook", c.target>> >>
        BY <1>9 DEF Loads
    <2> QED BY <1>2, <1>4, <1>6, <2>1, <2>2, <2>3
<1> QED BY <1>7, <1>8, <1>9

-----------------------------------------------------------------------------
(* What is left of a call after each step.                                 *)

(* What is left of a program after a step that is not the jump.            *)
LEMMA TailIsPlanned ==
    ASSUME NEW s \in Programs, s # <<>>, NEW c, Planned(s, c)
    PROVE  /\ Planned(Tail(s), c)
           /\ Pending(s, c) /\ ~ IsJump(Head(s), c) => Pending(Tail(s), c) /\ IsBefore(Head(s), c)
           /\ Unmade(s, c) => ~ IsJump(Head(s), c)
           /\ Unmade(s, c) /\ Head(s).op # "memcpy" => Unmade(Tail(s), c)
           /\ Head(s).op = "store" => IsJump(Head(s), c) \/ IsBehind(Head(s), c)
<1> DEFINE n == Len(s)
           r == Tail(s)
<1>1. n \in Nat /\ n # 0 /\ Len(r) = n - 1 /\ Head(s) = s[1] /\ \A i \in 1..(n - 1) : r[i] = s[i + 1]
    BY EmptySeq, HeadTailProperties DEF Programs
<1>2. 1 \in 1..n /\ \A i \in 1..(n - 1) : i + 1 \in 1..n /\ i + 1 # 1
    BY <1>1
<1>3. \A k \in 1..n : k # 1 => k - 1 \in 1..(n - 1) /\ (k - 1) + 1 = k
    BY <1>1
<1> HIDE DEF r
<1>4. \A k \in 1..n : k # 1 => r[k - 1] = s[k]
    BY <1>1, <1>3
<1>5. \A i \in 1..(n - 1) : \A j \in 1..(i - 1) : j + 1 \in 1..((i + 1) - 1) /\ r[j] = s[j + 1]
    <2> TAKE i \in 1..(n - 1)
    <2> TAKE j \in 1..(i - 1)
    <2>1. j \in 1..(n - 1) /\ j + 1 \in 1..((i + 1) - 1)
        BY <1>1
    <2> QED BY <1>1, <2>1
<1>6. /\ \A i \in 1..n : s[i].op = "store" => IsJump(s[i], c) \/ IsBehind(s[i], c)
      /\ \A i \in 1..n : IsJump(s[i], c) => \A j \in 1..(i - 1) : IsBefore(s[j], c)
    BY DEF Planned
<1> HIDE DEF n
<1>7. Planned(r, c)
    <2>1. ASSUME NEW i \in 1..(n - 1)
          PROVE  /\ r[i].op = "store" => IsJump(r[i], c) \/ IsBehind(r[i], c)
                 /\ IsJump(r[i], c) => \A j \in 1..(i - 1) : IsBefore(r[j], c)
        <3>1. i + 1 \in 1..n /\ r[i] = s[i + 1]
            BY <1>1, <1>2
        <3>2. IsJump(r[i], c) => \A j \in 1..((i + 1) - 1) : IsBefore(s[j], c)
            BY <1>6, <3>1
        <3>3. IsJump(r[i], c) => \A j \in 1..(i - 1) : IsBefore(r[j], c)
            BY <1>5, <3>2
        <3> QED BY <1>6, <3>1, <3>3
    <2> QED BY <1>1, <2>1 DEF Planned
<1>8. ASSUME Pending(s, c), ~ IsJump(Head(s), c) PROVE Pending(r, c) /\ IsBefore(Head(s), c)
    <2>1. PICK i \in 1..n : IsJump(s[i], c)
        BY <1>8 DEF Pending, n
    <2>2. i # 1 /\ i - 1 \in 1..(n - 1) /\ r[i - 1] = s[i]
        BY <1>1, <1>3, <1>4, <1>8, <2>1
    <2>3. 1 \in 1..(i - 1)
        BY <1>1, <2>2
    <2>4. Pending(r, c)
        BY <1>1, <2>1, <2>2 DEF Pending
    <2> QED BY <1>1, <1>6, <2>1, <2>3, <2>4
<1>9. Unmade(s, c) => ~ IsJump(Head(s), c)
    <2>1. ~ \E j \in 1..(1 - 1) : TRUE
        OBVIOUS
    <2> QED BY <1>1, <1>2, <2>1 DEF Unmade, n
<1>10. ASSUME Unmade(s, c), Head(s).op # "memcpy" PROVE Unmade(r, c)
    <2>1. ASSUME NEW i \in 1..(n - 1), IsJump(r[i], c) PROVE \E j \in 1..(i - 1) : r[j].op = "memcpy"
        <3>1. i + 1 \in 1..n /\ r[i] = s[i + 1]
            BY <1>1, <1>2
        <3>2. PICK k \in 1..((i + 1) - 1) : s[k].op = "memcpy"
            BY <1>10, <2>1, <3>1 DEF Unmade, n
        <3>3. k # 1 /\ k \in 1..n /\ k - 1 \in 1..(i - 1)
            BY <1>1, <1>10, <3>2
        <3>4. r[k - 1] = s[k]
            BY <1>4, <3>3
        <3> QED BY <3>2, <3>3, <3>4
    <2> QED BY <1>1, <2>1 DEF Unmade
<1>11. Head(s).op = "store" => IsJump(Head(s), c) \/ IsBehind(Head(s), c)
    BY <1>1, <1>2, <1>6
<1> QED BY <1>7, <1>8, <1>9, <1>10, <1>11 DEF r

(* The thread itself goes on: after a step that leaves the function alone, *)
(* and after the jump.                                                     *)
LEMMA StepGoesOn ==
    ASSUME NEW s \in Programs, s # <<>>, NEW c, NEW st, NEW mem, NEW opr, NEW opr2,
           GoesOn(s, c, st, mem, opr), ~ IsJump(Head(s), c),
           IF Head(s).op = "memcpy" THEN opr2[Head(s).arg] = Head(s).size ELSE opr2 = opr
    PROVE  GoesOn(Tail(s), c, 0, mem, opr2)
<1>1. /\ c.size >= JUMP_HOOK_SIZE /\ c.target < 0 /\ c.kind \in Kinds /\ Planned(s, c)
      /\ Pending(s, c) \/ Written(mem, c)
      /\ Unmade(s, c) \/ opr[c.kind] = OperandOf(c)
    BY DEF GoesOn
<1>2. Planned(Tail(s), c) /\ (Pending(Tail(s), c) \/ Written(mem, c))
    BY <1>1, TailIsPlanned
<1>3. Unmade(Tail(s), c) \/ opr2[c.kind] = OperandOf(c)
    <2>1. CASE Head(s).op # "memcpy"
        BY <1>1, <2>1, TailIsPlanned
    <2>2. CASE Head(s).op = "memcpy" /\ Pending(s, c)
        <3>1. IsBefore(Head(s), c)
            BY <1>1, <2>2, TailIsPlanned
        <3> QED BY <2>2, <3>1 DEF IsBefore
    <2>3. CASE ~ Pending(s, c)
        <3>1. Len(s) \in Nat /\ Len(Tail(s)) = Len(s) - 1
              /\ \A i \in 1..(Len(s) - 1) : Tail(s)[i] = s[i + 1]
            BY EmptySeq, HeadTailProperties DEF Programs
        <3>2. \A i \in 1..(Len(s) - 1) : i + 1 \in 1..Len(s)
            BY <3>1
        <3>3. \A i \in 1..Len(Tail(s)) : ~ IsJump(Tail(s)[i], c)
            BY <2>3, <3>1, <3>2 DEF Pending
        <3> QED BY <3>3 DEF Unmade
    <2> QED BY <2>1, <2>2, <2>3
<1>4. ~ (0 > 0)
    OBVIOUS
<1> QED BY <1>1, <1>2, <1>3, <1>4 DEF GoesOn

LEMMA JumpGoesOn ==
    ASSUME NEW s \in Programs, s # <<>>, NEW c, NEW st, NEW mem, NEW mem2, NEW opr,
           GoesOn(s, c, st, mem, opr), IsJump(Head(s), c)
    PROVE  /\ opr[c.kind] = OperandOf(c)
           /\ mem2[c.function] = <<c.kind, 0>> => GoesOn(s, c, 1, mem2, opr)
           /\ Written(mem2, c) => GoesOn(Tail(s), c, 0, mem2, opr)
<1>1. /\ c.size >= JUMP_HOOK_SIZE /\ c.target < 0 /\ c.kind \in Kinds /\ Planned(s, c)
      /\ Unmade(s, c) \/ opr[c.kind] = OperandOf(c)
    BY DEF GoesOn
<1>2. opr[c.kind] = OperandOf(c) /\ Planned(Tail(s), c)
    BY <1>1, TailIsPlanned
<1>3. Pending(s, c)
    <2>1. Head(s) = s[1] /\ Len(s) \in Nat /\ Len(s) # 0
        BY EmptySeq, HeadTailProperties DEF Programs
    <2>2. 1 \in 1..Len(s)
        BY <2>1
    <2> QED BY <2>1, <2>2 DEF Pending
<1>4. ~ (0 > 0)
    OBVIOUS
<1> QED BY <1>1, <1>2, <1>3, <1>4 DEF GoesOn

LEMMA OthersGoOn ==
    ASSUME NEW s, NEW c, NEW st, NEW mem, NEW opr, NEW mem2, NEW opr2, GoesOn(s, c, st, mem, opr),
           mem2[c.function] = mem[c.function], mem2[c.function + 1] = mem[c.function + 1],
           Unmade(s, c) \/ opr2[c.kind] = opr[c.kind]
    PROVE  GoesOn(s, c, st, mem2, opr2)
BY DEF GoesOn, Written

LEMMA GoneStays ==
    ASSUME NEW mem, NEW mem2, NEW past, NEW function, GoesToItsTarget(mem, past, function),
           mem2[function] = mem[function], mem2[function + 1] = mem[function + 1]
    PROVE  GoesToItsTarget(mem2, past, function)
BY DEF GoesToItsTarget, Written

(* A step of a hook's program writes to no first bytes of another function, *)
(* and to those of its own only the jump.                                  *)
LEMMA FunctionsStay ==
    ASSUME NEW c, c.function \in Functions, c.size \in Sizes, c.size >= JUMP_HOOK_SIZE,
           NEW op \in Ops, IsJump(op, c) \/ IsBehind(op, c), op.op = "store",
           NEW g \in Functions, g # c.function \/ ~ IsJump(op, c)
    PROVE  /\ g \in 1..Cells /\ g + 1 \in 1..Cells
           /\ g \notin op.addr..(op.addr + op.size - 1)
           /\ g + 1 \notin op.addr..(op.addr + op.size - 1)
<1> DEFINE f == c.function
           n == c.size
           a == op.addr
           m == op.size
<1>1. f \in Nat /\ g \in Nat /\ g # 0 /\ n \in Nat /\ a \in Int /\ m \in Int /\ CodeSize \in Nat /\ Cells \in Nat
      /\ CodeSize <= Cells
    BY HookAssumption, MemoryAssumption DEF Ops
<1>2. g + n - 1 <= CodeSize /\ (f < g => f + n <= g) /\ (g < f => g + n <= f) /\ n >= 2
    BY FunctionsAreApart DEF JUMP_HOOK_SIZE
<1>3. CASE IsBehind(op, c)
    <2>1. a > CodeSize \/ (a >= f + 2 /\ a + m <= f + n)
        BY <1>3 DEF IsBehind, JUMP_HOOK_SIZE
    <2> HIDE DEF f, n, a, m
    <2>2. g \in 1..Cells /\ g + 1 \in 1..Cells /\ g \notin a..(a + m - 1) /\ g + 1 \notin a..(a + m - 1)
        BY <1>1, <1>2, <2>1
    <2> QED BY <2>2 DEF a, m
<1>4. CASE IsJump(op, c)
    <2>1. a = f /\ m = 2 /\ g # f
        BY <1>4 DEF IsJump, JUMP_HOOK_SIZE
    <2> HIDE DEF f, n, a, m
    <2>2. g \in 1..Cells /\ g + 1 \in 1..Cells /\ g \notin a..(a + m - 1) /\ g + 1 \notin a..(a + m - 1)
        BY <1>1, <1>2, <2>1
    <2> QED BY <2>2 DEF a, m
<1> QED BY <1>3, <1>4

-----------------------------------------------------------------------------
(* The steps of the threads.                                               *)

Moves(t, prog, c, st) ==
    /\ todo' = [todo EXCEPT ![t] = prog] /\ call' = [call EXCEPT ![t] = c]
    /\ stored' = [stored EXCEPT ![t] = st]

LEMMA MovesAre ==
    ASSUME ThreadsInv, NEW t \in Threads, NEW prog, NEW c, NEW st, Moves(t, prog, c, st)
    PROVE  /\ todo'[t] = prog /\ call'[t] = c /\ stored'[t] = st
           /\ \A u \in Threads : u # t =>
                 todo'[u] = todo[u] /\ call'[u] = call[u] /\ stored'[u] = stored[u]
<1>1. /\ todo \in [Threads -> Programs] /\ call \in [Threads -> CallType]
      /\ stored \in [Threads -> Nat]
    BY DEF ThreadsInv
<1>2. todo'[t] = prog /\ \A u \in Threads : u # t => todo'[u] = todo[u]
    BY <1>1 DEF Moves
<1>3. call'[t] = c /\ \A u \in Threads : u # t => call'[u] = call[u]
    BY <1>1 DEF Moves
<1>4. stored'[t] = st /\ \A u \in Threads : u # t => stored'[u] = stored[u]
    BY <1>1 DEF Moves
<1> QED BY <1>2, <1>3, <1>4

(* One thread goes on with its call, and disturbs no other.                *)
LEMMA HookedMoves ==
    ASSUME ThreadsInv, HookedInv, ~ disturbed, NEW t \in Threads, NEW prog, NEW c, NEW st,
           Moves(t, prog, c, st), log' = log, call[t] # NoCall, c.function = call[t].function,
           GoesOn(prog, c, st, memory', operand'),
           \A u \in Threads \ {t} : call[u] # NoCall =>
               GoesOn(todo[u], call[u], stored[u], memory', operand'),
           \A g \in Functions : g # call[t].function /\ GoesToItsTarget(memory, log, g) =>
               GoesToItsTarget(memory', log, g)
    PROVE  HookedInv'
<1>1. /\ todo'[t] = prog /\ call'[t] = c /\ stored'[t] = st
      /\ \A u \in Threads : u # t =>
            todo'[u] = todo[u] /\ call'[u] = call[u] /\ stored'[u] = stored[u]
    BY MovesAre
<1>2. \A u \in Threads : call'[u].function = call[u].function
    BY <1>1
<1>3. /\ \A u \in Threads : call[u] # NoCall =>
            \A v \in Threads \ {u} : call[v].function # call[u].function
      /\ \A function \in Functions :
            CallsOf(function) # {} /\ (\A u \in Threads : call[u].function # function)
                => GoesToItsTarget(memory, log, function)
    BY DEF HookedInv
<1>4. \A u \in Threads : call'[u] # NoCall =>
          GoesOn(todo'[u], call'[u], stored'[u], memory', operand')
    BY <1>1
<1>5. \A u \in Threads : call'[u] # NoCall =>
          \A v \in Threads \ {u} : call'[v].function # call'[u].function
    BY <1>1, <1>2, <1>3
<1>6. \A function \in Functions :
          CallsOf(function)' # {} /\ (\A u \in Threads : call'[u].function # function)
              => GoesToItsTarget(memory', log', function)
    BY <1>2, <1>3 DEF CallsOf
<1> QED BY <1>4, <1>5, <1>6 DEF HookedInv

LEMMA InCall ==
    ASSUME ThreadsInv, HookedInv, ~ disturbed, NEW t \in Threads, todo[t] # <<>> \/ call[t] # NoCall
    PROVE  /\ call[t] # NoCall /\ todo[t] \in Programs
           /\ call[t].function \in Functions /\ call[t].size \in Sizes /\ call[t].size >= JUMP_HOOK_SIZE
           /\ call[t].kind \in Kinds /\ call[t].target \in Int
           /\ stored[t] > 0 => internal /\ todo[t] # <<>> /\ Head(todo[t]).op = "store"
           /\ GoesOn(todo[t], call[t], stored[t], memory, operand)
           /\ \A u \in Threads \ {t} : call[u] # NoCall => call[u].function # call[t].function
<1>1. ThreadOK(todo[t], call[t], stored[t], buffer[t], internal)
    BY DEF ThreadsInv
<1>2. call[t] # NoCall /\ call[t] \in CallType
    BY <1>1 DEF ThreadOK
<1>3. GoesOn(todo[t], call[t], stored[t], memory, operand)
      /\ \A u \in Threads \ {t} : call[u].function # call[t].function
    BY <1>2 DEF HookedInv
<1> QED BY <1>1, <1>2, <1>3 DEF ThreadOK, WellMade, CallType, GoesOn

(* A step that writes nothing but, perhaps, the shared jump bytes.         *)
LEMMA StepHooked ==
    ASSUME ThreadsInv, HookedInv, ~ disturbed, NEW t \in Threads, todo[t] # <<>>,
           Head(todo[t]).op # "store", Done(t), UNCHANGED <<memory, call, stored, log>>,
           IF Head(todo[t]).op = "memcpy" THEN operand'[Head(todo[t]).arg] = Head(todo[t]).size
                                          ELSE operand' = operand,
           \A u \in Threads \ {t} : call[u] # NoCall =>
               Unmade(todo[u], call[u]) \/ operand'[call[u].kind] = operand[call[u].kind]
    PROVE  HookedInv'
<1>1. /\ call[t] # NoCall /\ todo[t] \in Programs /\ stored[t] \in Nat
      /\ GoesOn(todo[t], call[t], stored[t], memory, operand)
    BY InCall DEF ThreadsInv
<1>2. stored[t] = 0
    BY InCall, <1>1
<1>3. Moves(t, Tail(todo[t]), call[t], 0)
    BY <1>2, ThreadsStay DEF Done, Moves
<1>4. ~ IsJump(Head(todo[t]), call[t])
    BY DEF IsJump
<1>5. GoesOn(Tail(todo[t]), call[t], 0, memory', operand')
    BY <1>1, <1>4, StepGoesOn
<1>6. \A u \in Threads \ {t} : call[u] # NoCall =>
          GoesOn(todo[u], call[u], stored[u], memory', operand')
    <2> TAKE u \in Threads \ {t}
    <2> HAVE call[u] # NoCall
    <2>1. GoesOn(todo[u], call[u], stored[u], memory, operand)
        BY InCall
    <2> QED BY <2>1, OthersGoOn
<1> QED BY <1>1, <1>3, <1>5, <1>6, HookedMoves

LEMMA MemcpyHooked ==
    ASSUME ThreadsInv, CellsInv, HookedInv, ~ disturbed, ~ disturbed', NEW t \in Threads, Memcpy(t)
    PROVE  HookedInv'
<1> DEFINE arg == Head(todo[t]).arg
<1>1. /\ todo[t] # <<>> /\ Head(todo[t]).op = "memcpy" /\ Done(t)
      /\ UNCHANGED <<memory, call, stored, log>>
      /\ operand' = [operand EXCEPT ![arg] = Head(todo[t]).size]
      /\ \A u \in Threads \ {t} : ~ InUse(u, arg)
    BY DEF Memcpy, Does
<1>2. arg \in Kinds
    <2>1. WellMade(todo[t], StolenSize(todo[t], call[t], buffer[t]))
        BY DEF ThreadsInv, ThreadOK
    <2>2. Head(todo[t]) = todo[t][1] /\ Len(todo[t]) \in Nat \ {0}
        BY <1>1, <2>1, TailIsWellMade
    <2>3. 1 \in 1..Len(todo[t])
        BY <2>2
    <2> QED BY <1>1, <2>1, <2>2, <2>3 DEF WellMade, Memcpys
<1> HIDE DEF arg
<1>3. operand'[arg] = Head(todo[t]).size /\ \A kind \in Kinds : kind # arg => operand'[kind] = operand[kind]
    BY <1>1, <1>2 DEF CellsInv
<1>4. ASSUME NEW u \in Threads \ {t}, call[u] # NoCall, call[u].kind = arg
      PROVE  Unmade(todo[u], call[u])
    <2> DEFINE s == todo[u]
    <2>1. ASSUME NEW i \in 1..Len(s), IsJump(s[i], call[u]) PROVE \E j \in 1..(i - 1) : s[j].op = "memcpy"
        <3>1. s[i].op = "store" /\ s[i].arg = arg
            BY <1>4, <2>1 DEF IsJump
        <3>2. PICK k \in 1..i : s[k].op = "memcpy"
            BY <1>1, <3>1 DEF InUse
        <3>3. k # i
            BY <3>1, <3>2
        <3>4. k \in 1..(i - 1)
            BY <3>3
        <3> QED BY <3>2, <3>4
    <2> QED BY <2>1 DEF Unmade
<1>5. \A u \in Threads \ {t} : call[u] # NoCall =>
          Unmade(todo[u], call[u]) \/ operand'[call[u].kind] = operand[call[u].kind]
    <2> TAKE u \in Threads \ {t}
    <2> HAVE call[u] # NoCall
    <2>1. call[u].kind \in Kinds
        BY InCall
    <2> QED BY <1>3, <1>4, <2>1
<1> QED BY <1>1, <1>3, <1>5, StepHooked DEF arg

LEMMA OtherStepsHooked ==
    ASSUME ThreadsInv, HookedInv, ~ disturbed, NEW t \in Threads,
           Steal(t) \/ (WriteStep(t) /\ (Protect(t) \/ Restore(t)))
    PROVE  HookedInv'
<1>1. /\ todo[t] # <<>> /\ Head(todo[t]).op \in {"read", "protect", "restore"} /\ Done(t)
      /\ UNCHANGED <<memory, call, stored, log, operand>>
    BY DEF Steal, Read, WriteStep, Protect, Restore, Does, hook_vars
<1> QED BY <1>1, StepHooked

LEMMA AllocHooked ==
    ASSUME ThreadsInv, HookedInv, ~ disturbed, ~ disturbed', NEW t \in Threads, Alloc(t)
    PROVE  HookedInv'
<1>1. /\ todo[t] # <<>> /\ Head(todo[t]).op = "alloc" /\ Done(t)
      /\ UNCHANGED <<memory, call, stored, log, operand>>
    BY DEF Alloc, Does
<1> QED BY <1>1, StepHooked

-----------------------------------------------------------------------------
(* A store that is the jump writes the operand of its call.                *)
LEMMA JumpBytes ==
    ASSUME ThreadsInv, HookedInv, ~ disturbed, NEW t \in Threads, todo[t] # <<>>,
           IsJump(Head(todo[t]), call[t])
    PROVE  /\ Bytes(t)[1] = <<call[t].kind, 0>>
           /\ Bytes(t)[2] = <<"operand", OperandOf(call[t])>>
<1>1. /\ todo[t] \in Programs /\ call[t].kind \in Kinds
      /\ GoesOn(todo[t], call[t], stored[t], memory, operand)
    BY InCall
<1>2. operand[call[t].kind] = OperandOf(call[t])
    BY <1>1, JumpGoesOn
<1>3. Head(todo[t]).arg = call[t].kind /\ call[t].kind \notin {"stolen", "nop"}
    BY <1>1, KindsAre DEF IsJump
<1>4. Bytes(t) = << <<call[t].kind, 0>>, <<"operand", OperandOf(call[t])>> >>
    BY <1>2, <1>3 DEF Bytes
<1> QED BY <1>4

(* A store that changes nothing outside its range, and writes the jump if  *)
(* it is the jump.                                                         *)
LEMMA WritesHooked ==
    ASSUME ThreadsInv, HookedInv, ~ disturbed, NEW t \in Threads, todo[t] # <<>>,
           Head(todo[t]).op = "store", UNCHANGED <<call, operand, log>>,
           \A a \in 1..Cells :
               a \notin Head(todo[t]).addr..(Head(todo[t]).addr + Head(todo[t]).size - 1) =>
                   memory'[a] = memory[a],
           NEW prog, NEW st, Moves(t, prog, call[t], st),
           \/ /\ prog = todo[t]
              /\ IsJump(Head(todo[t]), call[t]) =>
                     st = 1 /\ memory'[call[t].function] = <<call[t].kind, 0>>
           \/ /\ prog = Tail(todo[t]) /\ st = 0
              /\ IsJump(Head(todo[t]), call[t]) => Written(memory', call[t])
    PROVE  HookedInv'
<1> DEFINE op == Head(todo[t])
           s == todo[t]
           c == call[t]
<1>1. /\ c # NoCall /\ s \in Programs /\ c.function \in Functions /\ c.size \in Sizes
      /\ c.size >= JUMP_HOOK_SIZE /\ GoesOn(s, c, stored[t], memory, operand)
    BY InCall
<1>2. op \in Ops /\ (IsJump(op, c) \/ IsBehind(op, c))
    <2>1. WellMade(s, StolenSize(s, c, buffer[t]))
        BY DEF ThreadsInv, ThreadOK
    <2> QED BY <1>1, <2>1, TailIsWellMade, TailIsPlanned DEF GoesOn
<1>3. ASSUME NEW g \in Functions, g # c.function \/ ~ IsJump(op, c)
      PROVE  memory'[g] = memory[g] /\ memory'[g + 1] = memory[g + 1]
    BY <1>1, <1>2, <1>3, FunctionsStay
<1>4. GoesOn(prog, c, st, memory', operand')
    <2>1. CASE IsJump(op, c)
        BY ZenonT(30), <1>1, <2>1, JumpGoesOn
    <2>2. CASE ~ IsJump(op, c)
        <3>1. memory'[c.function] = memory[c.function]
              /\ memory'[c.function + 1] = memory[c.function + 1]
            BY <1>1, <1>3, <2>2
        <3>2. GoesOn(s, c, st, memory, operand)
            BY <1>1, <2>2 DEF GoesOn
        <3>3. GoesOn(Tail(s), c, 0, memory, operand)
            BY <1>1, <2>2, StepGoesOn
        <3>4. GoesOn(prog, c, st, memory, operand)
            BY <3>2, <3>3
        <3> QED BY <3>1, <3>4, OthersGoOn
    <2> QED BY <2>1, <2>2
<1>5. \A u \in Threads \ {t} : call[u] # NoCall =>
          GoesOn(todo[u], call[u], stored[u], memory', operand')
    <2> TAKE u \in Threads \ {t}
    <2> HAVE call[u] # NoCall
    <2>1. /\ GoesOn(todo[u], call[u], stored[u], memory, operand)
          /\ call[u].function \in Functions /\ call[u].function # c.function
        BY <1>1, InCall
    <2>2. memory'[call[u].function] = memory[call[u].function]
          /\ memory'[call[u].function + 1] = memory[call[u].function + 1]
        BY <1>3, <2>1
    <2> QED BY <2>1, <2>2, OthersGoOn
<1>6. \A g \in Functions : g # c.function /\ GoesToItsTarget(memory, log, g) =>
          GoesToItsTarget(memory', log, g)
    BY <1>3, GoneStays
<1> QED BY <1>1, <1>4, <1>5, <1>6, HookedMoves

LEMMA StoreHooked ==
    ASSUME ThreadsInv, CellsInv, HookedInv, ~ disturbed, NEW t \in Threads,
           Store(t, Bytes(t)), UNCHANGED hook_vars
    PROVE  HookedInv'
<1> DEFINE op == Head(todo[t])
           s == todo[t]
           c == call[t]
           bytes == Bytes(t)
           addr == op.addr + stored[t]
<1>1. /\ s # <<>> /\ op.op = "store" /\ UNCHANGED <<call, operand, log, disturbed>>
    BY DEF Store, Does, hook_vars
<1>2. /\ WellMade(s, StolenSize(s, c, buffer[t])) /\ stored[t] \in Nat
      /\ stored[t] > 0 => stored[t] < op.size
    BY DEF ThreadsInv, ThreadOK
<1>3. op \in Ops /\ op.addr \in Int /\ op.size \in Int /\ op.size > 0
    <2>1. op = s[1] /\ op \in Ops /\ Len(s) \in Nat \ {0}
        BY <1>1, <1>2, TailIsWellMade
    <2>2. 1 \in 1..Len(s)
        BY <2>1
    <2> QED BY <1>1, <1>2, <2>1, <2>2 DEF WellMade, Sources, Ops
<1>4. CASE UNCHANGED <<memory, stored, todo>>
    BY <1>1, <1>4 DEF HookedInv, CallsOf
<1>5. ASSUME memory' = [memory EXCEPT ![addr] = bytes[stored[t] + 1]],
             IF stored[t] + 1 < op.size
             THEN stored' = [stored EXCEPT ![t] = @ + 1] /\ UNCHANGED todo
             ELSE stored' = [stored EXCEPT ![t] = 0] /\ Done(t)
      PROVE  HookedInv'
    <2>1. memory \in [1..Cells -> CellType]
        BY DEF CellsInv
    <2>2. addr \in Int /\ addr \in op.addr..(op.addr + op.size - 1)
        BY <1>2, <1>3
    <2>3. /\ \A a \in 1..Cells : a # addr => memory'[a] = memory[a]
          /\ addr \in 1..Cells => memory'[addr] = bytes[stored[t] + 1]
        BY <1>5, <2>1
    <2>4. call' = [call EXCEPT ![t] = c] /\ todo = [todo EXCEPT ![t] = s]
        BY <1>1, ThreadsStay
    <2>5. \A a \in 1..Cells : a \notin op.addr..(op.addr + op.size - 1) => memory'[a] = memory[a]
        BY <2>2, <2>3
    <2>6. ASSUME IsJump(op, c)
          PROVE  /\ op.addr = c.function /\ op.size = 2 /\ stored[t] \in {0, 1}
                 /\ c.function \in 1..Cells /\ c.function + 1 \in 1..Cells
                 /\ bytes[1] = <<c.kind, 0>> /\ bytes[2] = <<"operand", OperandOf(c)>>
        <3>1. op.addr = c.function /\ op.size = 2
            BY <2>6 DEF IsJump, JUMP_HOOK_SIZE
        <3>2. stored[t] \in {0, 1}
            BY <1>2, <3>1
        <3>3. /\ c.function \in Functions /\ c.size \in Sizes /\ c.size >= JUMP_HOOK_SIZE
            BY <1>1, InCall
        <3>4. /\ c.function \in Nat /\ c.function # 0 /\ c.size \in Nat /\ c.function + c.size - 1 <= Cells
              /\ Cells \in Nat
            BY <3>3, HookAssumption, MemoryAssumption
        <3>5. c.function \in 1..Cells /\ c.function + 1 \in 1..Cells
            BY <3>3, <3>4 DEF JUMP_HOOK_SIZE
        <3> QED BY <1>1, <2>6, <3>1, <3>2, <3>5, JumpBytes
    <2> HIDE DEF op, s, c, bytes
    <2>7. CASE stored[t] + 1 < op.size
        <3>1. Moves(t, s, c, stored[t] + 1)
            BY <1>5, <2>4, <2>7 DEF Moves
        <3>2. ASSUME IsJump(op, c) PROVE stored[t] + 1 = 1 /\ memory'[c.function] = <<c.kind, 0>>
            <4>1. stored[t] = 0 /\ addr = c.function
                BY <1>2, <2>6, <2>7, <3>2
            <4> QED BY <2>3, <2>6, <3>2, <4>1
        <3> QED BY <1>1, <2>5, <3>1, <3>2, WritesHooked DEF op, s, c
    <2>8. CASE ~ (stored[t] + 1 < op.size)
        <3>1. Moves(t, Tail(s), c, 0)
            BY <1>5, <2>4, <2>8 DEF Moves, Done, s
        <3>2. ASSUME IsJump(op, c) PROVE Written(memory', c)
            <4>1. stored[t] = 1 /\ addr = c.function + 1 /\ c.function # addr /\ stored[t] + 1 = 2
                BY <1>2, <2>6, <2>8, <3>2
            <4>2. memory[c.function] = <<c.kind, 0>>
                <5>1. GoesOn(s, c, stored[t], memory, operand)
                    BY <1>1, InCall DEF s, c
                <5> QED BY <3>2, <4>1, <5>1 DEF GoesOn, op, s
            <4>3. memory'[c.function] = <<c.kind, 0>> /\ memory'[c.function + 1] = bytes[2]
                BY <2>3, <2>6, <3>2, <4>1, <4>2
            <4> QED BY <2>6, <3>2, <4>3 DEF Written
        <3> QED BY <1>1, <2>5, <3>1, <3>2, WritesHooked DEF op, s, c
    <2> QED BY <2>7, <2>8
<1> HIDE DEF bytes, addr
<1>6. \/ UNCHANGED <<memory, stored, todo>>
      \/ /\ memory' = [memory EXCEPT ![addr] = bytes[stored[t] + 1]]
         /\ IF stored[t] + 1 < op.size
            THEN stored' = [stored EXCEPT ![t] = @ + 1] /\ UNCHANGED todo
            ELSE stored' = [stored EXCEPT ![t] = 0] /\ Done(t)
    BY DEF Store, bytes, addr
<1> QED BY <1>4, <1>5, <1>6

(* A WriteProcessMemory that does not fail stores all of it.               *)
LEMMA WholeStores ==
    ASSUME ThreadsInv, NEW t \in Threads, StoreExternal(t, Bytes(t)), ~ disturbed'
    PROVE  LET op == Head(todo[t])
           IN  memory' = [a \in 1..Cells |-> IF a \in op.addr..(op.addr + op.size - 1)
                                            THEN Bytes(t)[a - op.addr + 1] ELSE memory[a]]
<1> DEFINE op == Head(todo[t])
<1>1. op.size \in Int
    <2>1. todo[t] # <<>> /\ WellMade(todo[t], StolenSize(todo[t], call[t], buffer[t]))
        BY DEF StoreExternal, Does, ThreadsInv, ThreadOK
    <2> QED BY <2>1, TailIsWellMade DEF Ops
<1>2. PICK n \in 0..op.size :
          /\ memory' = [a \in 1..Cells |-> IF a \in op.addr..(op.addr + n - 1)
                                           THEN Bytes(t)[a - op.addr + 1] ELSE memory[a]]
          /\ disturbed' = (disturbed \/ n < op.size)
    BY DEF StoreExternal
<1> HIDE DEF op
<1>3. ~ (n < op.size)
    BY Zenon, <1>2
<1>4. n = op.size
    BY <1>1, <1>2, <1>3
<1> QED BY <1>2, <1>4 DEF op

LEMMA StoreExternalHooked ==
    ASSUME ThreadsInv, CellsInv, HookedInv, ~ disturbed, ~ disturbed', NEW t \in Threads,
           StoreExternal(t, Bytes(t)), UNCHANGED hook_vars
    PROVE  HookedInv'
<1> DEFINE op == Head(todo[t])
           s == todo[t]
           c == call[t]
           bytes == Bytes(t)
           range == op.addr..(op.addr + op.size - 1)
<1>1. /\ s # <<>> /\ op.op = "store" /\ ~ internal /\ UNCHANGED <<call, operand, log, stored>>
      /\ Done(t)
    BY DEF StoreExternal, Does, hook_vars
<1>3. memory' = [a \in 1..Cells |-> IF a \in range THEN bytes[a - op.addr + 1] ELSE memory[a]]
    BY WholeStores
<1>2. stored[t] = 0 /\ stored[t] \in Nat
    <2>1. stored[t] \in Nat /\ (stored[t] > 0 => internal)
        BY DEF ThreadsInv, ThreadOK
    <2> QED BY <1>1, <2>1
<1>4. Moves(t, Tail(s), c, 0)
    <2>1. stored' = [stored EXCEPT ![t] = 0] /\ call' = [call EXCEPT ![t] = c]
        BY <1>1, <1>2, ThreadsStay
    <2> QED BY <1>1, <2>1 DEF Moves, Done
<1> HIDE DEF bytes, range
<1>5. \A a \in 1..Cells : memory'[a] = IF a \in range THEN bytes[a - op.addr + 1] ELSE memory[a]
    BY <1>3
<1>6. ASSUME IsJump(op, c) PROVE Written(memory', c)
    <2>1. op.addr = c.function /\ op.size = 2
        BY <1>6 DEF IsJump, JUMP_HOOK_SIZE
    <2>2. /\ c.function \in Functions /\ c.size \in Sizes /\ c.size >= JUMP_HOOK_SIZE
        BY <1>1, InCall
    <2>3. /\ c.function \in Nat /\ c.function # 0 /\ c.size \in Nat /\ c.function + c.size - 1 <= Cells
          /\ Cells \in Nat
        BY <2>2, HookAssumption, MemoryAssumption
    <2>4. /\ c.function \in 1..Cells /\ c.function + 1 \in 1..Cells
          /\ c.function - op.addr + 1 = 1 /\ (c.function + 1) - op.addr + 1 = 2
          /\ c.function \in range /\ c.function + 1 \in range
        BY <2>1, <2>2, <2>3 DEF JUMP_HOOK_SIZE, range
    <2>5. memory'[c.function] = bytes[1] /\ memory'[c.function + 1] = bytes[2]
        BY <1>5, <2>4
    <2> QED BY <1>1, <1>6, <2>5, JumpBytes DEF Written, bytes
<1>7. \A a \in 1..Cells : a \notin op.addr..(op.addr + op.size - 1) => memory'[a] = memory[a]
    BY <1>5 DEF range
<1> QED BY <1>1, <1>4, <1>6, <1>7, WritesHooked

LEMMA CallHooked ==
    ASSUME ThreadsInv, CountInv, HookedInv, ~ disturbed, ~ disturbed', NEW t \in Threads,
           NEW function \in Functions, NEW size \in Sizes, NEW kind \in Kinds, NEW keep \in BOOLEAN,
           Call(t, function, size, kind, keep)
    PROVE  HookedInv'
<1> DEFINE target == -(calls + 1)
           original == Allocated(calls + 1)
           c == [NoCall EXCEPT !.function = function, !.size = size, !.target = target,
                               !.kind = kind, !.original = IF keep THEN original ELSE 0]
           prog == IF keep THEN trampoline(kind, function, target, size, original)
                           ELSE jmp(kind, function, target, size)
<1>1. /\ call' = [call EXCEPT ![t] = c] /\ todo' = [todo EXCEPT ![t] = prog]
      /\ UNCHANGED <<memory, stored, operand, log>> /\ call[t] = NoCall
      /\ size >= JUMP_HOOK_SIZE /\ calls < MaxCalls /\ Others(t, function) = {}
    BY DEF Call
<1>2. calls + 1 \in Nat /\ calls + 1 # 0 /\ MaxCalls # 0 /\ target \in Int /\ target < 0
    BY <1>1, HookAssumption DEF CountInv
<1> HIDE DEF target
<1>3. original \in Int /\ original > CodeSize
    BY <1>2, AllocatedIsNew
<1> HIDE DEF original
<1>4. c.function = function /\ c.size = size /\ c.target = target /\ c.kind = kind
    BY DEF NoCall
<1> HIDE DEF c
<1>5. IsCall(c)
    <2>1. function \in Nat /\ size \in Nat /\ CodeSize \in Nat /\ function + size - 1 <= CodeSize
        BY HookAssumption, MemoryAssumption, FunctionsAreApart
    <2>2. function \in Int /\ function <= CodeSize
        BY <1>1, <2>1 DEF JUMP_HOOK_SIZE
    <2> QED BY <1>1, <1>2, <1>4, <2>1, <2>2 DEF IsCall
<1>6. IsPlan(prog, c)
    <2>1. IsPlan(trampoline(c.kind, c.function, c.target, c.size, original), c)
        BY <1>3, <1>5, TrampolineIsPlan
    <2>2. IsPlan(jmp(c.kind, c.function, c.target, c.size), c)
        BY <1>5, JumpIsPlan
    <2> QED BY <1>4, <2>1, <2>2
<1> HIDE DEF prog
<1>7. GoesOn(prog, c, 0, memory, operand)
    <2>1. ~ (0 > 0)
        OBVIOUS
    <2> QED BY <1>1, <1>2, <1>4, <1>6, <2>1 DEF IsPlan, GoesOn
<1>8. stored[t] = 0
    <2>1. ThreadOK(todo[t], call[t], stored[t], buffer[t], internal)
        BY DEF ThreadsInv
    <2> QED BY <1>1, <2>1 DEF ThreadOK
<1>9. Moves(t, prog, c, 0)
    <2>1. stored' = [stored EXCEPT ![t] = 0]
        BY <1>1, <1>8, ThreadsStay
    <2> QED BY <1>1, <2>1 DEF Moves
<1>10. /\ todo'[t] = prog /\ call'[t] = c /\ stored'[t] = 0
       /\ \A u \in Threads : u # t =>
             todo'[u] = todo[u] /\ call'[u] = call[u] /\ stored'[u] = stored[u]
    BY <1>9, MovesAre
<1>11. \A u \in Threads : u # t => call[u].function # function
    BY <1>1 DEF Others
<1>12. /\ \A u \in Threads : call[u] # NoCall =>
            /\ GoesOn(todo[u], call[u], stored[u], memory, operand)
            /\ \A v \in Threads \ {u} : call[v].function # call[u].function
       /\ \A g \in Functions :
            CallsOf(g) # {} /\ (\A u \in Threads : call[u].function # g)
                => GoesToItsTarget(memory, log, g)
    BY DEF HookedInv
<1>13. \A u \in Threads : call'[u] # NoCall =>
           GoesOn(todo'[u], call'[u], stored'[u], memory', operand')
    BY <1>1, <1>7, <1>10, <1>12
<1>14. \A u \in Threads : call'[u] # NoCall =>
           \A v \in Threads \ {u} : call'[v].function # call'[u].function
    BY <1>4, <1>10, <1>11, <1>12
<1>15. \A g \in Functions :
           CallsOf(g)' # {} /\ (\A u \in Threads : call'[u].function # g)
               => GoesToItsTarget(memory', log', g)
    <2>1. \A g \in Functions : call[t].function # g
        BY <1>1, HookAssumption DEF NoCall
    <2>2. \A g : CallsOf(g)' = CallsOf(g)
        BY <1>1 DEF CallsOf
    <2> QED BY <1>1, <1>10, <1>12, <2>1, <2>2
<1> QED BY <1>13, <1>14, <1>15 DEF HookedInv

LEMMA ReturnHooked ==
    ASSUME ThreadsInv, CountInv, HookedInv, ~ disturbed, NEW t \in Threads, Return(t)
    PROVE  HookedInv'
<1> DEFINE c == call[t]
           d == [call[t] EXCEPT
                    !.before  = before[t],
                    !.movable = \A i \in 1..Len(buffer[t]) : buffer[t][i][1] # "relative"]
<1>1. /\ c # NoCall /\ todo[t] = <<>> /\ log' = Append(log, d)
      /\ call' = [call EXCEPT ![t] = NoCall]
      /\ UNCHANGED <<memory, todo, stored, operand>>
    BY DEF Return
<1>2. c \in CallType
    BY DEF ThreadsInv
<1>3. d.function = c.function /\ d.target = c.target /\ d.kind = c.kind /\ d.size = c.size
    BY <1>2 DEF CallType
<1> HIDE DEF d
<1>4. /\ Len(log) \in Nat /\ Len(log') = Len(log) + 1 /\ log'[Len(log) + 1] = d
      /\ \A i \in 1..Len(log) : log'[i] = log[i]
    <2>1. PICK S : log \in Seq(S)
        BY DEF CountInv
    <2>2. log \in Seq(S \cup {d}) /\ d \in S \cup {d}
        BY <2>1, SeqMonotonic
    <2> QED BY <1>1, <2>2, AppendProperties, LenProperties
<1>5. /\ GoesOn(todo[t], c, stored[t], memory, operand) /\ c.function \in Functions
      /\ c.kind \in Kinds
      /\ \A u \in Threads \ {t} : call[u] # NoCall => call[u].function # c.function
    BY <1>1, InCall
<1>6. Written(memory, c) /\ IsHook(c)
    <2>1. \A i \in 1..Len(<<>>) : FALSE
        BY EmptySeq
    <2>2. ~ Pending(todo[t], c)
        BY <1>1, <2>1 DEF Pending
    <2>3. c.target < 0 /\ Written(memory, c)
        BY <1>5, <2>2 DEF GoesOn
    <2>4. c.size \in Sizes /\ c.size >= JUMP_HOOK_SIZE /\ c.target \in Int
        BY <1>1, InCall
    <2> QED BY <1>5, <2>3, <2>4 DEF IsHook
<1>7. Moves(t, <<>>, NoCall, stored[t])
    <2>1. todo' = [todo EXCEPT ![t] = <<>>] /\ stored' = [stored EXCEPT ![t] = stored[t]]
        BY <1>1, ThreadsStay
    <2> QED BY <1>1, <2>1 DEF Moves
<1>8. /\ todo'[t] = <<>> /\ call'[t] = NoCall /\ stored'[t] = stored[t]
      /\ \A u \in Threads : u # t =>
            todo'[u] = todo[u] /\ call'[u] = call[u] /\ stored'[u] = stored[u]
    BY <1>7, MovesAre
<1>9. /\ \A u \in Threads : call[u] # NoCall =>
            /\ GoesOn(todo[u], call[u], stored[u], memory, operand)
            /\ \A v \in Threads \ {u} : call[v].function # call[u].function
      /\ \A g \in Functions :
            CallsOf(g) # {} /\ (\A u \in Threads : call[u].function # g)
                => GoesToItsTarget(memory, log, g)
    BY DEF HookedInv
<1>10. \A u \in Threads : call'[u] # NoCall =>
           GoesOn(todo'[u], call'[u], stored'[u], memory', operand')
    BY <1>1, <1>8, <1>9
<1>11. ASSUME NEW u \in Threads, call'[u] # NoCall, NEW v \in Threads \ {u}
       PROVE  call'[v].function # call'[u].function
    <2>1. u # t /\ call'[u] = call[u] /\ call[u] # NoCall /\ call[u].function \in Functions
        BY <1>8, <1>11, InCall
    <2>2. NoCall.function \notin Functions
        BY HookAssumption DEF NoCall
    <2> QED BY <1>8, <1>9, <2>1, <2>2
<1>12. ASSUME NEW g \in Functions, CallsOf(g)' # {}, \A u \in Threads : call'[u].function # g
       PROVE  GoesToItsTarget(memory', log', g)
    <2>1. CASE g = c.function
        <3>1. Len(log) + 1 \in 1..Len(log')
            BY <1>4
        <3>2. \A j \in 1..Len(log') : j <= Len(log) + 1
            BY <1>4
        <3>3. Written(memory', d)
            BY <1>1, <1>3, <1>6 DEF Written, OperandOf
        <3>4. IsHook(d) /\ d.function = g
            BY <1>3, <1>6, <2>1 DEF IsHook
        <3> QED BY <1>4, <3>1, <3>2, <3>3, <3>4 DEF GoesToItsTarget
    <2>2. CASE g # c.function
        <3>1. \A u \in Threads : call[u].function # g
            BY <1>8, <1>12, <2>2
        <3>2. \A i \in 1..Len(log') : i \in 1..Len(log) \/ i = Len(log) + 1
            BY <1>4
        <3>3. CallsOf(g) # {}
            <4>1. PICK i \in 1..Len(log') : log'[i].function = g
                BY <1>12 DEF CallsOf
            <4>2. i \in 1..Len(log)
                BY <1>3, <1>4, <2>2, <3>2, <4>1
            <4> QED BY <1>4, <4>1, <4>2 DEF CallsOf
        <3>4. GoesToItsTarget(memory, log, g)
            BY <1>9, <3>1, <3>3
        <3>5. PICK i \in 1..Len(log) :
                  /\ \A j \in 1..Len(log) : log[j].function = g => j <= i
                  /\ log[i].function = g /\ IsHook(log[i]) /\ Written(memory, log[i])
            BY <3>4 DEF GoesToItsTarget
        <3>6. i \in 1..Len(log') /\ log'[i] = log[i]
            BY <1>4
        <3>7. \A j \in 1..Len(log') : log'[j].function = g => j <= i
            BY <1>3, <1>4, <2>2, <3>2, <3>5
        <3> QED BY <1>1, <3>5, <3>6, <3>7 DEF GoesToItsTarget
    <2> QED BY <2>1, <2>2
<1> QED BY <1>10, <1>11, <1>12 DEF HookedInv

LEMMA HookedInit == HookInit => HookedInv
<1> SUFFICES ASSUME HookInit PROVE HookedInv
    OBVIOUS
<1>1. \A t \in Threads : call[t] = NoCall
    BY DEF HookInit
<1>2. \A g : CallsOf(g) = {}
    <2>1. log = <<>>
        BY DEF HookInit
    <2>2. \A i \in 1..Len(log) : FALSE
        BY <2>1, EmptySeq
    <2> QED BY <2>2 DEF CallsOf
<1> QED BY <1>1, <1>2 DEF HookedInv

LEMMA HookedStep ==
    ASSUME ThreadsInv, CellsInv, CountInv, PagesInv, HookedInv, [HookNext]_hooking_vars
    PROVE  HookedInv'
<1>1. CASE disturbed'
    BY <1>1 DEF HookedInv
<1>2. CASE UNCHANGED hooking_vars
    BY <1>2 DEF HookedInv, CallsOf, hooking_vars, hook_vars
<1> SUFFICES ASSUME ~ disturbed', HookNext PROVE HookedInv'
    BY <1>1, <1>2
<1>3. ~ disturbed
    <2>1. ASSUME NEW t, NEW size, Refuse(t, size) PROVE ~ disturbed
        BY <2>1 DEF Refuse
    <2>2. ASSUME NEW t, NEW function, NEW size, NEW kind, NEW keep, Call(t, function, size, kind, keep)
          PROVE  ~ disturbed
        BY <2>2 DEF Call
    <2>3. ASSUME NEW t, Memcpy(t) PROVE ~ disturbed
        BY <2>3 DEF Memcpy
    <2>4. ASSUME NEW t, Alloc(t) PROVE ~ disturbed
        BY <2>4 DEF Alloc
    <2>5. ASSUME NEW t, Steal(t) PROVE ~ disturbed
        BY <2>5 DEF Steal, Read
    <2>6. ASSUME NEW t, WriteStep(t) PROVE ~ disturbed
        BY <2>6 DEF WriteStep, Protect, Restore, ProtectFails, Store, StoreExternal
    <2>7. ASSUME NEW t, Return(t) PROVE ~ disturbed
        BY <2>7 DEF Return
    <2> QED BY Zenon, <2>1, <2>2, <2>3, <2>4, <2>5, <2>6, <2>7 DEF HookNext
<1>4. ASSUME NEW t \in Threads, NEW size \in Sizes, Refuse(t, size) PROVE HookedInv'
    BY <1>4 DEF Refuse, HookedInv, CallsOf
<1>5. ASSUME NEW t \in Threads, NEW function \in Functions, NEW size \in Sizes, NEW kind \in Kinds,
             NEW keep \in BOOLEAN, Call(t, function, size, kind, keep)
      PROVE  HookedInv'
    BY <1>3, <1>5, CallHooked
<1>6. ASSUME NEW t \in Threads, Memcpy(t) PROVE HookedInv'
    BY <1>3, <1>6, MemcpyHooked
<1>7. ASSUME NEW t \in Threads, Alloc(t) PROVE HookedInv'
    BY <1>3, <1>7, AllocHooked
<1>8. ASSUME NEW t \in Threads, Steal(t) PROVE HookedInv'
    BY <1>3, <1>8, OtherStepsHooked
<1>9. ASSUME NEW t \in Threads, WriteStep(t) PROVE HookedInv'
    <2>1. ~ ProtectFails(t)
        BY DEF ProtectFails
    <2> QED BY <1>3, <1>9, <2>1, OtherStepsHooked, StoreHooked, StoreExternalHooked DEF WriteStep
<1>10. ASSUME NEW t \in Threads, Return(t) PROVE HookedInv'
    BY <1>3, <1>10, ReturnHooked
<1> QED BY Zenon, <1>4, <1>5, <1>6, <1>7, <1>8, <1>9, <1>10 DEF HookNext

(* The last call for a function is the one whose jump is there.            *)
LEMMA HookedIs ==
    ASSUME ThreadsInv, CellsInv, CountInv, HookedInv
    PROVE  HookedGoesToItsTarget
<1> SUFFICES ASSUME ~ disturbed, NEW function \in Functions, CallsOf(function) # {},
                    \A t \in Threads : call[t].function # function
             PROVE  LET last == CHOOSE i \in CallsOf(function) : \A j \in CallsOf(function) : j <= i
                    IN  Runs(memory, function) =
                            Loads(log[last].kind) \o << <<"hook", log[last].target>> >>
    BY DEF HookedGoesToItsTarget
<1>1. GoesToItsTarget(memory, log, function)
    BY DEF HookedInv
<1>2. PICK i \in 1..Len(log) :
          /\ \A j \in 1..Len(log) : log[j].function = function => j <= i
          /\ log[i].function = function /\ IsHook(log[i]) /\ Written(memory, log[i])
    BY <1>1 DEF GoesToItsTarget
<1> DEFINE last == CHOOSE k \in CallsOf(function) : \A j \in CallsOf(function) : j <= k
<1>3. last = i
    <2>1. i \in CallsOf(function) /\ \A j \in CallsOf(function) : j <= i
        BY <1>2 DEF CallsOf
    <2>2. CallsOf(function) \subseteq Int
        BY DEF CallsOf
    <2>3. last \in CallsOf(function) /\ \A j \in CallsOf(function) : j <= last
        BY <2>1
    <2> HIDE DEF last
    <2> QED BY <2>1, <2>2, <2>3
<1> HIDE DEF last
<1>4. Runs(memory, function) = Loads(log[i].kind) \o << <<"hook", log[i].target>> >>
    <2>1. /\ function \in Nat /\ function # 0 /\ log[i].size \in Nat /\ log[i].size >= 2
          /\ function + log[i].size - 1 <= Cells /\ Cells \in Nat
        BY <1>2, HookAssumption, MemoryAssumption DEF IsHook, JUMP_HOOK_SIZE
    <2>2. function \in 1..Cells /\ function + 1 \in 1..Cells
        BY <2>1
    <2>3. memory \in [1..Cells -> CellType]
        BY DEF CellsInv
    <2> QED BY <1>2, <2>2, <2>3, WrittenRuns DEF IsHook
<1> QED BY <1>3, <1>4 DEF last

(* A function whose hooking has returned goes to the hook function of the  *)
(* last call for it: the jump is the last thing anyone writes there, with  *)
(* the operand of its own call, unless two threads have met or a system    *)
(* call has failed.                                                        *)
THEOREM HookedReachesItsTarget == HookSpec => []HookedGoesToItsTarget
<1> DEFINE Inv == ThreadsInv /\ CellsInv /\ CountInv /\ PagesInv
<1>1. HookSpec => []Inv
    BY HookInvHolds, PagesHold, PTL
<1>2. HookedInv /\ Inv /\ [HookNext]_hooking_vars => HookedInv'
    BY HookedStep
<1>3. HookedInv /\ Inv => HookedGoesToItsTarget
    BY HookedIs
<1> HIDE DEF Inv
<1> QED BY <1>1, <1>2, <1>3, HookedInit, PTL DEF HookSpec

-----------------------------------------------------------------------------
(***************************************************************************)
(* What trampoline returns.  A cell of the code that no call has written   *)
(* is what it was; the bytes a call has stolen are therefore the beginning *)
(* of the function as it was, or the jump of the last call before; and     *)
(* they and the jump back are the only things anyone ever writes to the    *)
(* memory of the call.                                                     *)
(***************************************************************************)
FirstMemory ==
    [a \in 1..Cells |->
        IF a > CodeSize THEN <<"none", 0>>
        ELSE IF a = CodeSize \/ a + 1 \in Functions THEN <<"ret", 0>> ELSE <<"code", a>>]

(* Where a function ends, and what runs from a cell of it on.              *)
IsEnd(a) == a = CodeSize \/ a + 1 \in Functions
End(f) == CHOOSE a \in f..CodeSize : IsEnd(a) /\ \A b \in f..(a - 1) : ~ IsEnd(b)
Rest(f, from) == [i \in 1..(End(f) - from + 1) |-> FirstMemory[from + i - 1]]

BackOperand(c) == operand_of(c.kind, c.original + c.size, c.function + c.size)

(* What trampoline does once the function goes to the hook function.       *)
After(c) ==
    << Op("alloc", 0, 0, ""),
       Op("protect", c.original, c.size, ""),
       Op("store", c.original, c.size, "stolen"),
       Op("restore", c.original, c.size, ""),
       Op("memcpy", 0, BackOperand(c), c.kind),
       Op("protect", c.original + c.size, JUMP_HOOK_SIZE, ""),
       Op("store", c.original + c.size, JUMP_HOOK_SIZE, c.kind),
       Op("restore", c.original + c.size, JUMP_HOOK_SIZE, "") >>
Left(c, k) == SubSeq(After(c), k + 1, 8)

(* A program that writes nothing but the function.                         *)
Calm(x, c) ==
    /\ x \in Programs
    /\ \A i \in 1..Len(x) :
          /\ x[i].op \notin {"read", "alloc"}
          /\ x[i].op = "store" =>
                x[i].addr >= c.function /\ x[i].addr + x[i].size <= c.function + c.size

Reads(c) == << Op("read", c.function, c.size, "") >>
Waiting(s, c) == \E x : Calm(x, c) /\ s = Reads(c) \o (x \o After(c))
Working(s, c) == \E x : Calm(x, c) /\ s = x \o After(c)

(* The first n cells of the bytes, and of the jump back, are there.        *)
Copied(mem, c, buf, n) == \A i \in 1..n : mem[c.original + (i - 1)] = buf[i]
BackWritten(mem, c, n) ==
    /\ n >= 1 => mem[c.original + c.size] = <<c.kind, 0>>
    /\ n >= 2 => mem[(c.original + c.size) + 1] = <<"operand", BackOperand(c)>>

CopiedAt(k, c, st) == IF k = 2 THEN st ELSE IF k > 2 THEN c.size ELSE 0
WrittenAt(k, st) == IF k = 6 THEN st ELSE IF k > 6 THEN JUMP_HOOK_SIZE ELSE 0
Moving(k, s, c, st, mem, opr, buf) ==
    /\ s = Left(c, k)
    /\ Copied(mem, c, buf, CopiedAt(k, c, st))
    /\ BackWritten(mem, c, WrittenAt(k, st))
    /\ k \in {5, 6} => opr[c.kind] = BackOperand(c)

OnItsWay(s, c, st, mem, opr, buf) ==
    IF c.original = 0 THEN Calm(s, c)
    ELSE \/ Waiting(s, c) \/ Working(s, c)
         \/ \E k \in 1..8 : Moving(k, s, c, st, mem, opr, buf)

(* What was stolen, and what the function did then.                        *)
Straight(c, buf, bef) ==
    bef = Rest(c.function, c.function)
    /\ \A i \in 1..c.size : buf[i] = FirstMemory[c.function + (i - 1)]
Jumped(buf, bef) ==
    \E target \in Int :
        /\ target < 0 /\ bef = Loads("absolute") \o << <<"hook", target>> >>
        /\ buf[1] = <<"absolute", 0>> /\ buf[2] = <<"operand", target>>
NotYet(function, past, n) == \A j \in 1..n : past[j].function # function
Stolen(c, buf, bef, past) ==
    /\ buf \in Seq(CellType) /\ Len(buf) = c.size
    /\ \/ Straight(c, buf, bef) /\ NotYet(c.function, past, Len(past))
       \/ Jumped(buf, bef)
       \/ buf[1][1] = "relative"

IsReading(s) == s # <<>> /\ Head(s).op = "read"
Keeps(s, c, st, mem, opr, buf, bef, past) ==
    /\ OnItsWay(s, c, st, mem, opr, buf)
    /\ c.original # 0 /\ ~ IsReading(s) => Stolen(c, buf, bef, past)
    /\ IsReading(s) => NotYet(c.function, past, Len(past)) \/ GoesToItsTarget(mem, past, c.function)

(* The code the calls have overwritten.                                    *)
CodeOf(c) == c.function..(c.function + c.size - 1)
Touched(a) ==
    \/ \E t \in Threads : call[t] # NoCall /\ ~ IsReading(todo[t]) /\ a \in CodeOf(call[t])
    \/ \E i \in 1..Len(log) : a \in CodeOf(log[i])

Kept(mem, past, i) ==
    LET c == past[i]
    IN  c.original # 0 /\ c.movable =>
            \E buf :
                /\ Copied(mem, c, buf, c.size) /\ BackWritten(mem, c, JUMP_HOOK_SIZE)
                /\ \/ Straight(c, buf, c.before) /\ NotYet(c.function, past, i - 1)
                   \/ Jumped(buf, c.before)

OriginalInv ==
    ~ disturbed =>
        /\ DOMAIN before = Threads
        /\ \A t \in Threads : call[t] # NoCall =>
              Keeps(todo[t], call[t], stored[t], memory, operand, buffer[t], before[t], log)
        /\ \A a \in 1..CodeSize : ~ Touched(a) => memory[a] = FirstMemory[a]
        /\ \A i \in 1..Len(log) :
              log[i].function \in Functions /\ IsHook(log[i]) /\ Kept(memory, log, i)

(* Each call has memory of its own.                                        *)
IsGiven(c, n) == c.original = 0 \/ \E i \in 1..n : c.original = Allocated(i)
OwnInv ==
    /\ \A t \in Threads : IsGiven(call[t], calls)
    /\ \A i \in 1..Len(log) : IsGiven(log[i], calls)
    /\ \A t \in Threads : call[t].original # 0 =>
          /\ \A u \in Threads \ {t} : call[u].original # call[t].original
          /\ \A i \in 1..Len(log) : log[i].original # call[t].original

(* A function is code up to its end, and the cells a hook may overwrite    *)
(* are cells of it.                                                        *)
LEMMA EndIs ==
    ASSUME NEW f \in Functions, NEW size \in Sizes, size >= JUMP_HOOK_SIZE
    PROVE  /\ f \in Nat /\ f # 0 /\ size \in Nat /\ End(f) \in f..CodeSize /\ (f + size) - 1 <= End(f)
           /\ \A a \in f..(End(f) - 1) : FirstMemory[a] = <<"code", a>>
           /\ FirstMemory[End(f)] = <<"ret", 0>>
<1>1. f \in Nat /\ f # 0 /\ size \in Nat /\ CodeSize \in Nat /\ Cells \in Nat /\ CodeSize <= Cells
      /\ (f + size) - 1 <= CodeSize /\ size >= 2 /\ \A g \in Functions : g \in Nat
    BY HookAssumption, MemoryAssumption, FunctionsAreApart DEF JUMP_HOOK_SIZE
<1> DEFINE S == {a \in f..CodeSize : IsEnd(a)}
<1>2. \E a \in f..CodeSize : IsEnd(a) /\ \A b \in f..(a - 1) : ~ IsEnd(b)
    <2>1. CodeSize \in S /\ S \in SUBSET Nat
        BY <1>1 DEF IsEnd
    <2>2. PICK a \in S : \A k \in S : a <= k
        BY <2>1, LeastExists
    <2>3. a \in f..CodeSize /\ IsEnd(a)
        BY <2>2
    <2>4. ASSUME NEW b \in f..(a - 1) PROVE ~ IsEnd(b)
        <3>1. b \in f..CodeSize /\ ~ (a <= b)
            BY <1>1, <2>3
        <3> QED BY <2>2, <3>1
    <2> QED BY <2>3, <2>4
<1>3. End(f) \in f..CodeSize /\ IsEnd(End(f)) /\ \A b \in f..(End(f) - 1) : ~ IsEnd(b)
    BY <1>2 DEF End
<1> DEFINE e == End(f)
<1> HIDE DEF e
<1>4. e \in f..CodeSize /\ IsEnd(e) /\ \A b \in f..(e - 1) : ~ IsEnd(b)
    BY <1>3 DEF e
<1>5. (f + size) - 1 <= e
    <2>1. SUFFICES ASSUME e < (f + size) - 1 PROVE FALSE
        BY <1>1, <1>4
    <2>2. e # CodeSize /\ e + 1 \in Functions
        BY <1>1, <1>4, <2>1 DEF IsEnd
    <2>3. f < e + 1 /\ ~ (f + size <= e + 1)
        BY <1>1, <1>4, <2>1
    <2> QED BY <2>2, <2>3, FunctionsAreApart
<1>6. ASSUME NEW a \in f..(e - 1) PROVE FirstMemory[a] = <<"code", a>>
    <2>1. a \in 1..Cells /\ ~ (a > CodeSize) /\ ~ IsEnd(a)
        BY <1>1, <1>4
    <2> QED BY <2>1 DEF FirstMemory, IsEnd
<1>7. FirstMemory[e] = <<"ret", 0>>
    <2>1. e \in 1..Cells /\ ~ (e > CodeSize)
        BY <1>1, <1>4
    <2> QED BY <1>4, <2>1 DEF FirstMemory, IsEnd
<1> QED BY <1>1, <1>4, <1>5, <1>6, <1>7 DEF e

LEMMA RestIs ==
    ASSUME NEW f \in Nat, End(f) \in Nat
    PROVE  /\ Rest(f, End(f)) = <<FirstMemory[End(f)]>>
           /\ \A a \in f..(End(f) - 1) : Rest(f, a) = <<FirstMemory[a]>> \o Rest(f, a + 1)
<1> DEFINE e == End(f)
           M == FirstMemory
<1> HIDE DEF e, M
<1>1. e \in Nat
    BY DEF e
<1>2. ASSUME NEW a \in Nat, NEW n \in Nat, n = (e - a) + 1
      PROVE  Rest(f, a) = [i \in 1..n |-> M[a + i - 1]]
    <2>1. e - a + 1 = n
        BY <1>1, <1>2
    <2> QED BY <2>1 DEF Rest, e, M
<1>3. Rest(f, e) = <<M[e]>>
    <2>1. (e - e) + 1 = 1 /\ 1 \in Nat
        BY <1>1
    <2>2. Rest(f, e) = [i \in 1..1 |-> M[e + i - 1]]
        BY <1>1, <1>2, <2>1
    <2>3. \A i \in 1..1 : i = 1 /\ e + i - 1 = e
        BY <1>1
    <2>4. [i \in 1..1 |-> M[e + i - 1]] = [i \in 1..1 |-> M[e]]
        BY <2>3
    <2>5. [i \in 1..1 |-> M[e]] = <<M[e]>>
        OBVIOUS
    <2> QED BY <2>2, <2>4, <2>5
<1>4. ASSUME NEW a \in f..(e - 1)
      PROVE  Rest(f, a) = <<M[a]>> \o Rest(f, a + 1)
    <2> DEFINE n == e - a
               V == {M[k] : k \in Int}
               s == <<M[a]>>
               t == [i \in 1..n |-> M[(a + 1) + i - 1]]
    <2>1. n \in Nat /\ n + 1 \in Nat /\ a \in Nat /\ a + 1 \in Nat /\ n = (e - (a + 1)) + 1 /\ n + 1 = (e - a) + 1
        BY <1>1
    <2>2. Rest(f, a + 1) = t /\ Rest(f, a) = [i \in 1..(n + 1) |-> M[a + i - 1]]
        BY <1>2, <2>1
    <2> HIDE DEF n
    <2>3. t \in Seq(V) /\ Len(t) = n /\ \A i \in 1..n : t[i] = M[(a + 1) + i - 1]
        <3>1. \A i \in 1..n : M[(a + 1) + i - 1] \in V
            <4> TAKE i \in 1..n
            <4>1. (a + 1) + i - 1 \in Int
                BY <2>1
            <4> QED BY <4>1
        <3> HIDE DEF V
        <3>2. t \in [1..n -> V]
            BY <3>1
        <3>3. \A i \in 1..n : t[i] = M[(a + 1) + i - 1]
            OBVIOUS
        <3> HIDE DEF t
        <3> QED BY <2>1, <3>2, <3>3
    <2>4. s \in Seq(V) /\ Len(s) = 1 /\ s[1] = M[a]
        <3>1. a \in Int
            BY <2>1
        <3>2. M[a] \in V
            BY <3>1
        <3> HIDE DEF V
        <3> QED BY <3>2
    <2> HIDE DEF s, t, V
    <2>5. s \o t \in Seq(V) /\ Len(s \o t) = 1 + n
          /\ \A i \in 1..(1 + n) : (s \o t)[i] = IF i <= 1 THEN s[i] ELSE t[i - 1]
        <3>1. s \o t \in Seq(V) /\ Len(s \o t) = Len(s) + Len(t)
              /\ \A i \in 1..(Len(s) + Len(t)) : (s \o t)[i] = IF i <= Len(s) THEN s[i] ELSE t[i - Len(s)]
            BY <2>3, <2>4, ConcatProperties
        <3> QED BY <2>3, <2>4, <3>1
    <2>6. ASSUME NEW i \in 1..(n + 1) PROVE (s \o t)[i] = M[a + i - 1]
        <3>1. CASE i = 1
            <4>1. a + 1 - 1 = a
                BY <2>1
            <4> QED BY <2>1, <2>4, <2>5, <3>1, <4>1
        <3>2. CASE i # 1
            <4>1. i - 1 \in 1..n /\ ~ (i <= 1) /\ i \in 1..(1 + n) /\ (a + 1) + (i - 1) - 1 = a + i - 1
                BY <2>1, <3>2
            <4> QED BY <2>3, <2>5, <4>1
        <3> QED BY <3>1, <3>2
    <2>7. s \o t = [i \in 1..(n + 1) |-> M[a + i - 1]]
        <3>1. DOMAIN (s \o t) = 1..(n + 1) /\ s \o t = [i \in 1..(n + 1) |-> (s \o t)[i]]
            <4>1. s \o t \in [1..Len(s \o t) -> V]
                BY <2>5, LenProperties, Zenon
            <4>2. Len(s \o t) = n + 1
                BY <2>1, <2>5
            <4> QED BY <4>1, <4>2
        <3> QED BY <2>6, <3>1
    <2> QED BY <2>2, <2>7 DEF s
<1> QED BY <1>3, <1>4 DEF e, M

(* Consecutive cells of the first memory.                                  *)
Piece(a, n) == [i \in 1..n |-> FirstMemory[a + i - 1]]
FirstCells == {FirstMemory[k] : k \in Int}
RunCells == {<<"load", 0>>} \cup FirstCells

LEMMA PieceIs ==
    ASSUME NEW a \in Int, NEW n \in Nat
    PROVE  /\ Piece(a, n) \in Seq(FirstCells) /\ Len(Piece(a, n)) = n
           /\ \A i \in 1..n : Piece(a, n)[i] = FirstMemory[a + i - 1]
<1> DEFINE s == Piece(a, n)
<1>1. \A i \in 1..n : FirstMemory[a + i - 1] \in FirstCells
    <2> TAKE i \in 1..n
    <2>1. a + i - 1 \in Int
        OBVIOUS
    <2> QED BY <2>1 DEF FirstCells
<1>2. s \in [1..n -> FirstCells] /\ \A i \in 1..n : s[i] = FirstMemory[a + i - 1]
    BY <1>1 DEF Piece
<1> HIDE DEF s
<1>3. s \in Seq(FirstCells) /\ Len(s) = n
    BY <1>2
<1> QED BY <1>2, <1>3 DEF s

LEMMA PiecesJoin ==
    ASSUME NEW a \in Int, NEW n \in Nat, NEW m \in Nat
    PROVE  Piece(a, n) \o Piece(a + n, m) = Piece(a, n + m)
<1> DEFINE s == Piece(a, n)
           t == Piece(a + n, m)
           u == Piece(a, n + m)
<1>1. /\ s \in Seq(FirstCells) /\ Len(s) = n /\ \A i \in 1..n : s[i] = FirstMemory[a + i - 1]
      /\ t \in Seq(FirstCells) /\ Len(t) = m /\ \A i \in 1..m : t[i] = FirstMemory[(a + n) + i - 1]
    <2>1. s \in Seq(FirstCells) /\ Len(s) = n /\ \A i \in 1..n : s[i] = FirstMemory[a + i - 1]
        BY PieceIs
    <2>2. a + n \in Int
        OBVIOUS
    <2> HIDE DEF s
    <2>3. t \in Seq(FirstCells) /\ Len(t) = m /\ \A i \in 1..m : t[i] = FirstMemory[(a + n) + i - 1]
        BY <2>2, PieceIs
    <2> QED BY <2>1, <2>3
<1>2. u \in Seq(FirstCells) /\ Len(u) = n + m /\ \A i \in 1..(n + m) : u[i] = FirstMemory[a + i - 1]
    <2>1. n + m \in Nat
        OBVIOUS
    <2> HIDE DEF s, t
    <2> QED BY <2>1, PieceIs
<1> HIDE DEF s, t, u
<1>3. /\ s \o t \in Seq(FirstCells) /\ Len(s \o t) = n + m
      /\ \A i \in 1..(n + m) : (s \o t)[i] = IF i <= n THEN s[i] ELSE t[i - n]
    BY <1>1, ConcatProperties
<1>4. ASSUME NEW i \in 1..(n + m) PROVE (s \o t)[i] = u[i]
    <2>a. (s \o t)[i] = (IF i <= n THEN s[i] ELSE t[i - n]) /\ u[i] = FirstMemory[a + i - 1]
        BY <1>2, <1>3
    <2>1. CASE i <= n
        <3>1. i \in 1..n
            BY <2>1
        <3> QED BY <1>1, <2>a, <2>1, <3>1
    <2>2. CASE ~ (i <= n)
        <3>1. i - n \in 1..m /\ (a + n) + (i - n) - 1 = a + i - 1
            BY <2>2
        <3> QED BY <1>1, <2>a, <2>2, <3>1
    <2> QED BY <2>1, <2>2
<1>5. s \o t = u
    BY <1>2, <1>3, <1>4, SeqEqual
<1> QED BY <1>5 DEF s, t, u

LEMMA RunsJoin == \A x, y, z \in Seq(RunCells) : (x \o y) \o z = x \o (y \o z)
<1> TAKE x, y, z \in Seq(RunCells)
<1> QED BY ConcatAssociative, SMTT(30)

(* The piece of a function that a call moves, and what is behind it.       *)
LEMMA FunctionInTwo ==
    ASSUME NEW f \in Nat, NEW size \in Nat, End(f) \in Nat, f + size <= End(f)
    PROVE  /\ Rest(f, f) = Piece(f, size) \o Rest(f, f + size)
           /\ Rest(f, f + size) \in Seq(FirstCells) /\ Len(Rest(f, f)) > size
           /\ SubSeq(Rest(f, f), 1, size) = Piece(f, size)
           /\ SubSeq(Rest(f, f), size + 1, Len(Rest(f, f))) = Rest(f, f + size)
<1> DEFINE m == (End(f) - (f + size)) + 1
           s == Piece(f, size)
           t == Piece(f + size, m)
           r == Piece(f, size + m)
<1>1. m \in Nat /\ m > 0 /\ size + m \in Nat
      /\ End(f) - (f + size) + 1 = m /\ End(f) - f + 1 = size + m
    OBVIOUS
<1>2. Rest(f, f + size) = t /\ Rest(f, f) = r
    BY <1>1 DEF Rest, Piece
<1> HIDE DEF m
<1>3. /\ s \in Seq(FirstCells) /\ Len(s) = size /\ \A i \in 1..size : s[i] = FirstMemory[f + i - 1]
      /\ t \in Seq(FirstCells) /\ Len(t) = m /\ \A i \in 1..m : t[i] = FirstMemory[(f + size) + i - 1]
      /\ r \in Seq(FirstCells) /\ Len(r) = size + m
      /\ \A i \in 1..(size + m) : r[i] = FirstMemory[f + i - 1]
      /\ s \o t = r
    <2>1. f \in Int /\ f + size \in Int
        OBVIOUS
    <2>2. s \o t = r
        BY <1>1, <2>1, PiecesJoin
    <2>3. /\ s \in Seq(FirstCells) /\ Len(s) = size /\ \A i \in 1..size : s[i] = FirstMemory[f + i - 1]
          /\ t \in Seq(FirstCells) /\ Len(t) = m /\ \A i \in 1..m : t[i] = FirstMemory[(f + size) + i - 1]
        BY <1>1, <2>1, PieceIs
    <2>4. /\ r \in Seq(FirstCells) /\ Len(r) = size + m
          /\ \A i \in 1..(size + m) : r[i] = FirstMemory[f + i - 1]
        BY <1>1, <2>1, PieceIs
    <2> HIDE DEF s, t, r
    <2> QED BY <2>2, <2>3, <2>4
<1> HIDE DEF s, t, r
<1>4. \A i \in 1..(size + m) : r[i] \in FirstCells
    BY <1>3
<1>5. SubSeq(r, 1, size) = s
    <2>1. \A i \in 1..size : r[i] \in FirstCells
        BY <1>1, <1>4
    <2>2. /\ SubSeq(r, 1, size) \in Seq(FirstCells)
          /\ Len(SubSeq(r, 1, size)) = IF 1 <= size THEN size - 1 + 1 ELSE 0
          /\ \A i \in 1..(size - 1 + 1) : SubSeq(r, 1, size)[i] = r[1 + i - 1]
        BY <2>1, SubSeqProperties
    <2>3. Len(SubSeq(r, 1, size)) = size
        BY <2>2
    <2>4. ASSUME NEW i \in 1..size PROVE SubSeq(r, 1, size)[i] = s[i]
        <3>1. i \in 1..(size - 1 + 1) /\ 1 + i - 1 = i /\ i \in 1..(size + m)
            BY <1>1
        <3> QED BY <1>3, <2>2, <3>1
    <2> QED BY <1>3, <2>2, <2>3, <2>4, SeqEqual
<1>6. SubSeq(r, size + 1, size + m) = t
    <2>1. \A i \in (size + 1)..(size + m) : r[i] \in FirstCells
        <3>1. \A i \in (size + 1)..(size + m) : i \in 1..(size + m)
            BY <1>1
        <3> QED BY <1>4, <3>1
    <2> DEFINE q == SubSeq(r, size + 1, size + m)
    <2>2. /\ q \in Seq(FirstCells)
          /\ Len(q) = IF size + 1 <= size + m THEN (size + m) - (size + 1) + 1 ELSE 0
          /\ \A i \in 1..((size + m) - (size + 1) + 1) : q[i] = r[(size + 1) + i - 1]
        BY <1>1, <2>1, SubSeqProperties
    <2> HIDE DEF q
    <2>3. Len(q) = m
        BY <1>1, <2>2
    <2>4. ASSUME NEW i \in 1..m PROVE q[i] = t[i]
        <3>1. i \in 1..((size + m) - (size + 1) + 1) /\ (size + 1) + i - 1 \in 1..(size + m)
              /\ f + ((size + 1) + i - 1) - 1 = (f + size) + i - 1
            BY <1>1
        <3> QED BY <1>3, <2>2, <3>1
    <2> QED BY <1>3, <2>2, <2>3, <2>4, SeqEqual DEF q
<1>7. Len(r) = size + m /\ size + m > size /\ s \o t = r /\ t \in Seq(FirstCells)
    BY <1>1, <1>3
<1>8. s = Piece(f, size)
    BY DEF s
<1> QED BY Zenon, <1>2, <1>5, <1>6, <1>7, <1>8

(* One step of a run.                                                      *)
Runner2(cells) == Runner(cells, 2 * Cells)

LEMMA RunnerSteps ==
    ASSUME NEW mem \in [1..Cells -> CellType], NEW fuel \in 1..(2 * Cells), NEW addr \in 1..Cells
    PROVE  /\ mem[addr][1] = "code" =>
                 Runner2(mem)[fuel][addr] = <<mem[addr]>> \o Runner2(mem)[fuel - 1][addr + 1]
           /\ mem[addr][1] = "ret" => Runner2(mem)[fuel][addr] = <<mem[addr]>>
           /\ mem[addr][1] = "absolute" =>
                 Runner2(mem)[fuel][addr] = Loads("absolute") \o Runner2(mem)[fuel - 1][mem[addr + 1][2]]
           /\ mem[addr][1] = "relative" =>
                 Runner2(mem)[fuel][addr] = Runner2(mem)[fuel - 1][addr + JUMP_HOOK_SIZE + mem[addr + 1][2]]
<1> DEFINE r == Runner2(mem)
           on == r[fuel - 1]
<1>1. fuel \in 0..(2 * Cells) /\ fuel # 0 /\ addr \in Int /\ ~ (addr < 0) /\ addr \in DOMAIN mem
    BY MemoryAssumption
<1>2. r[fuel] = RunsOn(mem, fuel, on)
    BY <1>1, RunsIs DEF Runner2
<1> HIDE DEF on, r
<1>3. r[fuel][addr] = LET cell == mem[addr]
             IN  IF cell[1] = "code" THEN <<cell>> \o on[addr + 1]
                 ELSE IF cell[1] = "nop" THEN on[addr + 1]
                 ELSE IF cell[1] = "absolute" THEN Loads("absolute") \o on[mem[addr + 1][2]]
                 ELSE IF cell[1] = "relative"
                      THEN on[addr + JUMP_HOOK_SIZE + mem[addr + 1][2]]
                 ELSE <<cell>>
    BY <1>1, <1>2 DEF RunsOn
<1>4. mem[addr][1] = "code" => r[fuel][addr] = <<mem[addr]>> \o on[addr + 1]
    BY <1>3
<1>5. mem[addr][1] = "ret" => r[fuel][addr] = <<mem[addr]>>
    BY <1>3
<1>6. mem[addr][1] = "absolute" => r[fuel][addr] = Loads("absolute") \o on[mem[addr + 1][2]]
    BY <1>3
<1>7. mem[addr][1] = "relative" => r[fuel][addr] = on[addr + JUMP_HOOK_SIZE + mem[addr + 1][2]]
    BY <1>3
<1> QED BY <1>4, <1>5, <1>6, <1>7 DEF on, r

(* What is where the end of the function was runs as it did, from memory   *)
(* that holds a copy of it.                                                *)
IsBody(mem, f, from, to, at) ==
    \A a \in from..to : at + (a - from) \in 1..Cells /\ mem[at + (a - from)] = FirstMemory[a]

LEMMA BodyRuns ==
    ASSUME NEW mem \in [1..Cells -> CellType], NEW f \in Functions, NEW size \in Sizes, size >= JUMP_HOOK_SIZE,
           NEW from \in f..End(f), NEW at \in 1..Cells, IsBody(mem, f, from, End(f), at),
           NEW fuel \in 1..(2 * Cells), fuel > End(f) - from
    PROVE  Runner2(mem)[fuel][at] = Rest(f, from)
<1> DEFINE e == End(f)
           r == Runner2(mem)
           Bad == {k \in 0..(e - from) : \E u \in 1..(2 * Cells) :
                      u > k /\ r[u][at + ((e - k) - from)] # Rest(f, e - k)}
<1> HIDE DEF e, r
<1>1. e \in Nat /\ from \in Nat /\ from <= e /\ f \in Nat /\ f <= from /\ at \in Nat /\ e - from \in 0..(e - from)
    <2>1. End(f) \in f..CodeSize /\ f \in Nat
        BY EndIs
    <2> QED BY <2>1, MemoryAssumption DEF e
<1>2. /\ \A a \in from..(e - 1) : FirstMemory[a] = <<"code", a>>
      /\ FirstMemory[e] = <<"ret", 0>>
      /\ Rest(f, e) = <<FirstMemory[e]>>
      /\ \A a \in from..(e - 1) : Rest(f, a) = <<FirstMemory[a]>> \o Rest(f, a + 1)
    <2>1. /\ \A a \in f..(e - 1) : FirstMemory[a] = <<"code", a>>
          /\ FirstMemory[e] = <<"ret", 0>>
        BY EndIs DEF e
    <2>2. /\ Rest(f, e) = <<FirstMemory[e]>>
          /\ \A a \in f..(e - 1) : Rest(f, a) = <<FirstMemory[a]>> \o Rest(f, a + 1)
        BY <1>1, RestIs DEF e
    <2>3. \A a \in from..(e - 1) : a \in f..(e - 1)
        BY <1>1
    <2> QED BY <2>1, <2>2, <2>3
<1>3. \A a \in from..e : at + (a - from) \in 1..Cells /\ mem[at + (a - from)] = FirstMemory[a]
    BY DEF IsBody, e
<1>4. SUFFICES ASSUME r[fuel][at] # Rest(f, from) PROVE FALSE
    BY DEF r
<1>5. e - from \in Bad
    <2>1. at + ((e - (e - from)) - from) = at /\ e - (e - from) = from /\ fuel > e - from
        BY <1>1 DEF e
    <2> QED BY <1>1, <1>4, <2>1
<1>6. PICK k \in Bad : \A m \in Bad : k <= m
    <2>1. Bad \in SUBSET Nat /\ Bad # {}
        BY <1>5
    <2> HIDE DEF Bad
    <2> QED BY <2>1, LeastExists
<1>7. PICK u \in 1..(2 * Cells) : u > k /\ r[u][at + ((e - k) - from)] # Rest(f, e - k)
    BY <1>6
<1> DEFINE a == e - k
           here == at + (a - from)
<1>8. k \in 0..(e - from) /\ a \in from..e /\ a \in Nat
    BY <1>1, <1>6
<1>9. here \in 1..Cells /\ mem[here] = FirstMemory[a]
    BY <1>3, <1>8
<1>10. CASE k = 0
    <2>1. a = e
        BY <1>1, <1>10
    <2>2. mem[here] = <<"ret", 0>> /\ mem[here][1] = "ret"
        BY <1>2, <1>9, <2>1
    <2> HIDE DEF here
    <2>3. r[u][here] = <<mem[here]>>
        BY <1>9, <2>2, RunnerSteps DEF r
    <2>4. r[u][here] = Rest(f, a)
        BY <1>2, <1>9, <2>1, <2>3
    <2> QED BY <1>7, <2>4 DEF here
<1>11. CASE k # 0
    <2>1. a \in from..(e - 1) /\ k - 1 \in 0..(e - from) /\ e - (k - 1) = a + 1
          /\ u - 1 \in 1..(2 * Cells) /\ u - 1 > k - 1 /\ ~ (k <= k - 1)
        <3>1. k \in Int /\ k >= 0 /\ k <= e - from /\ Cells \in Nat /\ u \in Int /\ 1 <= u /\ u <= 2 * Cells /\ u > k
            BY <1>1, <1>7, <1>8, MemoryAssumption
        <3>2. k >= 1 /\ a \in Int /\ a = e - k
            BY <1>1, <1>8, <1>11, <3>1
        <3> HIDE DEF a
        <3> QED BY <1>1, <3>1, <3>2
    <2>2. mem[here] = <<"code", a>> /\ mem[here][1] = "code"
        BY <1>2, <1>9, <2>1
    <2>3. here + 1 = at + ((a + 1) - from)
        BY <1>1, <1>8
    <2>4. k - 1 \notin Bad
        BY <1>6, <2>1
    <2>5. r[u - 1][at + ((e - (k - 1)) - from)] = Rest(f, e - (k - 1))
        BY <2>1, <2>4
    <2>6. r[u - 1][here + 1] = Rest(f, a + 1)
        BY <2>1, <2>3, <2>5
    <2> HIDE DEF here, Bad
    <2>7. r[u][here] = <<mem[here]>> \o r[u - 1][here + 1]
        BY <1>9, <2>2, RunnerSteps DEF r
    <2>8. Rest(f, a) = <<FirstMemory[a]>> \o Rest(f, a + 1)
        BY <1>2, <2>1
    <2>9. r[u][here] = Rest(f, a)
        BY <1>9, <2>6, <2>7, <2>8
    <2> QED BY <1>7, <2>9 DEF here
<1> QED BY <1>10, <1>11

LEMMA CodeRuns ==
    ASSUME NEW mem \in [1..Cells -> CellType], NEW f \in Functions, NEW size \in Sizes, size >= JUMP_HOOK_SIZE,
           NEW to \in f..End(f), NEW at \in 1..Cells, IsBody(mem, f, f, to - 1, at), NEW m \in Nat,
           NEW then \in Seq(RunCells),
           \A u \in 1..(2 * Cells) : u > m => Runner2(mem)[u][at + (to - f)] = then,
           NEW fuel \in 1..(2 * Cells), fuel > m + (to - f)
    PROVE  Runner2(mem)[fuel][at] = Piece(f, to - f) \o then
<1> DEFINE e == End(f)
           r == Runner2(mem)
           Bad == {k \in 0..(to - f) : \E u \in 1..(2 * Cells) :
                      u > m + k /\ r[u][at + ((to - k) - f)] # Piece(to - k, k) \o then}
<1> HIDE DEF e, r
<1>1. e \in Nat /\ f \in Nat /\ f <= to /\ to <= e /\ to \in Nat /\ at \in Nat /\ to - f \in 0..(to - f)
    <2>1. End(f) \in f..CodeSize /\ f \in Nat
        BY EndIs
    <2> QED BY <2>1, MemoryAssumption DEF e
<1>2. \A a \in f..(to - 1) : FirstMemory[a] = <<"code", a>>
    <2>1. /\ \A a \in f..(e - 1) : FirstMemory[a] = <<"code", a>>
        BY EndIs DEF e
    <2>2. \A a \in f..(to - 1) : a \in f..(e - 1)
        BY <1>1
    <2> QED BY <2>1, <2>2
<1>a. /\ \A a \in Int : Piece(a, 0) \o then = then
      /\ \A a \in Int, k \in Nat :
            Piece(a, 1 + k) \o then = <<FirstMemory[a]>> \o (Piece(a + 1, k) \o then)
    <2>1. FirstCells \subseteq RunCells
        BY DEF RunCells
    <2>2. ASSUME NEW a \in Int PROVE Piece(a, 0) = <<>>
        BY <2>2, PieceIs, EmptySeq
    <2>3. ASSUME NEW a \in Int PROVE Piece(a, 1) = <<FirstMemory[a]>>
        <3>1. Piece(a, 1) \in Seq(FirstCells) /\ Len(Piece(a, 1)) = 1
              /\ \A i \in 1..1 : Piece(a, 1)[i] = FirstMemory[a + i - 1]
            BY <2>3, PieceIs
        <3>2. a + 1 - 1 = a /\ 1 \in 1..1
            OBVIOUS
        <3>3. Piece(a, 1)[1] = FirstMemory[a]
            BY <3>1, <3>2
        <3> QED BY <3>1, <3>3
    <2>4. ASSUME NEW a \in Int, NEW k \in Nat
          PROVE  Piece(a, 1 + k) \o then = <<FirstMemory[a]>> \o (Piece(a + 1, k) \o then)
        <3>1. a + 1 \in Int /\ 1 \in Nat
            OBVIOUS
        <3>2. Piece(a, 1) \o Piece(a + 1, k) = Piece(a, 1 + k)
            BY <3>1, PiecesJoin
        <3>3. Piece(a, 1) \in Seq(RunCells) /\ Piece(a + 1, k) \in Seq(RunCells)
            <4>1. Piece(a, 1) \in Seq(FirstCells) /\ Piece(a + 1, k) \in Seq(FirstCells)
                BY <3>1, PieceIs
            <4> QED BY <2>1, <4>1, SeqMonotonic
        <3>4. (Piece(a, 1) \o Piece(a + 1, k)) \o then = Piece(a, 1) \o (Piece(a + 1, k) \o then)
            BY Zenon, <3>3, RunsJoin
        <3> QED BY <2>3, <3>2, <3>4
    <2>5. <<>> \o then = then
        BY ConcatEmptySeq
    <2> QED BY <2>2, <2>4, <2>5
<1>3. \A a \in f..(to - 1) : at + (a - f) \in 1..Cells /\ mem[at + (a - f)] = FirstMemory[a]
    BY DEF IsBody
<1>4. SUFFICES ASSUME r[fuel][at] # Piece(f, to - f) \o then PROVE FALSE
    BY DEF r
<1>5. to - f \in Bad
    <2>1. at + ((to - (to - f)) - f) = at /\ to - (to - f) = f /\ fuel > m + (to - f)
        BY <1>1
    <2> QED BY <1>1, <1>4, <2>1
<1>6. PICK k \in Bad : \A j \in Bad : k <= j
    <2>1. Bad \in SUBSET Nat /\ Bad # {}
        <3>1. \A k \in 0..(to - f) : k \in Nat
            BY <1>1
        <3>2. \A k \in Bad : k \in 0..(to - f)
            OBVIOUS
        <3> HIDE DEF Bad
        <3> QED BY <1>5, <3>1, <3>2
    <2> HIDE DEF Bad
    <2> QED BY <2>1, LeastExists
<1>7. PICK u \in 1..(2 * Cells) : u > m + k /\ r[u][at + ((to - k) - f)] # Piece(to - k, k) \o then
    BY <1>6
<1> DEFINE a == to - k
           here == at + (a - f)
<1>8. k \in 0..(to - f) /\ a \in f..to /\ a \in Nat
    BY <1>1, <1>6
<1>9. k # 0
    <2>1. SUFFICES ASSUME k = 0 PROVE FALSE
        OBVIOUS
    <2>2. to - k = to /\ u > m
        BY <1>1, <1>7, <2>1
    <2>3. r[u][at + (to - f)] = then
        BY <2>2 DEF r
    <2>4. Piece(to, 0) \o then = then
        <3>1. to \in Int
            BY <1>1
        <3> QED BY Zenon, <1>a, <3>1
    <2> QED BY <1>7, <2>1, <2>2, <2>3, <2>4
<1>10. a \in f..(to - 1) /\ k - 1 \in 0..(to - f) /\ to - (k - 1) = a + 1
      /\ u - 1 \in 1..(2 * Cells) /\ u - 1 > m + (k - 1) /\ ~ (k <= k - 1)
    <2>1. k \in Int /\ k >= 0 /\ k <= to - f /\ Cells \in Nat /\ u \in Int /\ 1 <= u /\ u <= 2 * Cells /\ u > m + k
        BY <1>1, <1>7, <1>8, MemoryAssumption
    <2>2. k >= 1 /\ a \in Int /\ a = to - k
        BY <1>1, <1>8, <1>9, <2>1
    <2> HIDE DEF a
    <2> QED BY <1>1, <2>1, <2>2
<1>11. here \in 1..Cells /\ mem[here] = FirstMemory[a]
    BY <1>3, <1>10
<1>12. mem[here] = <<"code", a>> /\ mem[here][1] = "code"
    BY <1>2, <1>10, <1>11
<1>13. here + 1 = at + ((a + 1) - f)
    BY SMTT(30), <1>1, <1>8
<1>14. k - 1 \notin Bad
    BY <1>6, <1>10
<1>15. r[u - 1][at + ((to - (k - 1)) - f)] = Piece(to - (k - 1), k - 1) \o then
    BY <1>10, <1>14
<1>16. r[u - 1][here + 1] = Piece(a + 1, k - 1) \o then
    BY <1>10, <1>13, <1>15
<1> HIDE DEF here, Bad
<1>17. r[u][here] = <<mem[here]>> \o r[u - 1][here + 1]
    BY <1>11, <1>12, RunnerSteps DEF r
<1>18. Piece(a, k) \o then = <<FirstMemory[a]>> \o (Piece(a + 1, k - 1) \o then)
    <2>1. k - 1 \in Nat /\ 1 + (k - 1) = k /\ a \in Int
        BY <1>8, <1>10
    <2> HIDE DEF a
    <2> QED BY <1>a, <2>1
<1>19. r[u][here] = Piece(a, k) \o then
    BY <1>11, <1>16, <1>17, <1>18
<1> QED BY <1>7, <1>19 DEF here

(* A function nobody has written.                                          *)
LEMMA FunctionRuns ==
    ASSUME NEW mem \in [1..Cells -> CellType], NEW f \in Functions, NEW size \in Sizes, size >= JUMP_HOOK_SIZE,
           \A a \in f..End(f) : mem[a] = FirstMemory[a]
    PROVE  Runs(mem, f) = Rest(f, f)
<1> DEFINE e == End(f)
           n == 2 * Cells
<1>1. f \in Nat /\ f # 0 /\ e \in f..CodeSize
    BY EndIs
<1> HIDE DEF e
<1>2. n \in 1..(2 * Cells) /\ n > e - f /\ f \in f..e /\ f \in 1..Cells
    BY <1>1, MemoryAssumption
<1>3. IsBody(mem, f, f, e, f)
    <2>1. \A a \in f..e : f + (a - f) = a /\ a \in 1..Cells
        BY <1>1, MemoryAssumption
    <2> QED BY <2>1 DEF IsBody, e
<1> HIDE DEF n
<1>4. Runner2(mem)[n][f] = Rest(f, f)
    BY <1>2, <1>3, BodyRuns DEF e
<1> QED BY <1>4, RunsIs DEF n, Runner2

(* The bytes that were moved, the jump back, and the rest of the function. *)
LEMMA CopyRuns ==
    ASSUME NEW mem \in [1..Cells -> CellType], NEW c, IsHook(c), c.function \in Functions,
           c.original \in Int, c.original >= 1, (c.original + c.size) + 1 <= Cells,
           NEW buf, NEW bef, Straight(c, buf, bef), Copied(mem, c, buf, c.size),
           BackWritten(mem, c, JUMP_HOOK_SIZE),
           \A a \in (c.function + c.size)..End(c.function) : mem[a] = FirstMemory[a]
    PROVE  LET run == Runs(mem, c.original)
           IN  run = bef \/ (Len(bef) > c.size /\ run = Through(bef, c.size, c.kind))
<1> DEFINE f == c.function
           size == c.size
           o == c.original
           e == End(f)
           r == Runner2(mem)
           n == 2 * Cells
<1>1. /\ size \in Sizes /\ size >= JUMP_HOOK_SIZE /\ c.kind \in Kinds /\ f \in Functions
      /\ size >= 2 /\ size \in Nat /\ f \in Nat /\ f # 0 /\ e \in f..CodeSize /\ (f + size) - 1 <= e
      /\ o \in Int /\ o >= 1 /\ (o + size) + 1 <= Cells
    BY EndIs DEF IsHook, JUMP_HOOK_SIZE
<1> HIDE DEF f, size, o, e, r, n
<1>2. \A a \in f..((f + size) - 1) : o + (a - f) \in 1..Cells /\ mem[o + (a - f)] = FirstMemory[a]
    <2> TAKE a \in f..((f + size) - 1)
    <2> DEFINE i == (a - f) + 1
    <2>1. i \in 1..size /\ i - 1 = a - f /\ f + (i - 1) = a /\ o + (a - f) \in 1..Cells
        BY <1>1, MemoryAssumption
    <2> HIDE DEF i
    <2>2. mem[o + (i - 1)] = buf[i] /\ buf[i] = FirstMemory[f + (i - 1)]
        BY <2>1 DEF Copied, Straight, o, f, size
    <2> QED BY <2>1, <2>2
<1>3. Runs(mem, o) = r[n][o]
    BY RunsIs DEF r, n, Runner2
<1>4. o \in 1..Cells /\ n \in 1..(2 * Cells) /\ n > (e - f) + 1
    BY <1>1, MemoryAssumption DEF n
<1>5. CASE (f + size) - 1 = e
    <2>1. IsBody(mem, f, f, e, o)
        BY <1>2, <1>5 DEF IsBody
    <2>2. f \in f..e /\ n > e - f
        BY <1>1, <1>4
    <2>3. r[n][o] = Rest(f, f)
        BY <1>1, <1>4, <2>1, <2>2, BodyRuns DEF e, r
    <2> QED BY <1>3, <2>3 DEF Straight, f, o
<1>6. CASE (f + size) - 1 # e
    <2> DEFINE to == f + size
               m == (e - to) + 1
               then == Loads(c.kind) \o Rest(f, to)
    <2>1. to \in f..e /\ to \in Nat /\ to \in 1..Cells /\ m \in Nat /\ to - f = size
        BY <1>1, <1>6, MemoryAssumption
    <2>a. /\ Rest(f, to) \in Seq(FirstCells) /\ Len(Rest(f, f)) > size
          /\ SubSeq(Rest(f, f), 1, size) = Piece(f, size)
          /\ SubSeq(Rest(f, f), size + 1, Len(Rest(f, f))) = Rest(f, to)
        <3>1. e \in Nat /\ f + size <= e
            BY <1>1, <2>1, MemoryAssumption
        <3> QED BY <1>1, <3>1, FunctionInTwo DEF e
    <2> HIDE DEF to, m
    <2>b. Loads(c.kind) \in Seq(RunCells)
        <3>1. <<"load", 0>> \in RunCells
            BY DEF RunCells
        <3>2. <<>> \in Seq(RunCells)
            BY EmptySeq
        <3>3. << <<"load", 0>> >> \in Seq(RunCells)
            BY <3>1
        <3> QED BY <3>2, <3>3 DEF Loads
    <2>c. then \in Seq(RunCells)
        <3>1. Rest(f, to) \in Seq(RunCells)
            <4>1. FirstCells \subseteq RunCells
                BY DEF RunCells
            <4> QED BY <2>a, <4>1, SeqMonotonic
        <3> QED BY <2>b, <3>1, ConcatProperties
    <2>2. IsBody(mem, f, f, to - 1, o)
        BY <1>2 DEF IsBody, to
    <2>3. IsBody(mem, f, to, e, to)
        <3>1. \A a \in to..e : to + (a - to) = a /\ a \in 1..Cells
            BY <1>1, <2>1, MemoryAssumption
        <3> QED BY <3>1 DEF IsBody, to, e, f, size
    <2>4. ASSUME NEW u \in 1..(2 * Cells), u > m PROVE r[u][o + (to - f)] = then
        <3>1. u - 1 \in 1..(2 * Cells) /\ u - 1 > e - to
            BY <1>1, <2>1, <2>4, MemoryAssumption DEF m
        <3>2. r[u - 1][to] = Rest(f, to)
            BY <1>1, <2>1, <2>3, <3>1, BodyRuns DEF e, r
        <3>3. o + size \in 1..Cells /\ o + (to - f) = o + size
            BY <1>1, <2>1, MemoryAssumption
        <3>4. mem[o + size] = <<c.kind, 0>> /\ mem[(o + size) + 1] = <<"operand", BackOperand(c)>>
            BY DEF BackWritten, JUMP_HOOK_SIZE, o, size
        <3>5. mem[o + size][1] = c.kind /\ mem[(o + size) + 1][2] = BackOperand(c)
            BY <3>4
        <3>6. CASE c.kind = "absolute"
            <4>1. BackOperand(c) = to
                BY <3>6 DEF BackOperand, operand_of, to, f, size
            <4>2. r[u][o + size] = Loads("absolute") \o r[u - 1][mem[(o + size) + 1][2]]
                BY <3>3, <3>5, <3>6, RunnerSteps DEF r
            <4> QED BY <3>2, <3>3, <3>5, <3>6, <4>1, <4>2
        <3>7. CASE c.kind = "relative"
            <4>1. BackOperand(c) = to - (o + size) - JUMP_HOOK_SIZE
                BY <3>7 DEF BackOperand, operand_of, to, f, size, o
            <4>2. r[u][o + size] = r[u - 1][(o + size) + JUMP_HOOK_SIZE + mem[(o + size) + 1][2]]
                BY <3>3, <3>5, <3>7, RunnerSteps DEF r
            <4>3. (o + size) + JUMP_HOOK_SIZE + BackOperand(c) = to
                BY <1>1, <2>1, <4>1 DEF JUMP_HOOK_SIZE
            <4>4. Loads(c.kind) \o Rest(f, to) = Rest(f, to)
                BY <2>a, <3>7, ConcatEmptySeq DEF Loads
            <4> QED BY <3>2, <3>3, <3>5, <4>2, <4>3, <4>4
        <3> QED BY <1>1, <3>6, <3>7, HookAssumption
    <2>5. n > m + (to - f)
        BY <1>1, <1>4, <2>1 DEF m
    <2> HIDE DEF then
    <2>6. r[n][o] = Piece(f, to - f) \o then
        BY ZenonT(30), <1>1, <1>4, <2>1, <2>2, <2>4, <2>5, <2>c, CodeRuns DEF e, r
    <2>7. bef = Rest(f, f)
        BY DEF Straight, f
    <2>8. Through(bef, size, c.kind) = Piece(f, size) \o then
        BY <2>a, <2>7 DEF Through, then
    <2> QED BY <1>3, <2>1, <2>6, <2>7, <2>8, <2>a DEF o, size
<1> QED BY <1>5, <1>6

(* The jump of an earlier call, moved.                                     *)
LEMMA JumpRuns ==
    ASSUME NEW mem \in [1..Cells -> CellType], NEW o \in 1..Cells, NEW target \in Int, target < 0,
           mem[o] = <<"absolute", 0>>, mem[o + 1] = <<"operand", target>>
    PROVE  Runs(mem, o) = Loads("absolute") \o << <<"hook", target>> >>
<1> DEFINE n == 2 * Cells
<1>1. n \in 1..(2 * Cells) /\ n - 1 \in 0..(2 * Cells)
    BY MemoryAssumption
<1>2. mem[o][1] = "absolute" /\ mem[o + 1][2] = target
    OBVIOUS
<1>3. Runs(mem, o) = Runner2(mem)[n][o]
    BY RunsIs DEF Runner2
<1> HIDE DEF n
<1>4. Runner2(mem)[n][o] = Loads("absolute") \o Runner2(mem)[n - 1][target]
    BY <1>1, <1>2, RunnerSteps
<1>5. \A on, fuel : RunsOn(mem, fuel, on)[target] = << <<"hook", target>> >>
    BY DEF RunsOn
<1>6. \E on : Runner2(mem)[n - 1] = RunsOn(mem, n - 1, on)
    BY <1>1, RunsIs DEF Runner2
<1> QED BY <1>3, <1>4, <1>5, <1>6

(* What a call has yet to do.                                              *)

(* The calls whose memory is their own: their bytes and their jump back.   *)
IsTrampoline(c) ==
    /\ c.function \in Functions /\ c.size \in Sizes /\ c.size >= JUMP_HOOK_SIZE
    /\ c.kind \in Kinds /\ c.target \in Int /\ c.original \in Int

LEMMA TrampolineTypes ==
    ASSUME NEW c, IsTrampoline(c)
    PROVE  /\ c.function \in Nat /\ c.size \in Nat /\ c.size >= 2 /\ c.original \in Int
           /\ c.function \in Int /\ c.size \in Int /\ 0 \in Int /\ JUMP_HOOK_SIZE \in Int
           /\ c.original + c.size \in Int /\ BackOperand(c) \in Int
           /\ c.kind \in Args /\ "" \in Args /\ "stolen" \in Args /\ "nop" \in Args
           /\ IsCall(c)
<1>1. /\ c.function \in Nat /\ c.size \in Nat /\ c.size >= 2 /\ c.original \in Int /\ c.kind \in Kinds
      /\ c.function + c.size - 1 <= CodeSize /\ CodeSize \in Nat
    BY HookAssumption, MemoryAssumption, FunctionsAreApart DEF IsTrampoline, JUMP_HOOK_SIZE
<1>2. c.kind \in Args /\ "" \in Args /\ "stolen" \in Args /\ "nop" \in Args
    BY <1>1, ZenonT(30) DEF Args
<1>3. BackOperand(c) \in Int
    <2>1. c.function + c.size \in Int /\ (c.function + c.size) - (c.original + c.size) - JUMP_HOOK_SIZE \in Int
        BY <1>1 DEF JUMP_HOOK_SIZE
    <2> QED BY <2>1 DEF BackOperand, operand_of
<1>4. c.function <= CodeSize
    BY <1>1
<1>5. c.function \in Int /\ c.size \in Int /\ 0 \in Int /\ JUMP_HOOK_SIZE \in Int /\ c.original + c.size \in Int
    BY <1>1 DEF JUMP_HOOK_SIZE
<1>6. IsCall(c)
    BY <1>1, <1>4, <1>5 DEF IsCall, IsTrampoline
<1> QED BY <1>1, <1>2, <1>3, <1>5, <1>6

LEMMA AfterIs ==
    ASSUME NEW c, IsTrampoline(c)
    PROVE  /\ After(c) \in Programs /\ Len(After(c)) = 8
           /\ After(c)[1] = Op("alloc", 0, 0, "")
           /\ After(c)[2] = Op("protect", c.original, c.size, "")
           /\ After(c)[3] = Op("store", c.original, c.size, "stolen")
           /\ After(c)[4] = Op("restore", c.original, c.size, "")
           /\ After(c)[5] = Op("memcpy", 0, BackOperand(c), c.kind)
           /\ After(c)[6] = Op("protect", c.original + c.size, JUMP_HOOK_SIZE, "")
           /\ After(c)[7] = Op("store", c.original + c.size, JUMP_HOOK_SIZE, c.kind)
           /\ After(c)[8] = Op("restore", c.original + c.size, JUMP_HOOK_SIZE, "")
<1> DEFINE o1 == Op("alloc", 0, 0, "")
           o2 == Op("protect", c.original, c.size, "")
           o3 == Op("store", c.original, c.size, "stolen")
           o4 == Op("restore", c.original, c.size, "")
           o5 == Op("memcpy", 0, BackOperand(c), c.kind)
           o6 == Op("protect", c.original + c.size, JUMP_HOOK_SIZE, "")
           o7 == Op("store", c.original + c.size, JUMP_HOOK_SIZE, c.kind)
           o8 == Op("restore", c.original + c.size, JUMP_HOOK_SIZE, "")
<1>1. ASSUME NEW op \in {"protect", "store", "restore", "memcpy", "read", "alloc"}, NEW addr \in Int,
             NEW size \in Int, NEW arg \in Args
      PROVE  Op(op, addr, size, arg) \in Ops
    BY <1>1 DEF Op, Ops
<1>2. "protect" \in {"protect", "store", "restore", "memcpy", "read", "alloc"}
      /\ "store" \in {"protect", "store", "restore", "memcpy", "read", "alloc"}
      /\ "restore" \in {"protect", "store", "restore", "memcpy", "read", "alloc"}
      /\ "memcpy" \in {"protect", "store", "restore", "memcpy", "read", "alloc"}
      /\ "alloc" \in {"protect", "store", "restore", "memcpy", "read", "alloc"}
    OBVIOUS
<1>3. /\ c.original \in Int /\ c.size \in Int /\ 0 \in Int /\ JUMP_HOOK_SIZE \in Int
      /\ c.original + c.size \in Int /\ BackOperand(c) \in Int
      /\ c.kind \in Args /\ "" \in Args /\ "stolen" \in Args
    BY TrampolineTypes
<1>4. o1 \in Ops /\ o2 \in Ops
    BY <1>1, <1>2, <1>3, Zenon
<1>5. o3 \in Ops /\ o4 \in Ops
    BY <1>1, <1>2, <1>3, Zenon
<1>6. o5 \in Ops /\ o6 \in Ops
    BY <1>1, <1>2, <1>3, Zenon
<1>7. o7 \in Ops /\ o8 \in Ops
    BY <1>1, <1>2, <1>3, Zenon
<1>8. After(c) = <<o1, o2, o3, o4, o5, o6, o7, o8>>
    BY DEF After
<1> HIDE DEF o1, o2, o3, o4, o5, o6, o7, o8
<1> DEFINE s == <<o1, o2, o3, o4, o5, o6, o7, o8>>
<1>9. s \in Programs /\ Len(s) = 8
    BY <1>4, <1>5, <1>6, <1>7 DEF Programs
<1>10. /\ s[1] = o1 /\ s[2] = o2 /\ s[3] = o3 /\ s[4] = o4
       /\ s[5] = o5 /\ s[6] = o6 /\ s[7] = o7 /\ s[8] = o8
    OBVIOUS
<1> HIDE DEF s
<1>11. After(c) = s
    BY <1>8 DEF s
<1> QED BY <1>9, <1>10, <1>11 DEF o1, o2, o3, o4, o5, o6, o7, o8

LEMMA LeftIs ==
    ASSUME NEW c, IsTrampoline(c)
    PROVE  /\ Left(c, 0) = After(c) /\ Left(c, 8) = <<>>
           /\ \A k \in 0..7 : /\ Left(c, k) # <<>> /\ Left(c, k) \in Programs /\ Len(Left(c, k)) = 8 - k
                              /\ Head(Left(c, k)) = After(c)[k + 1] /\ Tail(Left(c, k)) = Left(c, k + 1)
                              /\ \A i \in 1..(8 - k) : Left(c, k)[i] = After(c)[k + i]
<1> DEFINE A == After(c)
<1> HIDE DEF A
<1>1. A \in Seq(Ops) /\ Len(A) = 8
    BY AfterIs DEF Programs, A
<1>2. Left(c, 0) = A
    <2>1. 0 + 1 = 1 /\ SubSeq(A, 1, Len(A)) = A
        BY <1>1, SubSeqFull
    <2> QED BY <1>1, <2>1 DEF Left, A
<1>3. Left(c, 8) = <<>>
    <2>1. 8 + 1 = 9 /\ 8 < 9 /\ 9 \in Int /\ 8 \in Int
        OBVIOUS
    <2>2. SubSeq(A, 9, 8) = <<>>
        BY <2>1, SubSeqEmpty
    <2> QED BY <2>1, <2>2 DEF Left, A
<1>4. ASSUME NEW k \in 0..7
      PROVE  /\ Left(c, k) # <<>> /\ Left(c, k) \in Programs /\ Len(Left(c, k)) = 8 - k
             /\ Head(Left(c, k)) = A[k + 1] /\ Tail(Left(c, k)) = Left(c, k + 1)
             /\ \A i \in 1..(8 - k) : Left(c, k)[i] = A[k + i]
    <2>1. k + 1 \in 1..Len(A) /\ 8 \in (k + 1)..Len(A) /\ k + 1 \in Int /\ 8 \in Int
        BY <1>1
    <2>2. Head(SubSeq(A, k + 1, 8)) = A[k + 1] /\ Tail(SubSeq(A, k + 1, 8)) = SubSeq(A, (k + 1) + 1, 8)
        BY <1>1, <2>1, HeadTailOfSubSeq
    <2>3. \A i \in (k + 1)..8 : A[i] \in Ops
        <3>1. \A i \in (k + 1)..8 : i \in 1..Len(A)
            BY <1>1
        <3> QED BY <1>1, <3>1, ElementOfSeq
    <2>4. /\ SubSeq(A, k + 1, 8) \in Seq(Ops)
          /\ Len(SubSeq(A, k + 1, 8)) = IF k + 1 <= 8 THEN 8 - (k + 1) + 1 ELSE 0
          /\ \A i \in 1..(8 - (k + 1) + 1) : SubSeq(A, k + 1, 8)[i] = A[(k + 1) + i - 1]
        <3> DEFINE m == k + 1
        <3>1. m \in Int /\ 8 \in Int /\ \A i \in m..8 : A[i] \in Ops
            BY <2>1, <2>3
        <3> HIDE DEF m
        <3>2. /\ SubSeq(A, m, 8) \in Seq(Ops)
              /\ Len(SubSeq(A, m, 8)) = IF m <= 8 THEN 8 - m + 1 ELSE 0
              /\ \A i \in 1..(8 - m + 1) : SubSeq(A, m, 8)[i] = A[m + i - 1]
            BY <3>1, SubSeqProperties
        <3> QED BY <3>2 DEF m
    <2>5. 8 - (k + 1) + 1 = 8 - k /\ k + 1 <= 8 /\ 8 - k > 0 /\ \A i \in 1..(8 - k) : (k + 1) + i - 1 = k + i
        <3>1. k \in Int /\ k <= 7
            OBVIOUS
        <3>2. 8 - (k + 1) + 1 = 8 - k /\ k + 1 <= 8 /\ 8 - k > 0
            BY <3>1
        <3>3. ASSUME NEW i \in 1..(8 - k) PROVE (k + 1) + i - 1 = k + i
            <4>1. i \in Int
                OBVIOUS
            <4> QED BY <3>1, <4>1
        <3> QED BY <3>2, <3>3
    <2> DEFINE L == SubSeq(A, k + 1, 8)
    <2>6. Left(c, k) = L /\ Left(c, k + 1) = SubSeq(A, (k + 1) + 1, 8)
        BY DEF Left, A
    <2> HIDE DEF L
    <2>7. L \in Seq(Ops) /\ Len(L) = 8 - k /\ \A i \in 1..(8 - k) : L[i] = A[k + i]
        BY <2>4, <2>5 DEF L
    <2>8. L # <<>>
        <3>1. Len(L) # 0 /\ Len(<<>>) = 0
            BY <2>5, <2>7, EmptySeq
        <3> QED BY <3>1
    <2>9. Head(L) = A[k + 1] /\ Tail(L) = SubSeq(A, (k + 1) + 1, 8)
        BY <2>2 DEF L
    <2>10. L \in Programs
        BY <2>7 DEF Programs
    <2> QED BY <2>6, <2>7, <2>8, <2>9, <2>10
<1> QED BY <1>2, <1>3, <1>4 DEF A

LEMMA CalmIs ==
    ASSUME NEW c
    PROVE  /\ Calm(<<>>, c)
           /\ \A x : Calm(x, c) /\ x # <<>> =>
                /\ Calm(Tail(x), c) /\ Head(x).op \notin {"read", "alloc"} /\ Head(x) \in Ops
                /\ Head(x).op = "store" =>
                      Head(x).addr >= c.function /\ Head(x).addr + Head(x).size <= c.function + c.size
<1>1. Calm(<<>>, c)
    BY EmptySeq DEF Calm, Programs
<1>2. ASSUME NEW x, Calm(x, c), x # <<>>
      PROVE  /\ Calm(Tail(x), c) /\ Head(x).op \notin {"read", "alloc"} /\ Head(x) \in Ops
             /\ Head(x).op = "store" =>
                   Head(x).addr >= c.function /\ Head(x).addr + Head(x).size <= c.function + c.size
    <2>1. x \in Seq(Ops) /\ Len(x) \in Nat \ {0}
        BY <1>2, EmptySeq DEF Calm, Programs
    <2>2. Tail(x) \in Seq(Ops) /\ Len(Tail(x)) = Len(x) - 1 /\ Head(x) \in Ops /\ Head(x) = x[1]
          /\ \A i \in 1..Len(Tail(x)) : Tail(x)[i] = x[i + 1]
        BY <1>2, <2>1, HeadTailProperties
    <2>3. 1 \in 1..Len(x) /\ \A i \in 1..Len(Tail(x)) : i + 1 \in 1..Len(x)
        BY <2>1, <2>2
    <2> QED BY <1>2, <2>2, <2>3 DEF Calm, Programs
<1> QED BY <1>1, <1>2

(* The first operation of two programs in a row.                           *)
LEMMA HeadOfBoth ==
    ASSUME NEW a \in Programs, NEW b \in Programs
    PROVE  /\ a \o b \in Programs
           /\ a = <<>> => a \o b = b
           /\ a # <<>> => a \o b # <<>> /\ Head(a \o b) = Head(a) /\ Tail(a \o b) = Tail(a) \o b
<1>1. a \in Seq(Ops) /\ b \in Seq(Ops) /\ Len(a) \in Nat /\ Len(b) \in Nat
    BY LenProperties DEF Programs
<1>2. a \o b \in Seq(Ops) /\ Len(a \o b) = Len(a) + Len(b)
      /\ \A i \in 1..(Len(a) + Len(b)) : (a \o b)[i] = IF i <= Len(a) THEN a[i] ELSE b[i - Len(a)]
    BY <1>1, ConcatProperties
<1>3. a = <<>> => a \o b = b
    BY <1>1, ConcatEmptySeq
<1>4. ASSUME a # <<>>
      PROVE  a \o b # <<>> /\ Head(a \o b) = Head(a) /\ Tail(a \o b) = Tail(a) \o b
    <2> DEFINE s == a \o b
               x == Tail(a)
               y == x \o b
               z == Tail(s)
    <2>1. Len(a) # 0
        BY <1>1, <1>4, EmptySeq
    <2>2. Head(a) = a[1] /\ x \in Seq(Ops) /\ Len(x) = Len(a) - 1 /\ \A i \in 1..Len(x) : x[i] = a[i + 1]
        BY <1>1, <1>4, HeadTailProperties
    <2>3. s # <<>>
        <3>1. Len(s) # 0 /\ Len(<<>>) = 0
            BY <1>1, <1>2, <2>1, EmptySeq
        <3> QED BY <3>1
    <2>4. Head(s) = s[1] /\ z \in Seq(Ops) /\ Len(z) = Len(s) - 1 /\ \A i \in 1..Len(z) : z[i] = s[i + 1]
        BY <1>2, <2>3, HeadTailProperties
    <2>5. s[1] = a[1]
        <3>1. 1 \in 1..(Len(a) + Len(b)) /\ 1 <= Len(a)
            BY <1>1, <2>1
        <3> QED BY <1>2, <3>1
    <2> HIDE DEF x
    <2>6. y \in Seq(Ops) /\ Len(y) = Len(x) + Len(b)
          /\ \A i \in 1..(Len(x) + Len(b)) : y[i] = IF i <= Len(x) THEN x[i] ELSE b[i - Len(x)]
        BY <1>1, <2>2, ConcatProperties
    <2>7. \A i \in 1..(Len(a) + Len(b)) : s[i] = IF i <= Len(a) THEN a[i] ELSE b[i - Len(a)]
        BY <1>2
    <2>8. Len(s) = Len(a) + Len(b)
        BY <1>2
    <2> HIDE DEF s, y, z
    <2>9. Len(z) = Len(y) /\ Len(z) = (Len(a) + Len(b)) - 1
        BY <1>1, <2>2, <2>4, <2>6, <2>8
    <2>10. ASSUME NEW i \in 1..Len(z) PROVE z[i] = y[i]
        <3>1. i + 1 \in 1..(Len(a) + Len(b)) /\ i \in 1..(Len(x) + Len(b)) /\ i \in Int
            BY <1>1, <2>2, <2>9
        <3>2. CASE i <= Len(x)
            <4>1. i + 1 <= Len(a) /\ i \in 1..Len(x)
                BY <1>1, <2>2, <3>1, <3>2
            <4> QED BY <2>2, <2>4, <2>6, <2>7, <3>1, <3>2, <4>1
        <3>3. CASE ~ (i <= Len(x))
            <4>1. ~ (i + 1 <= Len(a)) /\ (i + 1) - Len(a) = i - Len(x)
                BY <1>1, <2>2, <3>1, <3>3
            <4> QED BY <2>4, <2>6, <2>7, <3>1, <3>3, <4>1
        <3> QED BY <3>2, <3>3
    <2>11. z = y
        BY <2>4, <2>6, <2>9, <2>10, SeqEqual
    <2> QED BY <2>2, <2>3, <2>4, <2>5, <2>11 DEF s, x, y, z
<1> QED BY <1>2, <1>3, <1>4 DEF Programs

LEMMA CalmConcat ==
    ASSUME NEW c, NEW a, NEW b, Calm(a, c), Calm(b, c)
    PROVE  Calm(a \o b, c)
<1> DEFINE s == a \o b
           m == Len(a)
           n == Len(b)
<1>1. a \in Programs /\ b \in Programs /\ m \in Nat /\ n \in Nat
    BY LenProperties DEF Calm, Programs
<1>2. s \in Programs /\ Len(s) = m + n
      /\ \A i \in 1..(m + n) : s[i] = IF i <= m THEN a[i] ELSE b[i - m]
    BY <1>1, ConcatProperties DEF Programs
<1> HIDE DEF s, m, n
<1>3. \A i \in 1..(m + n) : (i \in 1..m /\ s[i] = a[i]) \/ (i - m \in 1..n /\ s[i] = b[i - m])
    BY <1>1, <1>2
<1>4. \A i \in 1..(m + n) :
          /\ s[i].op \notin {"read", "alloc"}
          /\ s[i].op = "store" => s[i].addr >= c.function /\ s[i].addr + s[i].size <= c.function + c.size
    <2> TAKE i \in 1..(m + n)
    <2>1. CASE i \in 1..m /\ s[i] = a[i]
        BY <2>1 DEF Calm, m
    <2>2. CASE i - m \in 1..n /\ s[i] = b[i - m]
        BY <2>2 DEF Calm, n
    <2> QED BY <1>3, <2>1, <2>2
<1> QED BY <1>2, <1>4 DEF Calm, s

LEMMA WriteIsCalm ==
    ASSUME NEW c, NEW addr \in Int, NEW size \in Int, NEW source \in Args,
           addr >= c.function, addr + size <= c.function + c.size
    PROVE  Calm(write(addr, source, size), c)
<1> DEFINE o1 == Op("protect", addr, size, "")
           o2 == Op("store", addr, size, source)
           o3 == Op("restore", addr, size, "")
           s == <<o1, o2, o3>>
<1>1. o1 \in Ops /\ o2 \in Ops /\ o3 \in Ops
    <2>1. "" \in Args
        BY DEF Args
    <2>2. ASSUME NEW op \in {"protect", "store", "restore"}, NEW arg \in Args
          PROVE  Op(op, addr, size, arg) \in Ops
        BY DEF Op, Ops
    <2> QED BY <2>1, <2>2
<1>2. o1.op = "protect" /\ o2.op = "store" /\ o3.op = "restore" /\ o2.addr = addr /\ o2.size = size
    BY DEF Op
<1>3. write(addr, source, size) = s
    BY DEF write
<1> HIDE DEF o1, o2, o3
<1>4. s \in Programs /\ Len(s) = 3 /\ s[1] = o1 /\ s[2] = o2 /\ s[3] = o3
    BY <1>1 DEF Programs
<1> HIDE DEF s
<1>5. \A i \in 1..3 : i = 1 \/ i = 2 \/ i = 3
    OBVIOUS
<1>6. Calm(s, c)
    BY <1>2, <1>4, <1>5 DEF Calm
<1> QED BY <1>3, <1>6

LEMMA OneIsCalm ==
    ASSUME NEW c, NEW o \in Ops, o.op \notin {"store", "read", "alloc"}
    PROVE  Calm(<<o>>, c)
<1>1. <<o>> \in Programs /\ Len(<<o>>) = 1 /\ <<o>>[1] = o
    BY DEF Programs
<1>2. \A i \in 1..1 : i = 1
    OBVIOUS
<1> QED BY <1>1, <1>2 DEF Calm

LEMMA JmpIsCalm ==
    ASSUME NEW c, IsTrampoline(c)
    PROVE  Calm(jmp(c.kind, c.function, c.target, c.size), c)
<1> DEFINE o == Op("memcpy", 0, OperandOf(c), c.kind)
           v == write(c.function, c.kind, JUMP_HOOK_SIZE)
           next == c.function + JUMP_HOOK_SIZE
           left == c.size - JUMP_HOOK_SIZE
           d == IF c.size > JUMP_HOOK_SIZE THEN write(next, "nop", left) ELSE <<>>
<1>1. /\ c.function \in Int /\ c.size \in Int /\ c.size >= 2 /\ JUMP_HOOK_SIZE \in Int /\ 0 \in Int
      /\ c.kind \in Args /\ "nop" \in Args
    BY TrampolineTypes
<1>2. Calm(<<o>>, c)
    <2>1. OperandOf(c) \in Int
        <3>1. c.target \in Int /\ c.target - c.function - JUMP_HOOK_SIZE \in Int
            BY <1>1 DEF IsTrampoline
        <3> QED BY <3>1 DEF OperandOf, operand_of
    <2>2. ASSUME NEW n \in Int PROVE Op("memcpy", 0, n, c.kind) \in Ops /\ Op("memcpy", 0, n, c.kind).op = "memcpy"
        BY <1>1 DEF Op, Ops
    <2>3. o \in Ops /\ o.op = "memcpy"
        BY <2>1, <2>2, Zenon
    <2> QED BY <2>3, OneIsCalm
<1>3. Calm(v, c)
    <2>1. c.function >= c.function /\ c.function + JUMP_HOOK_SIZE <= c.function + c.size
        BY <1>1 DEF JUMP_HOOK_SIZE
    <2> QED BY <1>1, <2>1, WriteIsCalm
<1>4. Calm(d, c)
    <2>1. CASE c.size > JUMP_HOOK_SIZE
        <3>1. next \in Int /\ left \in Int /\ next >= c.function /\ next + left <= c.function + c.size
            BY <1>1 DEF JUMP_HOOK_SIZE
        <3> HIDE DEF next, left
        <3>2. Calm(write(next, "nop", left), c)
            BY <1>1, <3>1, WriteIsCalm
        <3> QED BY <2>1, <3>2
    <2>2. CASE ~ (c.size > JUMP_HOOK_SIZE)
        BY <2>2, CalmIs
    <2> QED BY <2>1, <2>2
<1>5. jmp(c.kind, c.function, c.target, c.size) = (<<o>> \o v) \o d
    BY DEF jmp, fill_with_nop, OperandOf
<1> HIDE DEF o, v, d
<1>6. Calm(<<o>> \o v, c)
    BY <1>2, <1>3, CalmConcat
<1> QED BY <1>4, <1>5, <1>6, CalmConcat

LEMMA BothAre ==
    ASSUME NEW S, NEW a \in Seq(S), NEW b \in Seq(S), NEW t \in Seq(S), Len(t) = Len(a) + Len(b),
           \A i \in 1..Len(a) : t[i] = a[i], \A i \in 1..Len(b) : t[Len(a) + i] = b[i]
    PROVE  a \o b = t
<1> DEFINE s == a \o b
           m == Len(a)
           n == Len(b)
<1>1. m \in Nat /\ n \in Nat
    BY LenProperties
<1>2. s \in Seq(S) /\ Len(s) = m + n
      /\ \A i \in 1..(m + n) : s[i] = IF i <= m THEN a[i] ELSE b[i - m]
    BY ConcatProperties
<1>3. Len(t) = m + n /\ (\A i \in 1..m : t[i] = a[i]) /\ \A i \in 1..n : t[m + i] = b[i]
    OBVIOUS
<1> HIDE DEF s, m, n
<1>4. ASSUME NEW i \in 1..(m + n) PROVE s[i] = t[i]
    <2>1. CASE i <= m
        <3>1. i \in 1..m
            BY <1>1, <2>1
        <3> QED BY <1>2, <1>3, <2>1, <3>1
    <2>2. CASE ~ (i <= m)
        <3>1. i - m \in 1..n /\ m + (i - m) = i
            BY <1>1, <2>2
        <3>2. t[m + (i - m)] = b[i - m]
            BY <1>3, <3>1
        <3> QED BY <1>2, <2>2, <3>1, <3>2
    <2> QED BY <2>1, <2>2
<1>5. s = t
    BY <1>2, <1>3, <1>4, SeqEqual
<1> QED BY <1>5 DEF s

LEMMA InARow ==
    ASSUME NEW S, NEW o1 \in S, NEW o2 \in S, NEW o3 \in S, NEW o4 \in S,
           NEW o5 \in S, NEW o6 \in S, NEW o7 \in S, NEW o8 \in S
    PROVE  (<<o1>> \o <<o2, o3, o4>>) \o ((<<o5>> \o <<o6, o7, o8>>) \o <<>>)
               = <<o1, o2, o3, o4, o5, o6, o7, o8>>
<1>1. ASSUME NEW p1 \in S, NEW p2 \in S, NEW p3 \in S, NEW p4 \in S
      PROVE  <<p1>> \o <<p2, p3, p4>> = <<p1, p2, p3, p4>>
    <2> DEFINE a == <<p1>>
               b == <<p2, p3, p4>>
               t == <<p1, p2, p3, p4>>
    <2>1. a \in Seq(S) /\ b \in Seq(S) /\ t \in Seq(S) /\ Len(a) = 1 /\ Len(b) = 3 /\ Len(t) = 4
        OBVIOUS
    <2>2. a[1] = p1 /\ b[1] = p2 /\ b[2] = p3 /\ b[3] = p4
          /\ t[1] = p1 /\ t[2] = p2 /\ t[3] = p3 /\ t[4] = p4
        OBVIOUS
    <2> HIDE DEF a, b, t
    <2>3. Len(t) = Len(a) + Len(b)
        BY <2>1
    <2>4. \A i \in 1..Len(a) : t[i] = a[i]
        BY <2>1, <2>2
    <2>5. \A i \in 1..3 : i = 1 \/ i = 2 \/ i = 3
        OBVIOUS
    <2>6. \A i \in 1..Len(b) : t[Len(a) + i] = b[i]
        BY <2>1, <2>2, <2>5
    <2>7. a \o b = t
        BY <2>1, <2>3, <2>4, <2>6, BothAre
    <2> QED BY <2>7 DEF a, b, t
<1> DEFINE a == <<o1, o2, o3, o4>>
           b == <<o5, o6, o7, o8>>
           t == <<o1, o2, o3, o4, o5, o6, o7, o8>>
<1>2. <<o1>> \o <<o2, o3, o4>> = a /\ <<o5>> \o <<o6, o7, o8>> = b
    BY <1>1
<1>3. a \in Seq(S) /\ b \in Seq(S) /\ t \in Seq(S) /\ Len(a) = 4 /\ Len(b) = 4 /\ Len(t) = 8
    OBVIOUS
<1>4. /\ a[1] = o1 /\ a[2] = o2 /\ a[3] = o3 /\ a[4] = o4 /\ b[1] = o5 /\ b[2] = o6 /\ b[3] = o7 /\ b[4] = o8
      /\ t[1] = o1 /\ t[2] = o2 /\ t[3] = o3 /\ t[4] = o4 /\ t[5] = o5 /\ t[6] = o6 /\ t[7] = o7 /\ t[8] = o8
    OBVIOUS
<1> HIDE DEF a, b, t
<1>5. b \o <<>> = b
    BY <1>3, ConcatEmptySeq
<1>6. \A i \in 1..4 : i = 1 \/ i = 2 \/ i = 3 \/ i = 4
    OBVIOUS
<1>7. Len(t) = Len(a) + Len(b)
    BY <1>3
<1>8. \A i \in 1..Len(a) : t[i] = a[i]
    BY <1>3, <1>4, <1>6
<1>9. \A i \in 1..Len(b) : t[Len(a) + i] = b[i]
    BY <1>3, <1>4, <1>6
<1>10. a \o b = t
    BY <1>3, <1>7, <1>8, <1>9, BothAre
<1> QED BY <1>2, <1>5, <1>10 DEF t

LEMMA TrampolineIsWaiting ==
    ASSUME NEW c, IsTrampoline(c)
    PROVE  Waiting(trampoline(c.kind, c.function, c.target, c.size, c.original), c)
<1> DEFINE r == Reads(c)
           j == jmp(c.kind, c.function, c.target, c.size)
           l == <<Op("alloc", 0, 0, "")>>
           w == write(c.original, "stolen", c.size)
           back == c.original + c.size
           e == jmp(c.kind, back, c.function + c.size, JUMP_HOOK_SIZE)
           A == After(c)
<1>1. Calm(j, c) /\ j \in Seq(Ops)
    BY JmpIsCalm DEF Calm, Programs
<1>2. trampoline(c.kind, c.function, c.target, c.size, c.original) = (((r \o j) \o l) \o w) \o e
    BY DEF trampoline, Reads
<1>3. A \in Seq(Ops) /\ Len(A) = 8
    BY AfterIs DEF Programs
<1>4. (l \o w) \o e = A
    <2>1. ~ (JUMP_HOOK_SIZE > JUMP_HOOK_SIZE)
        BY DEF JUMP_HOOK_SIZE
    <2>2. e = (<<Op("memcpy", 0, BackOperand(c), c.kind)>> \o write(back, c.kind, JUMP_HOOK_SIZE)) \o <<>>
        BY <2>1 DEF jmp, BackOperand
    <2> DEFINE o1 == Op("alloc", 0, 0, "")
               o2 == Op("protect", c.original, c.size, "")
               o3 == Op("store", c.original, c.size, "stolen")
               o4 == Op("restore", c.original, c.size, "")
               o5 == Op("memcpy", 0, BackOperand(c), c.kind)
               o6 == Op("protect", c.original + c.size, JUMP_HOOK_SIZE, "")
               o7 == Op("store", c.original + c.size, JUMP_HOOK_SIZE, c.kind)
               o8 == Op("restore", c.original + c.size, JUMP_HOOK_SIZE, "")
    <2>3. /\ l = <<o1>> /\ w = <<o2, o3, o4>> /\ A = <<o1, o2, o3, o4, o5, o6, o7, o8>>
          /\ write(back, c.kind, JUMP_HOOK_SIZE) = <<o6, o7, o8>>
        BY DEF write, After
    <2> HIDE DEF o1, o2, o3, o4, o5, o6, o7, o8, l, w, A, e, back
    <2>4. (<<o1>> \o <<o2, o3, o4>>) \o ((<<o5>> \o <<o6, o7, o8>>) \o <<>>)
              = <<o1, o2, o3, o4, o5, o6, o7, o8>>
        <3> DEFINE S == {o1, o2, o3, o4, o5, o6, o7, o8}
        <3>1. o1 \in S /\ o2 \in S /\ o3 \in S /\ o4 \in S /\ o5 \in S /\ o6 \in S /\ o7 \in S /\ o8 \in S
            OBVIOUS
        <3> HIDE DEF S
        <3> QED BY <3>1, InARow
    <2>5. e = (<<o5>> \o <<o6, o7, o8>>) \o <<>>
        BY <2>2, <2>3 DEF o5
    <2> QED BY <2>3, <2>4, <2>5
<1>5. r \in Seq(Ops)
    <2>1. c.function \in Int /\ c.size \in Int /\ "" \in Args
        BY TrampolineTypes
    <2>2. Op("read", c.function, c.size, "") \in Ops
        BY <2>1 DEF Op, Ops
    <2>3. ASSUME NEW o \in Ops PROVE <<o>> \in Seq(Ops)
        OBVIOUS
    <2> QED BY <2>2, <2>3, Zenon DEF Reads
<1>6. l \in Seq(Ops) /\ w \in Seq(Ops) /\ e \in Seq(Ops)
    <2>1. /\ c.function \in Int /\ c.size \in Int /\ c.size >= 2 /\ 0 \in Int /\ JUMP_HOOK_SIZE \in Int
          /\ c.original \in Int /\ back \in Int /\ c.function + c.size \in Int /\ c.kind \in Kinds
          /\ "" \in Args /\ "stolen" \in Args /\ c.size \in Nat /\ JUMP_HOOK_SIZE \in Nat
          /\ JUMP_HOOK_SIZE >= JUMP_HOOK_SIZE
        <3>1. JUMP_HOOK_SIZE \in Nat /\ JUMP_HOOK_SIZE >= JUMP_HOOK_SIZE
            BY DEF JUMP_HOOK_SIZE
        <3>2. c.kind \in Kinds
            BY DEF IsTrampoline
        <3>3. /\ c.function \in Int /\ c.size \in Int /\ c.size >= 2 /\ 0 \in Int /\ JUMP_HOOK_SIZE \in Int
              /\ c.original \in Int /\ back \in Int /\ "" \in Args /\ "stolen" \in Args /\ c.size \in Nat
            BY TrampolineTypes, Zenon
        <3>4. c.function + c.size \in Int
            <4>1. c.function \in Int /\ c.size \in Int
                BY <3>3, Zenon
            <4> QED BY <4>1
        <3> QED BY <3>1, <3>2, <3>3, <3>4
    <2>2. l \in Programs
        <3>1. Op("alloc", 0, 0, "") \in Ops
            BY <2>1 DEF Op, Ops
        <3>2. ASSUME NEW o \in Ops PROVE <<o>> \in Programs
            BY DEF Programs
        <3> QED BY <3>1, <3>2, Zenon
    <2>3. w \in Programs
        <3>1. c.size > 0
            <4>1. c.size \in Nat /\ c.size >= 2
                BY <2>1, Zenon
            <4> QED BY <4>1
        <3>2. WellMade(write(c.original, "stolen", c.size), c.size)
            BY <2>1, <3>1, WriteIsWellMade
        <3> QED BY <3>2 DEF WellMade
    <2> HIDE DEF back
    <2>4. e \in Programs
        BY <2>1, JmpIsWellMade DEF WellMade
    <2> QED BY <2>2, <2>3, <2>4 DEF Programs
<1> HIDE DEF r, j, l, w, e, A
<1>7. (((r \o j) \o l) \o w) \o e = r \o (j \o A)
    <2>1. r \o j \in Seq(Ops) /\ l \o w \in Seq(Ops)
        BY <1>1, <1>5, <1>6, ConcatProperties
    <2>2. ((r \o j) \o l) \o w = (r \o j) \o (l \o w)
        BY SMTT(30), <1>6, <2>1, ConcatAssociative
    <2>3. ((r \o j) \o (l \o w)) \o e = (r \o j) \o ((l \o w) \o e)
        BY SMTT(30), <1>6, <2>1, ConcatAssociative
    <2>4. (r \o j) \o A = r \o (j \o A)
        BY <1>1, <1>3, <1>5, ConcatAssociative
    <2> QED BY <1>4, <2>2, <2>3, <2>4
<1>8. Calm(j, c) /\ (((r \o j) \o l) \o w) \o e = Reads(c) \o (j \o After(c))
    BY <1>1, <1>7 DEF r, A
<1> HIDE DEF Calm
<1> QED BY <1>2, <1>8 DEF Waiting

(* The first operation of a call.                                          *)
LEMMA WaitingIs ==
    ASSUME NEW c, IsTrampoline(c), NEW s, Waiting(s, c)
    PROVE  /\ s # <<>> /\ Head(s) = Op("read", c.function, c.size, "") /\ Head(s).op = "read"
           /\ Working(Tail(s), c)
<1>1. PICK x : Calm(x, c) /\ s = Reads(c) \o (x \o After(c))
    BY DEF Waiting
<1> DEFINE o == Op("read", c.function, c.size, "")
           y == x \o After(c)
<1>2. o.op = "read" /\ Reads(c) = <<o>>
    BY DEF Op, Reads
<1>3. o \in Ops
    <2>1. c.function \in Int /\ c.size \in Int /\ "" \in Args
        BY TrampolineTypes
    <2> QED BY <2>1 DEF Op, Ops
<1>4. y \in Programs
    BY <1>1, AfterIs, HeadOfBoth DEF Calm
<1> HIDE DEF o, y
<1>5. <<o>> \in Programs /\ <<o>> # <<>> /\ Head(<<o>>) = o /\ Tail(<<o>>) = <<>>
    BY <1>3 DEF Programs
<1>6. <<>> \in Programs
    BY EmptySeq DEF Programs
<1>7. s = <<o>> \o y
    BY <1>1, <1>2 DEF y
<1>8. s # <<>> /\ Head(s) = o /\ Tail(s) = <<>> \o y
    BY <1>4, <1>5, <1>7, HeadOfBoth
<1>9. <<>> \o y = y
    BY <1>4, <1>6, HeadOfBoth
<1>10. Working(Tail(s), c)
    BY <1>1, <1>8, <1>9 DEF Working, y
<1> QED BY <1>2, <1>8, <1>10 DEF o

LEMMA WorkingIs ==
    ASSUME NEW c, IsTrampoline(c), NEW s, Working(s, c)
    PROVE  /\ s # <<>> /\ Head(s).op # "read"
           /\ Head(s).op = "alloc" => Tail(s) = Left(c, 1)
           /\ Head(s).op # "alloc" => Working(Tail(s), c) /\ Head(s) \in Ops
           /\ Head(s).op = "store" =>
                 Head(s).addr >= c.function /\ Head(s).addr + Head(s).size <= c.function + c.size
<1>1. PICK x : Calm(x, c) /\ s = x \o After(c)
    BY DEF Working
<1>2. x \in Programs /\ After(c) \in Programs
    BY <1>1, AfterIs DEF Calm
<1>3. CASE x = <<>>
    <2>1. s = Left(c, 0) /\ 0 \in 0..7 /\ 0 + 1 = 1
        BY <1>1, <1>2, <1>3, HeadOfBoth, LeftIs
    <2>2. s # <<>> /\ Head(s) = After(c)[1] /\ Tail(s) = Left(c, 1)
        BY <2>1, LeftIs
    <2>3. Head(s).op = "alloc"
        <3>1. Op("alloc", 0, 0, "").op = "alloc"
            BY DEF Op
        <3> QED BY <2>2, <3>1, AfterIs
    <2> QED BY <2>2, <2>3
<1>4. CASE x # <<>>
    <2>1. s # <<>> /\ Head(s) = Head(x) /\ Tail(s) = Tail(x) \o After(c)
        BY <1>1, <1>2, <1>4, HeadOfBoth
    <2>2. /\ Calm(Tail(x), c) /\ Head(x).op \notin {"read", "alloc"} /\ Head(x) \in Ops
          /\ Head(x).op = "store" =>
                Head(x).addr >= c.function /\ Head(x).addr + Head(x).size <= c.function + c.size
        BY <1>1, <1>4, CalmIs
    <2>3. Working(Tail(s), c)
        BY <2>1, <2>2 DEF Working
    <2> QED BY <2>1, <2>2, <2>3
<1> QED BY <1>3, <1>4

(* Steps of a call that has gone for new memory.                           *)
LEMMA LeftHead ==
    ASSUME NEW c, IsTrampoline(c), NEW k \in 1..8
    PROVE  /\ Left(c, k) = <<>> => k = 8
           /\ Left(c, k) # <<>> => k \in 1..7 /\ Tail(Left(c, k)) = Left(c, k + 1)
           /\ k = 8 => Left(c, k) = <<>>
           /\ k \in {1, 5} => Head(Left(c, k)).op = "protect"
           /\ k \in {3, 7} => Head(Left(c, k)).op = "restore"
           /\ k = 4 => Head(Left(c, k)) = Op("memcpy", 0, BackOperand(c), c.kind)
           /\ k = 2 => Head(Left(c, k)) = Op("store", c.original, c.size, "stolen")
           /\ k = 6 => Head(Left(c, k)) = Op("store", c.original + c.size, JUMP_HOOK_SIZE, c.kind)
<1>1. k = 8 => Left(c, k) = <<>>
    BY LeftIs
<1>2. k # 8 => k \in 0..7 /\ k \in 1..7
    OBVIOUS
<1>3. k # 8 => /\ Left(c, k) # <<>> /\ Tail(Left(c, k)) = Left(c, k + 1)
               /\ Head(Left(c, k)) = After(c)[k + 1]
    BY <1>2, LeftIs
<1>4. \A addr, size, arg, op : Op(op, addr, size, arg).op = op
    BY DEF Op
<1>5. k \in {1, 5} => Head(Left(c, k)).op = "protect"
    <2>1. k \in {1, 5} => k # 8 /\ k + 1 \in {2, 6}
        OBVIOUS
    <2>2. After(c)[2].op = "protect" /\ After(c)[6].op = "protect"
        <3>1. \E addr, size, arg : After(c)[2] = Op("protect", addr, size, arg)
            BY AfterIs, Zenon
        <3>2. \E addr, size, arg : After(c)[6] = Op("protect", addr, size, arg)
            BY AfterIs, Zenon
        <3>3. After(c)[2].op = "protect"
            BY <1>4, <3>1
        <3>4. After(c)[6].op = "protect"
            BY <1>4, <3>2
        <3> QED BY <3>3, <3>4
    <2> QED BY <1>3, <2>1, <2>2
<1>6. k \in {3, 7} => Head(Left(c, k)).op = "restore"
    <2>1. k \in {3, 7} => k # 8 /\ k + 1 \in {4, 8}
        OBVIOUS
    <2>2. After(c)[4].op = "restore" /\ After(c)[8].op = "restore"
        <3>1. \E addr, size, arg : After(c)[4] = Op("restore", addr, size, arg)
            BY AfterIs, Zenon
        <3>2. \E addr, size, arg : After(c)[8] = Op("restore", addr, size, arg)
            BY AfterIs, Zenon
        <3>3. After(c)[4].op = "restore"
            BY <1>4, <3>1
        <3>4. After(c)[8].op = "restore"
            BY <1>4, <3>2
        <3> QED BY <3>3, <3>4
    <2> QED BY <1>3, <2>1, <2>2
<1>7. k = 4 => Head(Left(c, k)) = Op("memcpy", 0, BackOperand(c), c.kind)
    <2>1. k = 4 => k # 8 /\ k + 1 = 5
        OBVIOUS
    <2> QED BY <1>3, <2>1, AfterIs
<1>8. k = 2 => Head(Left(c, k)) = Op("store", c.original, c.size, "stolen")
    <2>1. k = 2 => k # 8 /\ k + 1 = 3
        OBVIOUS
    <2> QED BY <1>3, <2>1, AfterIs
<1>9. k = 6 => Head(Left(c, k)) = Op("store", c.original + c.size, JUMP_HOOK_SIZE, c.kind)
    <2>1. k = 6 => k # 8 /\ k + 1 = 7
        OBVIOUS
    <2> QED BY <1>3, <2>1, AfterIs
<1> QED BY <1>1, <1>2, <1>3, <1>5, <1>6, <1>7, <1>8, <1>9

LEMMA HeadOnItsWay ==
    ASSUME NEW c, IsTrampoline(c), NEW s, s # <<>>, NEW st, NEW mem, NEW opr, NEW buf,
           OnItsWay(s, c, st, mem, opr, buf)
    PROVE  /\ Head(s).op = "read" =>
                 c.original # 0 /\ Head(s) = Op("read", c.function, c.size, "") /\ Working(Tail(s), c)
           /\ Head(s).op = "alloc" => c.original # 0 /\ Tail(s) = Left(c, 1)
           /\ Head(s).op = "store" =>
                 \/ /\ Head(s).addr >= c.function /\ Head(s).addr + Head(s).size <= c.function + c.size
                    /\ IF c.original = 0 THEN Calm(s, c) /\ Calm(Tail(s), c)
                                         ELSE Working(s, c) /\ Working(Tail(s), c)
                 \/ c.original # 0 /\ Moving(2, s, c, st, mem, opr, buf)
                 \/ c.original # 0 /\ Moving(6, s, c, st, mem, opr, buf)
<1>1. CASE c.original = 0
    <2>1. Calm(s, c)
        BY <1>1 DEF OnItsWay
    <2> QED BY <1>1, <2>1, CalmIs
<1>2. CASE c.original # 0 /\ Waiting(s, c)
    BY <1>2, WaitingIs
<1>3. CASE c.original # 0 /\ Working(s, c)
    BY <1>3, WorkingIs
<1>4. ASSUME c.original # 0, NEW k \in 1..8, Moving(k, s, c, st, mem, opr, buf)
      PROVE  /\ Head(s).op \notin {"read", "alloc"}
             /\ Head(s).op = "store" => k = 2 \/ k = 6
    <2>1. s = Left(c, k)
        BY <1>4 DEF Moving
    <2>2. k \in 1..7
        BY <2>1, LeftHead
    <2>3. k \in {1, 5} \/ k \in {3, 7} \/ k = 4 \/ k = 2 \/ k = 6
        BY <2>2
    <2>4. \A addr, size, arg, op : Op(op, addr, size, arg).op = op
        BY DEF Op
    <2>5. k \in {1, 5} => Head(s).op = "protect"
        BY <2>1, LeftHead
    <2>6. k \in {3, 7} => Head(s).op = "restore"
        BY <2>1, LeftHead
    <2>7. k = 4 => Head(s).op = "memcpy"
        BY SMTT(30), <2>1, <2>4, LeftHead
    <2>8. k = 2 => Head(s).op = "store"
        BY SMTT(30), <2>1, <2>4, LeftHead
    <2>9. k = 6 => Head(s).op = "store"
        BY SMTT(30), <2>1, <2>4, LeftHead
    <2> QED BY <2>3, <2>5, <2>6, <2>7, <2>8, <2>9
<1>5. \/ c.original = 0
      \/ c.original # 0 /\ (Waiting(s, c) \/ Working(s, c) \/ \E k \in 1..8 : Moving(k, s, c, st, mem, opr, buf))
    BY DEF OnItsWay
<1> QED BY <1>1, <1>2, <1>3, <1>4, <1>5

(* A step that writes no memory.                                           *)
LEMMA StepOnItsWay ==
    ASSUME NEW c, IsTrampoline(c), NEW s, s # <<>>, NEW mem, NEW opr, NEW buf, NEW opr2,
           OnItsWay(s, c, 0, mem, opr, buf), Head(s).op \in {"protect", "restore", "memcpy"},
           IF Head(s).op = "memcpy" THEN opr2[Head(s).arg] = Head(s).size ELSE opr2 = opr
    PROVE  OnItsWay(Tail(s), c, 0, mem, opr2, buf)
<1>1. CASE c.original = 0
    <2>1. Calm(Tail(s), c)
        BY <1>1, CalmIs DEF OnItsWay
    <2> QED BY <1>1, <2>1 DEF OnItsWay
<1>2. CASE c.original # 0 /\ Waiting(s, c)
    BY <1>2, WaitingIs
<1>3. CASE c.original # 0 /\ Working(s, c)
    <2>1. Working(Tail(s), c)
        BY <1>3, WorkingIs
    <2> QED BY <1>3, <2>1 DEF OnItsWay
<1>4. ASSUME c.original # 0, NEW k \in 1..8, Moving(k, s, c, 0, mem, opr, buf)
      PROVE  OnItsWay(Tail(s), c, 0, mem, opr2, buf)
    <2>1. /\ s = Left(c, k) /\ Copied(mem, c, buf, CopiedAt(k, c, 0))
          /\ BackWritten(mem, c, WrittenAt(k, 0)) /\ (k \in {5, 6} => opr[c.kind] = BackOperand(c))
        BY <1>4 DEF Moving
    <2>2. k \in 1..7 /\ Tail(s) = Left(c, k + 1)
        BY <2>1, LeftHead
    <2>3. /\ \A addr, size, arg, op : Op(op, addr, size, arg).op = op
          /\ \A addr, size, arg, op : Op(op, addr, size, arg).arg = arg /\ Op(op, addr, size, arg).size = size
        BY DEF Op
    <2>4. k # 2 /\ k # 6
        BY SMTT(30), <2>1, <2>3, LeftHead
    <2>5. Copied(mem, c, buf, CopiedAt(k + 1, c, 0))
        <3>1. CASE k = 1
            <4>1. CopiedAt(k + 1, c, 0) = 0
                BY <3>1 DEF CopiedAt
            <4> QED BY <4>1 DEF Copied
        <3>2. CASE k \in 3..7
            <4>1. CopiedAt(k + 1, c, 0) = CopiedAt(k, c, 0)
                BY <3>2 DEF CopiedAt
            <4> QED BY <2>1, <4>1
        <3>3. k = 1 \/ k \in 3..7
            BY <2>2, <2>4
        <3> QED BY <3>1, <3>2, <3>3
    <2>6. BackWritten(mem, c, WrittenAt(k + 1, 0))
        <3>1. CASE k \in 1..5
            <4>1. WrittenAt(k + 1, 0) = 0
                BY <3>1 DEF WrittenAt
            <4> QED BY <4>1 DEF BackWritten
        <3>2. CASE k = 7
            <4>1. WrittenAt(k + 1, 0) = WrittenAt(k, 0)
                BY <3>2 DEF WrittenAt
            <4> QED BY <2>1, <4>1
        <3>3. k \in 1..5 \/ k = 7
            BY <2>2, <2>4
        <3> QED BY <3>1, <3>2, <3>3
    <2>7. ASSUME k + 1 \in {5, 6} PROVE opr2[c.kind] = BackOperand(c)
        <3>1. CASE k = 4
            <4>1. Head(s).op = "memcpy" /\ Head(s).arg = c.kind /\ Head(s).size = BackOperand(c)
                BY SMTT(30), <2>1, <2>3, <3>1, LeftHead
            <4> QED BY <4>1
        <3>2. CASE k = 5
            <4>1. Head(s).op = "protect"
                BY <2>1, <3>2, LeftHead
            <4> QED BY <2>1, <3>2, <4>1
        <3>3. k = 4 \/ k = 5
            BY <2>7
        <3> QED BY <3>1, <3>2, <3>3
    <2>8. k + 1 \in 1..8 /\ Moving(k + 1, Tail(s), c, 0, mem, opr2, buf)
        BY <2>2, <2>5, <2>6, <2>7 DEF Moving
    <2> QED BY <1>4, <2>8 DEF OnItsWay
<1>5. \/ c.original = 0
      \/ c.original # 0 /\ (Waiting(s, c) \/ Working(s, c) \/ \E k \in 1..8 : Moving(k, s, c, 0, mem, opr, buf))
    BY DEF OnItsWay
<1> QED BY <1>1, <1>2, <1>3, <1>4, <1>5

LEMMA AllocOnItsWay ==
    ASSUME NEW c, NEW mem, NEW opr, NEW buf, c.original # 0
    PROVE  OnItsWay(Left(c, 1), c, 0, mem, opr, buf)
<1>1. CopiedAt(1, c, 0) = 0 /\ WrittenAt(1, 0) = 0
    BY DEF CopiedAt, WrittenAt
<1>2. Copied(mem, c, buf, 0) /\ BackWritten(mem, c, 0)
    BY DEF Copied, BackWritten
<1>3. Moving(1, Left(c, 1), c, 0, mem, opr, buf)
    BY <1>1, <1>2 DEF Moving
<1>4. 1 \in 1..8
    OBVIOUS
<1> QED BY <1>3, <1>4 DEF OnItsWay

(* What others write does not disturb it.                                  *)
OriginOf(c) == IF c.original = 0 THEN {} ELSE c.original..((c.original + c.size) + 1)

LEMMA CopyStays ==
    ASSUME NEW c, c.size \in Nat, c.original \in Int, c.original # 0, NEW mem, NEW mem2,
           \A a \in OriginOf(c) : mem2[a] = mem[a]
    PROVE  /\ \A buf, n : Copied(mem, c, buf, n) /\ n \in Int /\ n <= c.size => Copied(mem2, c, buf, n)
           /\ \A n : BackWritten(mem, c, n) => BackWritten(mem2, c, n)
<1>1. \A i \in 1..c.size : c.original + (i - 1) \in OriginOf(c)
    BY DEF OriginOf
<1>2. c.original + c.size \in OriginOf(c) /\ (c.original + c.size) + 1 \in OriginOf(c)
    BY DEF OriginOf
<1>3. ASSUME NEW buf, NEW n, Copied(mem, c, buf, n), n \in Int, n <= c.size PROVE Copied(mem2, c, buf, n)
    <2>1. \A i \in 1..n : i \in 1..c.size
        BY <1>3
    <2>2. \A i \in 1..n : mem2[c.original + (i - 1)] = mem[c.original + (i - 1)]
        BY <1>1, <2>1
    <2> QED BY <1>3, <2>2 DEF Copied
<1>4. ASSUME NEW n, BackWritten(mem, c, n) PROVE BackWritten(mem2, c, n)
    BY <1>2, <1>4 DEF BackWritten
<1> QED BY <1>3, <1>4

LEMMA OnItsWayStays ==
    ASSUME NEW c, IsTrampoline(c), NEW s, NEW st \in Nat, NEW mem, NEW opr, NEW buf, NEW mem2, NEW opr2,
           OnItsWay(s, c, st, mem, opr, buf), s # <<>> /\ Head(s).op = "store" => st <= Head(s).size,
           \A a \in OriginOf(c) : mem2[a] = mem[a],
           opr2[c.kind] = opr[c.kind] \/ (s # Left(c, 5) /\ s # Left(c, 6))
    PROVE  OnItsWay(s, c, st, mem2, opr2, buf)
<1>1. ASSUME c.original # 0, NEW k \in 1..8, Moving(k, s, c, st, mem, opr, buf)
      PROVE  Moving(k, s, c, st, mem2, opr2, buf)
    <2>1. /\ s = Left(c, k) /\ Copied(mem, c, buf, CopiedAt(k, c, st))
          /\ BackWritten(mem, c, WrittenAt(k, st)) /\ (k \in {5, 6} => opr[c.kind] = BackOperand(c))
        BY <1>1 DEF Moving
    <2>2. c.size \in Nat /\ c.original \in Int
        BY TrampolineTypes
    <2>3. CopiedAt(k, c, st) \in Int /\ CopiedAt(k, c, st) <= c.size
        <3>1. CASE k = 2
            <4>1. s # <<>> /\ Head(s) = Op("store", c.original, c.size, "stolen")
                BY <2>1, <3>1, LeftHead
            <4>2. st <= c.size
                BY <4>1 DEF Op
            <4> QED BY <2>2, <3>1, <4>2 DEF CopiedAt
        <3>2. CASE k # 2
            <4>1. CopiedAt(k, c, st) = c.size \/ CopiedAt(k, c, st) = 0
                BY <3>2 DEF CopiedAt
            <4> QED BY <2>2, <4>1
        <3> QED BY <3>1, <3>2
    <2>4. Copied(mem2, c, buf, CopiedAt(k, c, st)) /\ BackWritten(mem2, c, WrittenAt(k, st))
        BY <1>1, <2>1, <2>2, <2>3, CopyStays
    <2>5. k \in {5, 6} => opr2[c.kind] = BackOperand(c)
        BY <2>1
    <2> QED BY <2>1, <2>4, <2>5 DEF Moving
<1> QED BY <1>1 DEF OnItsWay

(* Each call writes the function, and memory of its own.                   *)
LEMMA MonotoneProduct ==
    ASSUME NEW i \in Nat, NEW j \in Nat, i <= j, NEW q \in Nat
    PROVE  i * q \in Nat /\ j * q \in Nat /\ i * q <= j * q
<1> DEFINE d == j - i
<1>1. d \in Nat /\ j = i + d
    OBVIOUS
<1> HIDE DEF d
<1>2. d * q \in Nat /\ i * q \in Nat
    BY <1>1
<1>3. (i + d) * q = i * q + d * q
    BY <1>1
<1>4. j * q = i * q + d * q
    BY <1>1, <1>3
<1> QED BY <1>2, <1>4

LEMMA Rooms ==
    ASSUME NEW n \in 1..MaxCalls, NEW size \in Sizes, size >= JUMP_HOOK_SIZE
    PROVE  /\ Allocated(n) \in Nat /\ Allocated(n) > CodeSize /\ (Allocated(n) + size) + 1 <= Cells
           /\ \A m \in 1..MaxCalls : n < m => (Allocated(n) + size) + 1 < Allocated(m)
<1> DEFINE room == Cells - CodeSize
           q == room \div MaxCalls
<1>1. room \in Nat /\ MaxCalls \in Nat /\ MaxCalls > 0 /\ size \in Nat /\ CodeSize \in Nat /\ Cells = CodeSize + room
      /\ n \in Nat /\ n - 1 \in Nat
    BY MemoryAssumption, HookAssumption
<1>2. size + 2 <= q
    BY <1>1, AllocationsFit DEF JUMP_HOOK_SIZE
<1>3. \A m : Allocated(m) = CodeSize + 1 + (m - 1) * q
    BY DEF Allocated, room
<1> HIDE DEF room
<1>4. q \in Nat /\ MaxCalls * q <= room
    <2>1. q \in Int /\ q >= 0
        BY <1>1
    <2>2. MaxCalls * (room \div MaxCalls) <= room
        BY <1>1
    <2> QED BY <2>1, <2>2
<1> HIDE DEF q
<1>5. (n - 1) * q \in Nat /\ n * q = (n - 1) * q + q
    <2> DEFINE k == n - 1
    <2>1. k \in Nat /\ n = k + 1
        BY <1>1
    <2> HIDE DEF k
    <2>2. (k + 1) * q = k * q + q /\ k * q \in Nat
        BY <1>4, <2>1
    <2> QED BY <2>1, <2>2 DEF k
<1>6. Allocated(n) = (CodeSize + 1) + (n - 1) * q
    BY <1>1, <1>3, <1>5
<1> DEFINE x == (n - 1) * q
<1> HIDE DEF x
<1>7. x \in Nat /\ n * q = x + q /\ Allocated(n) = (CodeSize + 1) + x
    BY <1>5, <1>6 DEF x
<1>8. x + q <= room
    <2>1. n * q <= MaxCalls * q
        BY <1>1, <1>4, MonotoneProduct
    <2>2. MaxCalls * q \in Nat /\ n * q \in Nat
        BY <1>1, <1>4, MonotoneProduct
    <2> QED BY <1>1, <1>4, <1>7, <2>1, <2>2
<1>9. Allocated(n) \in Nat /\ Allocated(n) > CodeSize /\ (Allocated(n) + size) + 1 <= Cells
    BY <1>1, <1>2, <1>4, <1>7, <1>8
<1>10. ASSUME NEW m \in 1..MaxCalls, n < m PROVE (Allocated(n) + size) + 1 < Allocated(m)
    <2> DEFINE y == (m - 1) * q
    <2>1. m - 1 \in Nat /\ n <= m - 1
        BY <1>1, <1>10
    <2>2. n * q <= (m - 1) * q /\ (m - 1) * q \in Nat
        BY <1>1, <1>4, <2>1, MonotoneProduct
    <2>3. y \in Nat /\ x + q <= y
        BY <1>7, <2>2
    <2>4. Allocated(m) = CodeSize + 1 + y
        BY <1>3
    <2> HIDE DEF y
    <2> QED BY <1>1, <1>2, <1>4, <1>7, <2>3, <2>4
<1> QED BY <1>9, <1>10

LEMMA OriginFits ==
    ASSUME CountInv, NEW c, c.size \in Sizes, c.size >= JUMP_HOOK_SIZE, IsGiven(c, calls), c.original # 0
    PROVE  /\ c.original \in Nat /\ c.original > CodeSize /\ (c.original + c.size) + 1 <= Cells
           /\ c.original >= 1
<1>1. PICK n \in 1..calls : c.original = Allocated(n)
    BY DEF IsGiven
<1>2. n \in 1..MaxCalls
    BY HookAssumption DEF CountInv
<1>3. c.original \in Nat /\ c.original > CodeSize /\ (c.original + c.size) + 1 <= Cells
    BY <1>1, <1>2, Rooms
<1> QED BY <1>3, MemoryAssumption

LEMMA OriginsApart ==
    ASSUME CountInv, NEW c, c.size \in Sizes, c.size >= JUMP_HOOK_SIZE, IsGiven(c, calls),
           NEW d, d.size \in Sizes, d.size >= JUMP_HOOK_SIZE, IsGiven(d, calls),
           c.original # d.original
    PROVE  OriginOf(c) \cap OriginOf(d) = {}
<1>1. CASE c.original = 0 \/ d.original = 0
    BY <1>1 DEF OriginOf
<1>2. CASE c.original # 0 /\ d.original # 0
    <2>1. PICK n \in 1..calls : c.original = Allocated(n)
        BY <1>2 DEF IsGiven
    <2>2. PICK m \in 1..calls : d.original = Allocated(m)
        BY <1>2 DEF IsGiven
    <2>3. n \in 1..MaxCalls /\ m \in 1..MaxCalls /\ n # m
        BY <2>1, <2>2, HookAssumption DEF CountInv
    <2>4. c.original \in Nat /\ (n < m => (c.original + c.size) + 1 < d.original)
        BY <2>1, <2>2, <2>3, Rooms
    <2>5. d.original \in Nat /\ (m < n => (d.original + d.size) + 1 < c.original)
        BY <2>1, <2>2, <2>3, Rooms
    <2>6. n < m \/ m < n
        BY <2>3
    <2>7. c.size \in Nat /\ d.size \in Nat
        BY HookAssumption
    <2> QED BY <1>2, <2>4, <2>5, <2>6, <2>7 DEF OriginOf
<1> QED BY <1>1, <1>2

(* The cells a call may write.                                             *)
CellsOf(c) == CodeOf(c) \cup OriginOf(c)

LEMMA FunctionsFit ==
    ASSUME NEW f \in Functions, NEW n \in Sizes
    PROVE  /\ f \in Nat /\ f # 0 /\ n \in Nat /\ CodeSize \in Nat /\ Cells \in Nat /\ CodeSize <= Cells
           /\ (f + n) - 1 <= CodeSize
           /\ \A g \in Functions : f < g => f + n <= g
<1>1. f \in Nat /\ f # 0 /\ n \in Nat /\ CodeSize \in Nat /\ Cells \in Nat /\ CodeSize <= Cells
    BY HookAssumption, MemoryAssumption
<1>2. f + n - 1 <= CodeSize /\ \A g \in Functions : f < g => f + n <= g
    BY FunctionsAreApart
<1>3. (f + n) - 1 <= CodeSize
    BY <1>1, <1>2
<1> QED BY <1>1, <1>2, <1>3

LEMMA CodeIsThere ==
    ASSUME NEW c, c.function \in Functions, c.size \in Sizes, c.size >= JUMP_HOOK_SIZE
    PROVE  /\ CodeOf(c) \subseteq 1..CodeSize /\ CodeSize <= Cells
           /\ \A g \in Functions : g # c.function => g \notin CodeOf(c) /\ g + 1 \notin CodeOf(c)
           /\ \A g \in Functions : g \in 1..CodeSize /\ g + 1 \in 1..CodeSize
<1> DEFINE f == c.function
           n == c.size
<1>a. f \in Functions /\ n \in Sizes /\ n >= 2
    BY DEF JUMP_HOOK_SIZE
<1>b. CodeOf(c) = f..(f + n - 1)
    BY DEF CodeOf
<1> HIDE DEF f, n
<1>1. f \in Nat /\ f # 0 /\ n \in Nat /\ n >= 2 /\ CodeSize \in Nat /\ Cells \in Nat /\ CodeSize <= Cells
      /\ (f + n) - 1 <= CodeSize
    BY <1>a, FunctionsFit
<1>2. ASSUME NEW g \in Functions
      PROVE  g \in Nat /\ g # 0 /\ (g + n) - 1 <= CodeSize /\ (f < g => f + n <= g) /\ (g < f => g + n <= f)
    BY <1>a, FunctionsFit
<1>3. CodeOf(c) = f..((f + n) - 1)
    BY <1>1, <1>b
<1>4. CodeOf(c) \subseteq 1..CodeSize
    BY <1>1, <1>3
<1>5. ASSUME NEW g \in Functions, g # f PROVE g \notin CodeOf(c) /\ g + 1 \notin CodeOf(c)
    BY <1>1, <1>2, <1>3, <1>5
<1>6. ASSUME NEW g \in Functions PROVE g \in 1..CodeSize /\ g + 1 \in 1..CodeSize
    BY <1>1, <1>2
<1> QED BY <1>1, <1>4, <1>5, <1>6 DEF f

LEMMA OriginIsThere ==
    ASSUME CountInv, NEW c, c.size \in Sizes, c.size >= JUMP_HOOK_SIZE, IsGiven(c, calls)
    PROVE  OriginOf(c) \subseteq 1..Cells /\ OriginOf(c) \cap 1..CodeSize = {}
<1>1. CASE c.original = 0
    BY <1>1 DEF OriginOf
<1>2. CASE c.original # 0
    <2>1. c.original \in Nat /\ c.original > CodeSize /\ (c.original + c.size) + 1 <= Cells /\ c.size \in Nat
          /\ CodeSize \in Nat
        BY <1>2, OriginFits, HookAssumption, MemoryAssumption
    <2> QED BY <1>2, <2>1, MemoryAssumption DEF OriginOf
<1> QED BY <1>1, <1>2

(* A store of a call: from the cell after the first st on, up to the mth.  *)
Stores(mem, mem2, addr, st, m, bytes) ==
    /\ \A i \in (st + 1)..m : addr + (i - 1) \in 1..Cells => mem2[addr + (i - 1)] = bytes[i]
    /\ \A a \in 1..Cells : a < addr + st \/ a > addr + (m - 1) => mem2[a] = mem[a]

LEMMA CopyIsStored ==
    ASSUME NEW c, IsTrampoline(c), c.original # 0, OriginOf(c) \subseteq 1..Cells,
           NEW st \in Nat, NEW m \in Nat, st < m, m <= c.size, NEW mem, NEW mem2, NEW buf,
           Stores(mem, mem2, c.original, st, m, buf), Copied(mem, c, buf, st)
    PROVE  Copied(mem2, c, buf, m)
<1> DEFINE o == c.original
           n == c.size
<1>1. n \in Nat /\ o \in Int /\ o # 0
    BY TrampolineTypes
<1>2. OriginOf(c) = o..((o + n) + 1)
    BY DEF OriginOf
<1>3. /\ \A i \in (st + 1)..m : o + (i - 1) \in 1..Cells => mem2[o + (i - 1)] = buf[i]
      /\ \A a \in 1..Cells : a < o + st \/ a > o + (m - 1) => mem2[a] = mem[a]
    BY DEF Stores
<1>4. \A i \in 1..st : mem[o + (i - 1)] = buf[i]
    BY DEF Copied
<1>5. Copied(mem2, c, buf, m) <=> \A i \in 1..m : mem2[o + (i - 1)] = buf[i]
    BY DEF Copied
<1>6. m <= n
    OBVIOUS
<1> HIDE DEF o, n
<1>7. ASSUME NEW i \in 1..m PROVE mem2[o + (i - 1)] = buf[i]
    <2>1. CASE i <= st
        <3> DEFINE a == o + (i - 1)
        <3>1. i \in 1..st /\ a \in o..((o + n) + 1) /\ a < o + st
            BY <1>1, <1>6, <2>1
        <3>2. a \in 1..Cells
            BY <1>2, <3>1
        <3>3. mem2[a] = mem[a]
            BY <1>3, <3>1, <3>2
        <3>4. mem[a] = buf[i]
            BY <1>4, <3>1
        <3> QED BY <3>3, <3>4
    <2>2. CASE ~ (i <= st)
        <3>1. i \in (st + 1)..m /\ o + (i - 1) \in o..((o + n) + 1)
            BY <1>1, <1>6, <2>2
        <3>2. o + (i - 1) \in 1..Cells
            BY <1>2, <3>1
        <3> QED BY <1>3, <3>1, <3>2
    <2> QED BY <2>1, <2>2
<1> QED BY <1>5, <1>7

LEMMA JumpBackIsStored ==
    ASSUME NEW c, IsTrampoline(c), c.original # 0, OriginOf(c) \subseteq 1..Cells,
           NEW st \in Nat, NEW m \in Nat, st < m, m <= JUMP_HOOK_SIZE, NEW mem, NEW mem2, NEW buf, NEW bytes,
           bytes = << <<c.kind, 0>>, <<"operand", BackOperand(c)>> >>,
           Stores(mem, mem2, c.original + c.size, st, m, bytes),
           Copied(mem, c, buf, c.size), BackWritten(mem, c, st)
    PROVE  Copied(mem2, c, buf, c.size) /\ BackWritten(mem2, c, m)
<1> DEFINE o == c.original
           n == c.size
<1>1. n \in Nat /\ o \in Int /\ o # 0
    BY TrampolineTypes
<1>2. OriginOf(c) = o..((o + n) + 1)
    BY DEF OriginOf
<1>3. /\ \A i \in (st + 1)..m : (o + n) + (i - 1) \in 1..Cells => mem2[(o + n) + (i - 1)] = bytes[i]
      /\ \A a \in 1..Cells : a < (o + n) + st \/ a > (o + n) + (m - 1) => mem2[a] = mem[a]
    BY DEF Stores
<1>4. \A i \in 1..n : mem[o + (i - 1)] = buf[i]
    BY DEF Copied
<1>5. Copied(mem2, c, buf, c.size) <=> \A i \in 1..n : mem2[o + (i - 1)] = buf[i]
    BY DEF Copied
<1>6. /\ st >= 1 => mem[o + n] = <<c.kind, 0>>
      /\ BackWritten(mem2, c, m) <=>
            /\ m >= 1 => mem2[o + n] = <<c.kind, 0>>
            /\ m >= 2 => mem2[(o + n) + 1] = <<"operand", BackOperand(c)>>
    BY DEF BackWritten
<1>7. m <= 2 /\ bytes[1] = <<c.kind, 0>> /\ bytes[2] = <<"operand", BackOperand(c)>>
    BY DEF JUMP_HOOK_SIZE
<1> HIDE DEF o, n
<1>8. ASSUME NEW i \in 1..n PROVE mem2[o + (i - 1)] = buf[i]
    <2> DEFINE a == o + (i - 1)
    <2>1. a \in o..((o + n) + 1) /\ a < (o + n) + st
        BY <1>1
    <2>2. a \in 1..Cells
        BY <1>2, <2>1
    <2>3. mem2[a] = mem[a]
        BY <1>3, <2>1, <2>2
    <2>4. mem[a] = buf[i]
        BY <1>4
    <2> QED BY <2>3, <2>4
<1>9. mem2[o + n] = <<c.kind, 0>>
    <2>1. CASE st = 0
        <3>1. 1 \in (st + 1)..m /\ (o + n) + (1 - 1) = o + n /\ o + n \in o..((o + n) + 1)
            BY <1>1, <2>1
        <3>2. mem2[(o + n) + (1 - 1)] = bytes[1]
            BY <1>2, <1>3, <3>1
        <3> QED BY <1>7, <3>1, <3>2
    <2>2. CASE st # 0
        <3> DEFINE a == o + n
        <3>1. st >= 1 /\ a \in o..((o + n) + 1) /\ a < (o + n) + st
            BY <1>1, <2>2
        <3>2. a \in 1..Cells
            BY <1>2, <3>1
        <3> QED BY <1>3, <1>6, <3>1, <3>2
    <2> QED BY <2>1, <2>2
<1>10. ASSUME m >= 2 PROVE mem2[(o + n) + 1] = <<"operand", BackOperand(c)>>
    <2>1. m = 2 /\ 2 \in (st + 1)..m /\ (o + n) + (2 - 1) = (o + n) + 1 /\ (o + n) + 1 \in o..((o + n) + 1)
        BY <1>1, <1>7, <1>10
    <2>2. mem2[(o + n) + (2 - 1)] = bytes[2]
        BY <1>2, <1>3, <2>1
    <2> QED BY <1>7, <2>1, <2>2
<1> QED BY <1>5, <1>6, <1>8, <1>9, <1>10

LEMMA StoreOnItsWay ==
    ASSUME NEW c, IsTrampoline(c), OriginOf(c) \subseteq 1..Cells, NEW s, s # <<>>, Head(s).op = "store",
           NEW st \in Nat, NEW m \in Nat, st < m, m <= Head(s).size, NEW mem, NEW mem2, NEW opr, NEW buf,
           OnItsWay(s, c, st, mem, opr, buf), NEW bytes, Stores(mem, mem2, Head(s).addr, st, m, bytes),
           Head(s).arg = "stolen" => bytes = buf,
           Head(s).arg = c.kind => bytes = << <<c.kind, 0>>, <<"operand", opr[c.kind]>> >>
    PROVE  /\ OnItsWay(IF m = Head(s).size THEN Tail(s) ELSE s, c,
                       IF m = Head(s).size THEN 0 ELSE m, mem2, opr, buf)
           /\ Head(s).addr..(Head(s).addr + Head(s).size - 1) \subseteq CellsOf(c)
<1> DEFINE op == Head(s)
           prog == IF m = op.size THEN Tail(s) ELSE s
           new == IF m = op.size THEN 0 ELSE m
           range == op.addr..(op.addr + op.size - 1)
           f == c.function
           n == c.size
           o == c.original
<1>0. f \in Nat /\ n \in Nat /\ o \in Int
    BY TrampolineTypes
<1>1. CASE /\ op.addr >= f /\ op.addr + op.size <= f + n
           /\ IF c.original = 0 THEN Calm(s, c) /\ Calm(Tail(s), c)
                                ELSE Working(s, c) /\ Working(Tail(s), c)
    <2>1. range \subseteq CellsOf(c)
        <3> SUFFICES ASSUME NEW a \in range PROVE a \in f..(f + n - 1)
            BY DEF CellsOf, CodeOf
        <3>1. op.addr \in Int /\ op.size \in Int
            <4>1. op \in Ops
                <5>1. CASE c.original = 0
                    BY <1>1, <5>1, CalmIs
                <5>2. CASE c.original # 0
                    BY <1>1, <5>2, WorkingIs
                <5> QED BY <5>1, <5>2
            <4> QED BY <4>1 DEF Ops
        <3> HIDE DEF f, n
        <3> QED BY <1>0, <1>1, <3>1
    <2>2. OnItsWay(prog, c, new, mem2, opr, buf)
        BY <1>1 DEF OnItsWay
    <2> QED BY <2>1, <2>2
<1>2. CASE c.original # 0 /\ Moving(2, s, c, st, mem, opr, buf)
    <2>1. s = Left(c, 2) /\ Copied(mem, c, buf, st)
        BY <1>2 DEF Moving, CopiedAt
    <2>2. op = Op("store", c.original, c.size, "stolen") /\ Tail(s) = Left(c, 3)
        <3>1. Left(c, 2) # <<>> /\ 2 \in 1..8 /\ 2 + 1 = 3
            BY <2>1
        <3> QED BY <2>1, <3>1, LeftHead
    <2>3. op.addr = o /\ op.size = n /\ bytes = buf
        BY <2>2 DEF Op
    <2>4. Copied(mem2, c, buf, m)
        BY <1>2, <2>1, <2>3, CopyIsStored
    <2>5. BackWritten(mem2, c, 0)
        BY DEF BackWritten
    <2>6. Moving(2, s, c, m, mem2, opr, buf)
        <3>1. CopiedAt(2, c, m) = m /\ WrittenAt(2, m) = 0
            BY DEF CopiedAt, WrittenAt
        <3> QED BY <2>1, <2>4, <2>5, <3>1 DEF Moving
    <2>7. m = op.size => Moving(3, Tail(s), c, 0, mem2, opr, buf)
        <3>1. CopiedAt(3, c, 0) = c.size /\ WrittenAt(3, 0) = 0
            BY DEF CopiedAt, WrittenAt
        <3> QED BY <2>2, <2>3, <2>4, <2>5, <3>1 DEF Moving
    <2>8. OnItsWay(prog, c, new, mem2, opr, buf)
        <3>1. 2 \in 1..8 /\ 3 \in 1..8
            OBVIOUS
        <3> QED BY <1>2, <2>6, <2>7, <3>1 DEF OnItsWay
    <2>9. range \subseteq CellsOf(c)
        <3>1. range = o..(o + n - 1) /\ OriginOf(c) = o..((o + n) + 1)
            BY <1>2, <2>3 DEF OriginOf
        <3> HIDE DEF range, o, n
        <3> QED BY <1>0, <3>1 DEF CellsOf
    <2> QED BY <2>8, <2>9
<1>3. CASE c.original # 0 /\ Moving(6, s, c, st, mem, opr, buf)
    <2>1. s = Left(c, 6) /\ Copied(mem, c, buf, c.size) /\ BackWritten(mem, c, st) /\ opr[c.kind] = BackOperand(c)
        BY <1>3 DEF Moving, CopiedAt, WrittenAt
    <2>2. op = Op("store", c.original + c.size, JUMP_HOOK_SIZE, c.kind) /\ Tail(s) = Left(c, 7)
        <3>1. Left(c, 6) # <<>> /\ 6 \in 1..8 /\ 6 + 1 = 7
            BY <2>1
        <3> QED BY <2>1, <3>1, LeftHead
    <2>3. op.addr = o + n /\ op.size = JUMP_HOOK_SIZE
          /\ bytes = << <<c.kind, 0>>, <<"operand", BackOperand(c)>> >>
        BY <2>1, <2>2 DEF Op
    <2>4. Copied(mem2, c, buf, c.size) /\ BackWritten(mem2, c, m)
        <3>1. m <= JUMP_HOOK_SIZE
            BY <2>3
        <3>2. Stores(mem, mem2, c.original + c.size, st, m, bytes)
            BY <2>3
        <3>3. bytes = << <<c.kind, 0>>, <<"operand", BackOperand(c)>> >> /\ c.original # 0
            BY <1>3, <2>3
        <3> HIDE DEF op, prog, new, range
        <3> QED BY <2>1, <3>1, <3>2, <3>3, JumpBackIsStored
    <2>5. Moving(6, s, c, m, mem2, opr, buf)
        <3>1. CopiedAt(6, c, m) = c.size /\ WrittenAt(6, m) = m
            BY DEF CopiedAt, WrittenAt
        <3> QED BY <2>1, <2>4, <3>1 DEF Moving
    <2>6. m = op.size => Moving(7, Tail(s), c, 0, mem2, opr, buf)
        <3>1. CopiedAt(7, c, 0) = c.size /\ WrittenAt(7, 0) = JUMP_HOOK_SIZE
            BY DEF CopiedAt, WrittenAt
        <3> QED BY <2>2, <2>3, <2>4, <3>1 DEF Moving
    <2>7. OnItsWay(prog, c, new, mem2, opr, buf)
        <3>1. 6 \in 1..8 /\ 7 \in 1..8
            OBVIOUS
        <3> QED BY <1>3, <2>5, <2>6, <3>1 DEF OnItsWay
    <2>8. range \subseteq CellsOf(c)
        <3>1. range = (o + n)..((o + n) + 2 - 1) /\ OriginOf(c) = o..((o + n) + 1)
            BY <1>3, <2>3 DEF OriginOf, JUMP_HOOK_SIZE
        <3> HIDE DEF range, o, n
        <3> QED BY <1>0, <3>1 DEF CellsOf
    <2> QED BY <2>7, <2>8
<1>4. \/ /\ op.addr >= f /\ op.addr + op.size <= f + n
         /\ IF c.original = 0 THEN Calm(s, c) /\ Calm(Tail(s), c)
                              ELSE Working(s, c) /\ Working(Tail(s), c)
      \/ c.original # 0 /\ Moving(2, s, c, st, mem, opr, buf)
      \/ c.original # 0 /\ Moving(6, s, c, st, mem, opr, buf)
    BY HeadOnItsWay
<1> QED BY <1>1, <1>2, <1>3, <1>4

(* The memory of each call stays its own.                                  *)
LEMMA GivenStays ==
    ASSUME NEW n \in Nat, NEW c, IsGiven(c, n)
    PROVE  IsGiven(c, n + 1)
<1>1. \A i \in 1..n : i \in 1..(n + 1)
    OBVIOUS
<1> QED BY <1>1 DEF IsGiven

(* The calls move, and no two of them have the same memory.                *)
LEMMA OwnMoves ==
    ASSUME OwnInv, \A t \in Threads : IsGiven(call'[t], calls'), \A i \in 1..Len(log') : IsGiven(log'[i], calls'),
           \A t \in Threads : call'[t].original # 0 => call'[t].original = call[t].original,
           \A i \in 1..Len(log') : \/ i \in 1..Len(log) /\ log'[i] = log[i]
                                   \/ \E t \in Threads : /\ log'[i].original = call[t].original
                                                         /\ call'[t].original = 0
    PROVE  OwnInv'
<1>1. ASSUME NEW t \in Threads, call'[t].original # 0, NEW u \in Threads \ {t}
      PROVE  call'[u].original # call'[t].original
    <2>1. call'[t].original = call[t].original
        BY <1>1
    <2>2. call[u].original # call[t].original
        BY <1>1, <2>1 DEF OwnInv
    <2>3. call'[u].original # 0 => call'[u].original = call[u].original
        OBVIOUS
    <2> QED BY <1>1, <2>1, <2>2, <2>3
<1>2. ASSUME NEW t \in Threads, call'[t].original # 0, NEW i \in 1..Len(log')
      PROVE  log'[i].original # call'[t].original
    <2>1. call'[t].original = call[t].original
        BY <1>2
    <2>2. CASE i \in 1..Len(log) /\ log'[i] = log[i]
        BY <1>2, <2>1, <2>2 DEF OwnInv
    <2>3. ASSUME NEW u \in Threads, log'[i].original = call[u].original, call'[u].original = 0
          PROVE  log'[i].original # call'[t].original
        <3>1. u # t
            BY <1>2, <2>3
        <3> QED BY <1>2, <2>1, <2>3, <3>1 DEF OwnInv
    <2> QED BY <2>2, <2>3
<1> QED BY <1>1, <1>2 DEF OwnInv

LEMMA OwnInit == HookInit => OwnInv
<1> SUFFICES ASSUME HookInit PROVE OwnInv
    OBVIOUS
<1>1. \A t \in Threads : call[t].original = 0
    BY DEF HookInit, NoCall
<1>2. \A i \in 1..Len(log) : FALSE
    BY EmptySeq DEF HookInit
<1> QED BY <1>1, <1>2 DEF OwnInv, IsGiven

LEMMA CallIsOwn ==
    ASSUME ThreadsInv, CountInv, OwnInv, NEW t \in Threads,
           NEW function \in Functions, NEW size \in Sizes, NEW kind \in Kinds, NEW keep \in BOOLEAN,
           Call(t, function, size, kind, keep)
    PROVE  OwnInv'
<1> DEFINE target == -(calls + 1)
           original == Allocated(calls + 1)
           c == [NoCall EXCEPT !.function = function, !.size = size, !.target = target,
                               !.kind = kind, !.original = IF keep THEN original ELSE 0]
<1>1. /\ call' = [call EXCEPT ![t] = c] /\ log' = log /\ calls' = calls + 1 /\ calls < MaxCalls
      /\ size >= JUMP_HOOK_SIZE
    BY DEF Call
<1>2. calls \in Nat /\ calls + 1 \in 1..MaxCalls
    BY <1>1, HookAssumption DEF CountInv
<1>3. c.original = IF keep THEN original ELSE 0
    BY DEF NoCall
<1> HIDE DEF original, c, target
<1>4. c.original = 0 \/ c.original = original
    BY <1>3
<1>5. call'[t] = c /\ \A u \in Threads : u # t => call'[u] = call[u]
    BY <1>1 DEF ThreadsInv
<1>6. IsGiven(c, calls')
    <2>1. calls + 1 \in 1..(calls + 1)
        BY <1>2
    <2> QED BY <1>1, <1>4, <2>1 DEF IsGiven, original
<1>7. \A d : IsGiven(d, calls) => IsGiven(d, calls')
    BY <1>1, <1>2, GivenStays
<1>8. \A u \in Threads : IsGiven(call'[u], calls')
    BY <1>5, <1>6, <1>7 DEF OwnInv
<1>9. \A i \in 1..Len(log') : IsGiven(log'[i], calls')
    BY <1>1, <1>7 DEF OwnInv
<1>10. ASSUME NEW d, IsGiven(d, calls), c.original # 0 PROVE d.original # c.original
    <2>1. CASE d.original = 0
        BY <1>10, <2>1
    <2>2. CASE d.original # 0
        <3>1. PICK n \in 1..calls : d.original = Allocated(n)
            BY <1>10, <2>2 DEF IsGiven
        <3>2. n \in 1..MaxCalls /\ n < calls + 1 /\ MaxCalls \in Nat
            BY <1>2, HookAssumption
        <3>3. Allocated(n) \in Nat /\ (Allocated(n) + size) + 1 < Allocated(calls + 1) /\ size \in Nat
            BY <1>1, <1>2, <3>2, Rooms, HookAssumption
        <3>4. Allocated(calls + 1) \in Nat
            BY <1>1, <1>2, Rooms
        <3>5. Allocated(n) # Allocated(calls + 1)
            BY <3>3, <3>4
        <3> QED BY <1>4, <1>10, <3>1, <3>5 DEF original
    <2> QED BY <2>1, <2>2
<1>11. ASSUME NEW u \in Threads, call'[u].original # 0, NEW v \in Threads \ {u}
       PROVE  call'[v].original # call'[u].original
    <2>1. CASE u = t
        <3>1. v # t /\ call'[v] = call[v] /\ IsGiven(call[v], calls)
            BY <1>5, <2>1 DEF OwnInv
        <3> QED BY <1>5, <1>10, <1>11, <2>1, <3>1
    <2>2. CASE v = t
        <3>1. u # t /\ call'[u] = call[u] /\ IsGiven(call[u], calls)
            BY <1>5, <2>2 DEF OwnInv
        <3>2. CASE c.original = 0
            BY <1>5, <1>11, <2>2, <3>2
        <3>3. CASE c.original # 0
            BY <1>5, <1>10, <2>2, <3>1, <3>3
        <3> QED BY <3>2, <3>3
    <2>3. CASE u # t /\ v # t
        BY <1>5, <1>11, <2>3 DEF OwnInv
    <2> QED BY <2>1, <2>2, <2>3
<1>12. ASSUME NEW u \in Threads, call'[u].original # 0, NEW i \in 1..Len(log')
       PROVE  log'[i].original # call'[u].original
    <2>1. log'[i] = log[i] /\ i \in 1..Len(log) /\ IsGiven(log[i], calls)
        BY <1>1 DEF OwnInv
    <2>2. CASE u = t
        BY <1>5, <1>10, <1>12, <2>1, <2>2
    <2>3. CASE u # t
        BY <1>5, <1>12, <2>1, <2>3 DEF OwnInv
    <2> QED BY <2>2, <2>3
<1> QED BY <1>8, <1>9, <1>11, <1>12 DEF OwnInv

(* A call that returns is written down, with what it was given.            *)
LEMMA ReturnIs ==
    ASSUME ThreadsInv, CountInv, NEW t \in Threads, Return(t)
    PROVE  LET d == [call[t] EXCEPT
                        !.before  = before[t],
                        !.movable = \A i \in 1..Len(buffer[t]) : buffer[t][i][1] # "relative"]
           IN  /\ d.function = call[t].function /\ d.target = call[t].target /\ d.kind = call[t].kind
               /\ d.size = call[t].size /\ d.original = call[t].original /\ d.before = before[t]
               /\ d.movable = \A i \in 1..Len(buffer[t]) : buffer[t][i][1] # "relative"
               /\ Len(log) \in Nat /\ Len(log') = Len(log) + 1 /\ log'[Len(log) + 1] = d
               /\ \A i \in 1..Len(log) : log'[i] = log[i]
               /\ call'[t] = NoCall /\ \A u \in Threads : u # t => call'[u] = call[u]
               /\ calls' = calls
<1> DEFINE d == [call[t] EXCEPT
                    !.before  = before[t],
                    !.movable = \A i \in 1..Len(buffer[t]) : buffer[t][i][1] # "relative"]
<1>1. log' = Append(log, d) /\ call' = [call EXCEPT ![t] = NoCall] /\ calls' = calls
    BY DEF Return
<1>2. call[t] \in CallType
    BY DEF ThreadsInv
<1>3. d.function = call[t].function /\ d.target = call[t].target /\ d.kind = call[t].kind
      /\ d.size = call[t].size /\ d.original = call[t].original
    BY <1>2 DEF CallType
<1>4. d.before = before[t] /\ d.movable = \A i \in 1..Len(buffer[t]) : buffer[t][i][1] # "relative"
    BY <1>2 DEF CallType
<1> HIDE DEF d
<1>5. /\ Len(log) \in Nat /\ Len(log') = Len(log) + 1 /\ log'[Len(log) + 1] = d
      /\ \A i \in 1..Len(log) : log'[i] = log[i]
    <2>1. PICK S : log \in Seq(S)
        BY DEF CountInv
    <2>2. log \in Seq(S \cup {d}) /\ d \in S \cup {d}
        BY <2>1, SeqMonotonic
    <2> QED BY <1>1, <2>2, AppendProperties, LenProperties
<1>6. call'[t] = NoCall /\ \A u \in Threads : u # t => call'[u] = call[u]
    BY <1>1 DEF ThreadsInv
<1> QED BY <1>1, <1>3, <1>4, <1>5, <1>6 DEF d

LEMMA OwnStep ==
    ASSUME ThreadsInv, CountInv, OwnInv, [HookNext]_hooking_vars
    PROVE  OwnInv'
<1>1. CASE UNCHANGED <<call, calls, log>>
    BY <1>1 DEF OwnInv, IsGiven
<1>2. ASSUME NEW t \in Threads, NEW size \in Sizes, Refuse(t, size) PROVE OwnInv'
    <2>1. UNCHANGED <<call, log>> /\ calls' = calls + 1 /\ calls \in Nat
        BY <1>2, HookAssumption DEF Refuse, CountInv
    <2>2. \A d : IsGiven(d, calls) => IsGiven(d, calls')
        BY <2>1, GivenStays
    <2> QED BY <2>1, <2>2 DEF OwnInv
<1>3. ASSUME NEW t \in Threads, NEW function \in Functions, NEW size \in Sizes, NEW kind \in Kinds,
             NEW keep \in BOOLEAN, Call(t, function, size, kind, keep)
      PROVE  OwnInv'
    BY <1>3, CallIsOwn
<1>4. ASSUME NEW t \in Threads, Memcpy(t) \/ Steal(t) \/ WriteStep(t) PROVE OwnInv'
    <2>1. UNCHANGED <<call, calls, log>>
        BY <1>4 DEF Memcpy, Steal, WriteStep, hook_vars
    <2> QED BY <1>1, <2>1
<1>5. ASSUME NEW t \in Threads, Alloc(t) PROVE OwnInv'
    <2>1. UNCHANGED <<calls, log>>
        BY <1>5 DEF Alloc
    <2>2. CASE UNCHANGED call
        BY <1>1, <2>1, <2>2
    <2>3. CASE call' = [call EXCEPT ![t].original = 0]
        <3>1. call \in [Threads -> CallType] /\ call[t] \in CallType
            BY DEF ThreadsInv
        <3>2. call'[t].original = 0 /\ \A u \in Threads : u # t => call'[u] = call[u]
            BY <2>3, <3>1 DEF CallType
        <3>3. \A u \in Threads : call'[u].original = 0 \/ call'[u] = call[u]
            BY <3>2
        <3>4. \A u \in Threads : IsGiven(call'[u], calls')
            BY <2>1, <3>3 DEF OwnInv, IsGiven
        <3>5. \A i \in 1..Len(log') : IsGiven(log'[i], calls') /\ i \in 1..Len(log) /\ log'[i] = log[i]
            BY <2>1 DEF OwnInv
        <3> QED BY <3>3, <3>4, <3>5, OwnMoves
    <2> QED BY <1>5, <2>2, <2>3 DEF Alloc
<1>6. ASSUME NEW t \in Threads, Return(t) PROVE OwnInv'
    <2> DEFINE d == log'[Len(log) + 1]
    <2>1. /\ d.original = call[t].original
          /\ Len(log) \in Nat /\ Len(log') = Len(log) + 1
          /\ \A i \in 1..Len(log) : log'[i] = log[i]
          /\ call'[t] = NoCall /\ (\A u \in Threads : u # t => call'[u] = call[u]) /\ calls' = calls
        BY <1>6, ReturnIs
    <2>2. \A i \in 1..Len(log') : i \in 1..Len(log) \/ i = Len(log) + 1
        BY <2>1
    <2>3. NoCall.original = 0
        BY DEF NoCall
    <2>4. \A u \in Threads : IsGiven(call'[u], calls')
        BY <2>1, <2>3 DEF OwnInv, IsGiven
    <2>5. IsGiven(call[t], calls)
        BY DEF OwnInv
    <2>6. \A i \in 1..Len(log') : IsGiven(log'[i], calls')
        BY <2>1, <2>2, <2>5 DEF OwnInv, IsGiven
    <2>7. \A u \in Threads : call'[u].original # 0 => call'[u].original = call[u].original
        BY <2>1, <2>3
    <2>8. \A i \in 1..Len(log') : \/ i \in 1..Len(log) /\ log'[i] = log[i]
                                  \/ \E u \in Threads : /\ log'[i].original = call[u].original
                                                        /\ call'[u].original = 0
        BY <2>1, <2>2, <2>3
    <2> HIDE DEF d
    <2> QED BY <2>4, <2>6, <2>7, <2>8, OwnMoves
<1>7. CASE UNCHANGED hooking_vars
    BY <1>1, <1>7 DEF hooking_vars, hook_vars
<1> QED BY <1>2, <1>3, <1>4, <1>5, <1>6, <1>7 DEF HookNext

(* A step of one call, and what it leaves to the others.                   *)
LEMMA CallIsTrampoline ==
    ASSUME ThreadsInv, HookedInv, ~ disturbed, NEW t \in Threads, call[t] # NoCall
    PROVE  /\ IsTrampoline(call[t]) /\ call[t].function \in Functions /\ call[t].size \in Sizes
           /\ call[t].size >= JUMP_HOOK_SIZE
<1>1. call[t] \in CallType
    BY DEF ThreadsInv
<1>2. call[t].original \in Int
    BY <1>1 DEF CallType
<1>3. /\ call[t].function \in Functions /\ call[t].size \in Sizes /\ call[t].size >= JUMP_HOOK_SIZE
      /\ call[t].kind \in Kinds /\ call[t].target \in Int
    BY InCall
<1> QED BY <1>2, <1>3 DEF IsTrampoline

LEMMA ReadsNoMore ==
    ASSUME ThreadsInv, NEW t \in Threads, todo[t] # <<>>
    PROVE  ~ IsReading(Tail(todo[t]))
<1> DEFINE s == todo[t]
           rest == Tail(s)
<1>1. /\ WellMade(s, StolenSize(s, call[t], buffer[t])) /\ ReadsOnce(s, call[t].function, call[t].size)
    BY DEF ThreadsInv, ThreadOK
<1>2. /\ WellMade(rest, StolenSize(s, call[t], buffer[t]))
      /\ \A i \in 1..Len(rest) : i + 1 \in 1..Len(s) /\ rest[i] = s[i + 1]
    BY <1>1, TailIsWellMade
<1> HIDE DEF rest
<1>3. rest \in Programs
    BY <1>2 DEF WellMade
<1>4. ASSUME rest # <<>> PROVE Head(rest).op # "read"
    <2>1. Head(rest) = rest[1] /\ 1 \in 1..Len(rest)
        BY <1>3, <1>4, EmptySeq, HeadTailProperties DEF Programs
    <2>2. 1 + 1 \in 1..Len(s) /\ rest[1] = s[1 + 1] /\ 1 + 1 # 1
        BY <1>2, <2>1
    <2>3. s[1 + 1].op # "read"
        BY <1>1, <2>2 DEF ReadsOnce
    <2> QED BY <2>1, <2>2, <2>3
<1> QED BY <1>4 DEF IsReading, rest

LEMMA StoredFits ==
    ASSUME ThreadsInv, NEW t \in Threads
    PROVE  /\ stored[t] \in Nat
           /\ todo[t] # <<>> /\ Head(todo[t]).op = "store" =>
                 /\ Head(todo[t]) \in Ops /\ stored[t] < Head(todo[t]).size /\ stored[t] <= Head(todo[t]).size
                 /\ Head(todo[t]).arg = "stolen" => Head(todo[t]).size = Len(buffer[t])
<1>1. ThreadOK(todo[t], call[t], stored[t], buffer[t], internal)
    BY DEF ThreadsInv
<1>2. stored[t] \in Nat /\ (stored[t] > 0 => stored[t] < Head(todo[t]).size)
    BY <1>1 DEF ThreadOK
<1>3. ASSUME todo[t] # <<>>, Head(todo[t]).op = "store"
      PROVE  /\ Head(todo[t]) \in Ops /\ Head(todo[t]).size > 0
             /\ Head(todo[t]).arg = "stolen" => Head(todo[t]).size = Len(buffer[t])
    <2>1. WellMade(todo[t], StolenSize(todo[t], call[t], buffer[t]))
        BY <1>1 DEF ThreadOK
    <2>2. Head(todo[t]) = todo[t][1] /\ Head(todo[t]) \in Ops /\ Len(todo[t]) \in Nat \ {0}
        BY <1>3, <2>1, TailIsWellMade
    <2>3. 1 \in 1..Len(todo[t]) /\ todo[t][1].op = "store"
        BY <1>3, <2>2
    <2>4. StolenSize(todo[t], call[t], buffer[t]) = Len(buffer[t])
        BY <2>3 DEF StolenSize
    <2> QED BY <2>1, <2>2, <2>3, <2>4 DEF WellMade, Sources
<1>4. ASSUME todo[t] # <<>>, Head(todo[t]).op = "store"
      PROVE  stored[t] < Head(todo[t]).size /\ stored[t] <= Head(todo[t]).size
    <2>1. Head(todo[t]).size \in Int /\ Head(todo[t]).size > 0
        BY <1>3, <1>4 DEF Ops
    <2> QED BY <1>2, <2>1
<1> QED BY <1>2, <1>3, <1>4

(* The cells a call may write are neither those another one was given nor  *)
(* the beginning of another function.                                      *)
LEMMA CellsApart ==
    ASSUME CountInv, NEW c, c.function \in Functions, c.size \in Sizes, c.size >= JUMP_HOOK_SIZE,
           IsGiven(c, calls)
    PROVE  /\ \A a \in 1..CodeSize : a \notin CodeOf(c) => a \notin CellsOf(c) /\ a \in 1..Cells
           /\ \A g \in Functions : g # c.function =>
                 /\ g \notin CellsOf(c) /\ g + 1 \notin CellsOf(c) /\ g \in 1..Cells /\ g + 1 \in 1..Cells
           /\ \A d : /\ d.size \in Sizes /\ d.size >= JUMP_HOOK_SIZE /\ IsGiven(d, calls)
                     /\ d.original # c.original
                     => \A a \in OriginOf(d) : a \notin CellsOf(c) /\ a \in 1..Cells
<1>1. OriginOf(c) \cap 1..CodeSize = {} /\ CodeOf(c) \subseteq 1..CodeSize /\ CodeSize <= Cells
    BY OriginIsThere, CodeIsThere
<1>2. CodeSize \in Nat /\ Cells \in Nat
    BY MemoryAssumption
<1>3. \A a \in 1..CodeSize : a \in 1..Cells
    BY <1>1, <1>2
<1>4. \A a \in 1..CodeSize : a \notin CodeOf(c) => a \notin CellsOf(c) /\ a \in 1..Cells
    BY <1>1, <1>3 DEF CellsOf
<1>5. ASSUME NEW g \in Functions, g # c.function
      PROVE  g \notin CellsOf(c) /\ g + 1 \notin CellsOf(c) /\ g \in 1..Cells /\ g + 1 \in 1..Cells
    <2>1. g \notin CodeOf(c) /\ g + 1 \notin CodeOf(c) /\ g \in 1..CodeSize /\ g + 1 \in 1..CodeSize
        BY <1>5, CodeIsThere
    <2> QED BY <1>4, <2>1
<1>6. ASSUME NEW d, d.size \in Sizes, d.size >= JUMP_HOOK_SIZE, IsGiven(d, calls), d.original # c.original,
             NEW a \in OriginOf(d)
      PROVE  a \notin CellsOf(c) /\ a \in 1..Cells
    <2>1. OriginOf(d) \subseteq 1..Cells /\ OriginOf(d) \cap 1..CodeSize = {}
        BY <1>6, OriginIsThere
    <2>2. OriginOf(c) \cap OriginOf(d) = {}
        BY <1>6, OriginsApart
    <2> QED BY <1>1, <1>6, <2>1, <2>2 DEF CellsOf
<1> QED BY <1>4, <1>5, <1>6

LEMMA KeepsStays ==
    ASSUME NEW c, IsTrampoline(c), NEW s, NEW st \in Nat, NEW mem, NEW opr, NEW buf, NEW bef, NEW past,
           NEW mem2, NEW opr2, Keeps(s, c, st, mem, opr, buf, bef, past), s # <<>> /\ Head(s).op = "store" => st <= Head(s).size,
           \A a \in OriginOf(c) : mem2[a] = mem[a],
           mem2[c.function] = mem[c.function], mem2[c.function + 1] = mem[c.function + 1],
           opr2[c.kind] = opr[c.kind] \/ (s # Left(c, 5) /\ s # Left(c, 6))
    PROVE  Keeps(s, c, st, mem2, opr2, buf, bef, past)
<1>1. OnItsWay(s, c, st, mem2, opr2, buf)
    BY OnItsWayStays DEF Keeps
<1>2. ASSUME IsReading(s)
      PROVE  NotYet(c.function, past, Len(past)) \/ GoesToItsTarget(mem2, past, c.function)
    BY <1>2, GoneStays DEF Keeps
<1> QED BY <1>1, <1>2 DEF Keeps

LEMMA KeptStays ==
    ASSUME NEW past, NEW i, past[i].size \in Nat, past[i].original \in Int, NEW mem, NEW mem2,
           Kept(mem, past, i), \A a \in OriginOf(past[i]) : mem2[a] = mem[a]
    PROVE  Kept(mem2, past, i)
<1> DEFINE c == past[i]
<1> SUFFICES ASSUME c.original # 0, c.movable
             PROVE  \E buf :
                /\ Copied(mem2, c, buf, c.size) /\ BackWritten(mem2, c, JUMP_HOOK_SIZE)
                /\ \/ Straight(c, buf, c.before) /\ NotYet(c.function, past, i - 1)
                   \/ Jumped(buf, c.before)
    BY DEF Kept
<1>1. PICK buf : /\ Copied(mem, c, buf, c.size) /\ BackWritten(mem, c, JUMP_HOOK_SIZE)
                 /\ \/ Straight(c, buf, c.before) /\ NotYet(c.function, past, i - 1)
                    \/ Jumped(buf, c.before)
    BY DEF Kept
<1>2. c.size \in Int /\ c.size <= c.size
    OBVIOUS
<1> HIDE DEF c
<1>3. Copied(mem2, c, buf, c.size) /\ BackWritten(mem2, c, JUMP_HOOK_SIZE)
    BY <1>1, <1>2, CopyStays DEF c
<1> QED BY <1>1, <1>3

LEMMA OriginalMoves ==
    ASSUME ThreadsInv, CountInv, HookedInv, OwnInv, OriginalInv, ~ disturbed, NEW t \in Threads, call[t] # NoCall,
           NEW prog, NEW c, NEW st, Moves(t, prog, c, st), log' = log,
           c # NoCall, c.function = call[t].function, c.size = call[t].size,
           Keeps(prog, c, st, memory', operand', buffer'[t], before'[t], log),
           \A u \in Threads \ {t} : buffer'[u] = buffer[u] /\ before'[u] = before[u],
           DOMAIN before' = DOMAIN before,
           IsReading(prog) => IsReading(todo[t]), IsReading(todo[t]) => memory' = memory,
           \A a \in 1..Cells : a \notin CellsOf(call[t]) => memory'[a] = memory[a],
           \A u \in Threads \ {t} : call[u] # NoCall =>
               \/ operand'[call[u].kind] = operand[call[u].kind]
               \/ todo[u] # Left(call[u], 5) /\ todo[u] # Left(call[u], 6)
    PROVE  OriginalInv'
<1>1. /\ todo'[t] = prog /\ call'[t] = c /\ stored'[t] = st
      /\ \A u \in Threads : u # t =>
            todo'[u] = todo[u] /\ call'[u] = call[u] /\ stored'[u] = stored[u]
    BY MovesAre
<1>2. /\ \A u \in Threads : call[u] # NoCall =>
            Keeps(todo[u], call[u], stored[u], memory, operand, buffer[u], before[u], log)
      /\ \A a \in 1..CodeSize : ~ Touched(a) => memory[a] = FirstMemory[a]
      /\ \A i \in 1..Len(log) : log[i].function \in Functions /\ IsHook(log[i]) /\ Kept(memory, log, i)
    BY DEF OriginalInv
<1>3. /\ call[t].function \in Functions /\ call[t].size \in Sizes /\ call[t].size >= JUMP_HOOK_SIZE
      /\ IsGiven(call[t], calls)
    BY CallIsTrampoline DEF OwnInv
<1>4. ASSUME NEW u \in Threads \ {t}, call[u] # NoCall
      PROVE  Keeps(todo[u], call[u], stored[u], memory', operand', buffer'[u], before'[u], log)
    <2>1. /\ IsTrampoline(call[u]) /\ call[u].function \in Functions /\ call[u].size \in Sizes
          /\ call[u].size >= JUMP_HOOK_SIZE /\ IsGiven(call[u], calls)
        BY <1>4, CallIsTrampoline DEF OwnInv
    <2>2. call[u].function # call[t].function
        BY <1>4, InCall
    <2>3. \A a \in OriginOf(call[u]) : memory'[a] = memory[a]
        <3>1. CASE call[u].original = 0
            BY <3>1 DEF OriginOf
        <3>2. CASE call[u].original # 0
            <4>1. call[t].original # call[u].original
                BY <1>4, <3>2 DEF OwnInv
            <4>2. \A a \in OriginOf(call[u]) : a \notin CellsOf(call[t]) /\ a \in 1..Cells
                BY <1>3, <2>1, <4>1, CellsApart
            <4> QED BY <4>2
        <3> QED BY <3>1, <3>2
    <2>4. /\ memory'[call[u].function] = memory[call[u].function]
          /\ memory'[call[u].function + 1] = memory[call[u].function + 1]
        <3>1. /\ call[u].function \notin CellsOf(call[t]) /\ call[u].function + 1 \notin CellsOf(call[t])
              /\ call[u].function \in 1..Cells /\ call[u].function + 1 \in 1..Cells
            BY <1>3, <2>1, <2>2, CellsApart
        <3> QED BY <3>1
    <2>5. stored[u] \in Nat /\ (todo[u] # <<>> /\ Head(todo[u]).op = "store" => stored[u] <= Head(todo[u]).size)
        BY StoredFits
    <2>6. Keeps(todo[u], call[u], stored[u], memory, operand, buffer[u], before[u], log)
        BY <1>2, <1>4
    <2>7. Keeps(todo[u], call[u], stored[u], memory', operand', buffer[u], before[u], log)
        BY <1>4, <2>1, <2>3, <2>4, <2>5, <2>6, KeepsStays
    <2> QED BY <1>4, <2>7
<1>5. \A u \in Threads : call'[u] # NoCall =>
          Keeps(todo'[u], call'[u], stored'[u], memory', operand', buffer'[u], before'[u], log')
    <2> TAKE u \in Threads
    <2> HAVE call'[u] # NoCall
    <2>1. CASE u = t
        BY <1>1, <2>1
    <2>2. CASE u # t
        BY <1>1, <1>4, <2>2
    <2> QED BY <2>1, <2>2
<1>6. CodeOf(c) = CodeOf(call[t])
    BY DEF CodeOf
<1>7. ASSUME NEW a \in 1..CodeSize, ~ Touched(a)' PROVE memory'[a] = FirstMemory[a]
    <2>1. ~ Touched(a)
        BY <1>1, <1>6, <1>7 DEF Touched
    <2>2. memory[a] = FirstMemory[a]
        BY <1>2, <2>1
    <2>3. CASE IsReading(todo[t])
        BY <2>2, <2>3
    <2>4. CASE ~ IsReading(todo[t])
        <3>1. a \notin CodeOf(call[t])
            BY <2>1, <2>4 DEF Touched
        <3>2. a \notin CellsOf(call[t]) /\ a \in 1..Cells
            BY <1>3, <3>1, CellsApart
        <3> QED BY <2>2, <3>2
    <2> QED BY <2>3, <2>4
<1>8. ASSUME NEW i \in 1..Len(log) PROVE Kept(memory', log, i)
    <2>1. log[i].function \in Functions /\ IsHook(log[i]) /\ Kept(memory, log, i) /\ IsGiven(log[i], calls)
        BY <1>2 DEF OwnInv
    <2>2. CASE log[i].original = 0
        BY <2>2 DEF Kept
    <2>3. CASE log[i].original # 0
        <3>1. log[i].size \in Sizes /\ log[i].size >= JUMP_HOOK_SIZE /\ log[i].size \in Nat
            BY <2>1, HookAssumption DEF IsHook
        <3>2. log[i].original # call[t].original
            BY <2>3 DEF OwnInv
        <3>3. \A a \in OriginOf(log[i]) : a \notin CellsOf(call[t]) /\ a \in 1..Cells
            BY <1>3, <2>1, <3>1, <3>2, CellsApart
        <3>4. log[i].original \in Int
            BY <2>1, <2>3, <3>1, OriginFits
        <3> QED BY <2>1, <3>1, <3>3, <3>4, KeptStays
    <2> QED BY <2>2, <2>3
<1>9. \A i \in 1..Len(log') :
          log'[i].function \in Functions /\ IsHook(log'[i]) /\ Kept(memory', log', i)
    BY <1>2, <1>8
<1>10. DOMAIN before' = Threads
    BY DEF OriginalInv
<1> QED BY <1>5, <1>7, <1>9, <1>10 DEF OriginalInv

(* The steps of a call.                                                    *)
LEMMA InItsCall ==
    ASSUME ThreadsInv, HookedInv, OriginalInv, ~ disturbed, NEW t \in Threads, todo[t] # <<>>
    PROVE  /\ call[t] # NoCall /\ IsTrampoline(call[t])
           /\ Keeps(todo[t], call[t], stored[t], memory, operand, buffer[t], before[t], log)
           /\ OnItsWay(todo[t], call[t], stored[t], memory, operand, buffer[t])
           /\ Head(todo[t]).op # "store" => stored[t] = 0
           /\ stored[t] > 0 => internal
           /\ Head(todo[t]).op # "read" => ~ IsReading(todo[t])
<1>1. call[t] # NoCall /\ (stored[t] > 0 => internal /\ Head(todo[t]).op = "store") /\ stored[t] \in Nat
    BY InCall, StoredFits
<1>2. IsTrampoline(call[t])
    BY <1>1, CallIsTrampoline
<1>3. Keeps(todo[t], call[t], stored[t], memory, operand, buffer[t], before[t], log)
    BY <1>1 DEF OriginalInv
<1>4. OnItsWay(todo[t], call[t], stored[t], memory, operand, buffer[t])
    BY <1>3 DEF Keeps
<1> QED BY <1>1, <1>2, <1>3, <1>4 DEF IsReading

(* A step that writes nothing but, perhaps, the shared jump bytes.         *)
LEMMA StepOriginal ==
    ASSUME ThreadsInv, CountInv, HookedInv, OwnInv, OriginalInv, ~ disturbed, NEW t \in Threads, todo[t] # <<>>,
           Head(todo[t]).op \in {"protect", "restore", "memcpy"}, Done(t),
           UNCHANGED <<memory, call, stored, log, buffer, before>>,
           IF Head(todo[t]).op = "memcpy" THEN operand'[Head(todo[t]).arg] = Head(todo[t]).size
                                          ELSE operand' = operand,
           \A u \in Threads \ {t} : call[u] # NoCall =>
               \/ operand'[call[u].kind] = operand[call[u].kind]
               \/ todo[u] # Left(call[u], 5) /\ todo[u] # Left(call[u], 6)
    PROVE  OriginalInv'
<1> DEFINE s == todo[t]
           c == call[t]
<1>1. /\ c # NoCall /\ IsTrampoline(c) /\ stored[t] = 0 /\ ~ IsReading(s)
      /\ Keeps(s, c, stored[t], memory, operand, buffer[t], before[t], log)
      /\ OnItsWay(s, c, stored[t], memory, operand, buffer[t])
    <2>1. Head(s).op # "store" /\ Head(s).op # "read"
        OBVIOUS
    <2> QED BY <2>1, InItsCall
<1>2. Moves(t, Tail(s), c, 0)
    BY <1>1, ThreadsStay DEF Done, Moves
<1>3. OnItsWay(Tail(s), c, 0, memory, operand', buffer[t])
    BY <1>1, StepOnItsWay
<1>4. ~ IsReading(Tail(s))
    BY ReadsNoMore
<1>5. Keeps(Tail(s), c, 0, memory, operand', buffer[t], before[t], log)
    BY <1>1, <1>3, <1>4 DEF Keeps
<1>6. Keeps(Tail(s), c, 0, memory', operand', buffer'[t], before'[t], log)
    BY <1>5
<1> QED BY <1>1, <1>2, <1>4, <1>6, OriginalMoves

(* The operand of a jump back that is still to be written is in use.       *)
LEMMA JumpBackIsInUse ==
    ASSUME NEW u \in Threads, IsTrampoline(call[u]),
           todo[u] = Left(call[u], 5) \/ todo[u] = Left(call[u], 6)
    PROVE  InUse(u, call[u].kind)
<1> DEFINE c == call[u]
<1>1. /\ \A o, addr, size, arg : o = Op("protect", addr, size, arg) => o.op = "protect"
      /\ \A o, addr, size, arg : o = Op("store", addr, size, arg) => o.op = "store" /\ o.arg = arg
    BY DEF Op
<1>2. /\ After(c)[6] = Op("protect", c.original + c.size, JUMP_HOOK_SIZE, "")
      /\ After(c)[7] = Op("store", c.original + c.size, JUMP_HOOK_SIZE, c.kind)
    BY AfterIs
<1>l. ASSUME NEW k \in 0..7
      PROVE  Len(Left(c, k)) = 8 - k /\ \A i \in 1..(8 - k) : Left(c, k)[i] = After(c)[k + i]
    BY LeftIs
<1> HIDE DEF c
<1>3. After(c)[6].op = "protect" /\ After(c)[7].op = "store" /\ After(c)[7].arg = c.kind
    <2> DEFINE x == After(c)[6]
               y == After(c)[7]
               z == c.original + c.size
    <2>1. x = Op("protect", z, JUMP_HOOK_SIZE, "") /\ y = Op("store", z, JUMP_HOOK_SIZE, c.kind)
        BY <1>2
    <2> HIDE DEF x, y, z
    <2>2. x.op = "protect" /\ y.op = "store" /\ y.arg = c.kind
        BY <2>1 DEF Op
    <2> QED BY <2>2 DEF x, y
<1>4. CASE todo[u] = Left(c, 5)
    <2>1. 5 \in 0..7 /\ 8 - 5 = 3 /\ 5 + 1 = 6 /\ 5 + 2 = 7 /\ 1 \in 1..3 /\ 2 \in 1..3
        OBVIOUS
    <2>a. Len(Left(c, 5)) = 3 /\ \A i \in 1..3 : Left(c, 5)[i] = After(c)[5 + i]
        BY <1>l, <2>1
    <2>2. Len(todo[u]) = 3 /\ todo[u][1] = After(c)[6] /\ todo[u][2] = After(c)[7]
        BY <1>4, <2>1, <2>a
    <2>3. \A k \in 1..2 : todo[u][k].op # "memcpy"
        <3>1. \A k \in 1..2 : k = 1 \/ k = 2
            OBVIOUS
        <3> QED BY <1>3, <2>2, <3>1
    <2>4. 2 \in 1..Len(todo[u])
        BY <2>2
    <2> QED BY <1>3, <2>2, <2>3, <2>4 DEF InUse, c
<1>5. CASE todo[u] = Left(c, 6)
    <2>1. 6 \in 0..7 /\ 8 - 6 = 2 /\ 6 + 1 = 7 /\ 1 \in 1..2
        OBVIOUS
    <2>a. Len(Left(c, 6)) = 2 /\ \A i \in 1..2 : Left(c, 6)[i] = After(c)[6 + i]
        BY <1>l, <2>1
    <2>2. Len(todo[u]) = 2 /\ todo[u][1] = After(c)[7]
        BY <1>5, <2>1, <2>a
    <2>3. \A k \in 1..1 : todo[u][k].op # "memcpy"
        <3>1. \A k \in 1..1 : k = 1
            OBVIOUS
        <3> QED BY <1>3, <2>2, <3>1
    <2>4. 1 \in 1..Len(todo[u])
        BY <2>2
    <2> QED BY <1>3, <2>2, <2>3, <2>4 DEF InUse, c
<1> QED BY <1>4, <1>5 DEF c

LEMMA MemcpyOriginal ==
    ASSUME ThreadsInv, CellsInv, CountInv, HookedInv, OwnInv, OriginalInv, ~ disturbed, ~ disturbed',
           NEW t \in Threads, Memcpy(t)
    PROVE  OriginalInv'
<1> DEFINE arg == Head(todo[t]).arg
<1>1. /\ todo[t] # <<>> /\ Head(todo[t]).op = "memcpy" /\ Done(t)
      /\ UNCHANGED <<memory, call, stored, log, buffer, before>>
      /\ operand' = [operand EXCEPT ![arg] = Head(todo[t]).size]
      /\ \A u \in Threads \ {t} : ~ InUse(u, arg)
    BY DEF Memcpy, Does
<1>2. arg \in Kinds
    <2>1. WellMade(todo[t], StolenSize(todo[t], call[t], buffer[t]))
        BY DEF ThreadsInv, ThreadOK
    <2>2. Head(todo[t]) = todo[t][1] /\ Len(todo[t]) \in Nat \ {0}
        BY <1>1, <2>1, TailIsWellMade
    <2>3. 1 \in 1..Len(todo[t])
        BY <2>2
    <2> QED BY <1>1, <2>1, <2>2, <2>3 DEF WellMade, Memcpys
<1> HIDE DEF arg
<1>3. operand'[arg] = Head(todo[t]).size /\ \A kind \in Kinds : kind # arg => operand'[kind] = operand[kind]
    BY <1>1, <1>2 DEF CellsInv
<1>4. \A u \in Threads \ {t} : call[u] # NoCall =>
          \/ operand'[call[u].kind] = operand[call[u].kind]
          \/ todo[u] # Left(call[u], 5) /\ todo[u] # Left(call[u], 6)
    <2> TAKE u \in Threads \ {t}
    <2> HAVE call[u] # NoCall
    <2>1. IsTrampoline(call[u]) /\ call[u].kind \in Kinds
        BY CallIsTrampoline DEF IsTrampoline
    <2>2. CASE call[u].kind = arg
        <3>1. ~ InUse(u, call[u].kind)
            BY <1>1, <2>2
        <3> QED BY <2>1, <3>1, JumpBackIsInUse
    <2>3. CASE call[u].kind # arg
        BY <1>3, <2>1, <2>3
    <2> QED BY <2>2, <2>3
<1>5. IF Head(todo[t]).op = "memcpy" THEN operand'[Head(todo[t]).arg] = Head(todo[t]).size
                                     ELSE operand' = operand
    BY <1>1, <1>3 DEF arg
<1>6. Head(todo[t]).op \in {"protect", "restore", "memcpy"}
    BY <1>1
<1> QED BY <1>1, <1>4, <1>5, <1>6, StepOriginal

LEMMA ProtectOriginal ==
    ASSUME ThreadsInv, CountInv, HookedInv, OwnInv, OriginalInv, ~ disturbed, NEW t \in Threads,
           Protect(t) \/ Restore(t), UNCHANGED hook_vars
    PROVE  OriginalInv'
<1>1. /\ todo[t] # <<>> /\ Head(todo[t]).op \in {"protect", "restore"} /\ Done(t)
      /\ UNCHANGED <<memory, call, stored, log, buffer, before, operand>>
    BY DEF Protect, Restore, Does, hook_vars
<1>2. Head(todo[t]).op \in {"protect", "restore", "memcpy"} /\ Head(todo[t]).op # "memcpy"
    BY <1>1
<1> QED BY <1>1, <1>2, StepOriginal

LEMMA AllocOriginal ==
    ASSUME ThreadsInv, CountInv, HookedInv, OwnInv, OriginalInv, ~ disturbed, ~ disturbed', NEW t \in Threads, Alloc(t)
    PROVE  OriginalInv'
<1> DEFINE s == todo[t]
           c == call[t]
<1>1. /\ s # <<>> /\ Head(s).op = "alloc" /\ Done(t)
      /\ UNCHANGED <<memory, call, stored, log, operand, buffer, before>>
    BY DEF Alloc, Does
<1>2. /\ c # NoCall /\ IsTrampoline(c) /\ stored[t] = 0 /\ ~ IsReading(s)
      /\ Keeps(s, c, stored[t], memory, operand, buffer[t], before[t], log)
      /\ OnItsWay(s, c, stored[t], memory, operand, buffer[t])
    <2>1. Head(s).op # "store" /\ Head(s).op # "read"
        BY <1>1
    <2> QED BY <1>1, <2>1, InItsCall
<1>3. c.original # 0 /\ Tail(s) = Left(c, 1)
    BY <1>1, <1>2, HeadOnItsWay
<1>4. OnItsWay(Tail(s), c, 0, memory, operand, buffer[t])
    BY <1>3, AllocOnItsWay
<1>5. ~ IsReading(Tail(s))
    BY <1>1, ReadsNoMore
<1>6. Keeps(Tail(s), c, 0, memory, operand, buffer[t], before[t], log)
    BY <1>2, <1>4, <1>5 DEF Keeps
<1>7. Moves(t, Tail(s), c, 0)
    BY <1>1, <1>2, <1>3, ThreadsStay DEF Done, Moves
<1>8. Keeps(Tail(s), c, 0, memory', operand', buffer'[t], before'[t], log)
    BY <1>1, <1>6
<1> QED BY <1>1, <1>2, <1>5, <1>7, <1>8, OriginalMoves

(* The bytes a call steals.                                                *)
LEMMA EndIsBefore ==
    ASSUME NEW f \in Functions, NEW g \in Functions, NEW size \in Sizes, size >= JUMP_HOOK_SIZE, f < g
    PROVE  End(f) < g
<1>1. /\ f \in Nat /\ End(f) \in f..CodeSize
      /\ \A a \in f..(End(f) - 1) : FirstMemory[a] = <<"code", a>>
    BY EndIs
<1>2. g \in Nat /\ f # 0 /\ (g + size) - 1 <= CodeSize /\ CodeSize \in Nat /\ Cells \in Nat
      /\ CodeSize <= Cells /\ size \in Nat
    BY FunctionsFit
<1>3. size >= 2
    BY DEF JUMP_HOOK_SIZE
<1> DEFINE a == g - 1
<1>4. a \in 1..Cells /\ ~ (a > CodeSize) /\ a + 1 = g
    BY <1>1, <1>2, <1>3
<1> HIDE DEF a
<1>5. FirstMemory[a] = <<"ret", 0>>
    <2>1. FirstMemory[a] = IF a > CodeSize THEN <<"none", 0>>
                           ELSE IF a = CodeSize \/ a + 1 \in Functions THEN <<"ret", 0>> ELSE <<"code", a>>
        BY <1>4 DEF FirstMemory
    <2> QED BY <1>4, <2>1
<1>6. FirstMemory[a] # <<"code", a>>
    <2>1. <<"ret", 0>> # <<"code", a>>
        OBVIOUS
    <2> QED BY <1>5, <2>1
<1>7. a \notin f..(End(f) - 1)
    BY <1>1, <1>6
<1>8. End(f) <= a
    BY <1>1, <1>2, <1>4, <1>7
<1> QED BY <1>1, <1>2, <1>4, <1>8

(* A function no call has written is what it was.                          *)
LEMMA NobodyWrote ==
    ASSUME ThreadsInv, HookedInv, OriginalInv, ~ disturbed, NEW f \in Functions, NEW size \in Sizes,
           size >= JUMP_HOOK_SIZE, NEW from \in f..(End(f) + 1),
           \A t \in Threads : call[t] # NoCall /\ ~ IsReading(todo[t]) /\ call[t].function = f =>
               f + call[t].size <= from,
           \A i \in 1..Len(log) : log[i].function = f => f + log[i].size <= from
    PROVE  \A a \in from..End(f) : memory[a] = FirstMemory[a]
<1>1. f \in Nat /\ f # 0 /\ End(f) \in f..CodeSize /\ CodeSize \in Nat
    BY EndIs, MemoryAssumption
<1>2. ASSUME NEW c, c.function \in Functions, c.size \in Sizes, c.size >= JUMP_HOOK_SIZE,
             c.function = f => f + c.size <= from, NEW a \in from..End(f)
      PROVE  a \notin CodeOf(c)
    <2> DEFINE g == c.function
               n == c.size
    <2>a. g \in Functions /\ n \in Sizes /\ n >= JUMP_HOOK_SIZE /\ (g = f => f + n <= from)
        BY <1>2
    <2>b. CodeOf(c) = g..(g + n - 1)
        BY DEF CodeOf
    <2> HIDE DEF g, n
    <2>1. g \in Nat /\ n \in Nat /\ \A h \in Functions : g < h => g + n <= h
        BY <2>a, FunctionsFit
    <2>2. CASE g = f
        BY <1>1, <2>a, <2>b, <2>1, <2>2
    <2>3. CASE g < f
        BY <1>1, <2>a, <2>b, <2>1, <2>3
    <2>4. CASE f < g
        <3>1. End(f) < g
            BY <2>a, <2>4, EndIsBefore
        <3> QED BY <1>1, <2>b, <2>1, <3>1
    <2> QED BY <1>1, <2>1, <2>2, <2>3, <2>4
<1>3. ASSUME NEW a \in from..End(f) PROVE memory[a] = FirstMemory[a]
    <2>1. a \in 1..CodeSize
        BY <1>1
    <2>2. ASSUME NEW t \in Threads, call[t] # NoCall, ~ IsReading(todo[t]) PROVE a \notin CodeOf(call[t])
        <3>1. call[t].function \in Functions /\ call[t].size \in Sizes /\ call[t].size >= JUMP_HOOK_SIZE
            BY <2>2, CallIsTrampoline
        <3> QED BY <1>2, <2>2, <3>1
    <2>3. ASSUME NEW i \in 1..Len(log) PROVE a \notin CodeOf(log[i])
        <3>1. log[i].function \in Functions /\ log[i].size \in Sizes /\ log[i].size >= JUMP_HOOK_SIZE
            BY DEF OriginalInv, IsHook
        <3> QED BY <1>2, <3>1
    <2>4. ~ Touched(a)
        BY <2>2, <2>3 DEF Touched
    <2> QED BY <2>1, <2>4 DEF OriginalInv
<1> QED BY <1>3

(* What is stolen is the beginning of the function as it was, or the jump  *)
(* of the last call.                                                       *)
LEMMA StolenIs ==
    ASSUME ThreadsInv, CellsInv, HookedInv, OriginalInv, ~ disturbed, NEW t \in Threads,
           todo[t] # <<>>, IsReading(todo[t]), NEW buf,
           buf = [i \in 1..call[t].size |-> memory[call[t].function + (i - 1)]]
    PROVE  Stolen(call[t], buf, Runs(memory, call[t].function), log)
<1> DEFINE f == call[t].function
           n == call[t].size
<1>1. f \in Functions /\ n \in Sizes /\ n >= JUMP_HOOK_SIZE /\ call[t] # NoCall
    BY InItsCall, CallIsTrampoline
<1>2. f \in Nat /\ f # 0 /\ n \in Nat /\ CodeSize \in Nat /\ Cells \in Nat /\ CodeSize <= Cells
      /\ (f + n) - 1 <= CodeSize /\ n >= 2
    BY <1>1, FunctionsFit DEF JUMP_HOOK_SIZE
<1>3. memory \in [1..Cells -> CellType]
    BY DEF CellsInv
<1>4. \/ NotYet(f, log, Len(log))
      \/ GoesToItsTarget(memory, log, f)
    <2>1. Keeps(todo[t], call[t], stored[t], memory, operand, buffer[t], before[t], log)
        BY InItsCall
    <2> QED BY <2>1 DEF Keeps
<1>a. buf = [i \in 1..n |-> memory[f + (i - 1)]]
    OBVIOUS
<1> HIDE DEF f, n
<1>5. /\ buf \in Seq(CellType) /\ Len(buf) = n /\ \A i \in 1..n : buf[i] = memory[f + (i - 1)]
    <2>1. \A i \in 1..n : f + (i - 1) \in 1..Cells
        BY <1>2
    <2>2. buf \in [1..n -> CellType]
        BY <1>3, <1>a, <2>1
    <2>3. \A i \in 1..n : buf[i] = memory[f + (i - 1)]
        BY <1>a
    <2>4. buf \in Seq(CellType) /\ Len(buf) = n
        <3>1. n \in Nat
            BY <1>2
        <3>2. \A g \in [1..n -> CellType] : g \in Seq(CellType) /\ Len(g) = n
            BY <3>1
        <3> QED BY <2>2, <3>2
    <2> QED BY <2>3, <2>4
<1>6. CASE NotYet(f, log, Len(log))
    <2>1. \A i \in 1..Len(log) : log[i].function # f
        BY <1>6 DEF NotYet
    <2>2. \A u \in Threads : call[u] # NoCall /\ ~ IsReading(todo[u]) => call[u].function # f
        BY <1>1, InCall DEF f
    <2>3. f \in f..(End(f) + 1) /\ End(f) \in f..CodeSize /\ (f + n) - 1 <= End(f)
        BY <1>1, EndIs
    <2>4. \A a \in f..End(f) : memory[a] = FirstMemory[a]
        BY <1>1, <2>1, <2>2, <2>3, NobodyWrote
    <2>5. Runs(memory, f) = Rest(f, f)
        BY <1>1, <1>3, <2>4, FunctionRuns
    <2>6. \A i \in 1..n : buf[i] = FirstMemory[f + (i - 1)]
        <3>1. \A i \in 1..n : f + (i - 1) \in f..End(f)
            BY <1>2, <2>3
        <3> QED BY <1>5, <2>4, <3>1
    <2>7. Straight(call[t], buf, Runs(memory, f))
        BY <2>5, <2>6 DEF Straight, f, n
    <2> QED BY <1>5, <1>6, <2>7 DEF Stolen, f, n
<1>7. CASE GoesToItsTarget(memory, log, f)
    <2>1. PICK i \in 1..Len(log) : log[i].function = f /\ IsHook(log[i]) /\ Written(memory, log[i])
        BY <1>7 DEF GoesToItsTarget
    <2> DEFINE d == log[i]
    <2>2. /\ memory[f] = <<d.kind, 0>> /\ memory[f + 1] = <<"operand", OperandOf(d)>>
          /\ d.kind \in Kinds /\ d.target \in Int /\ d.target < 0
        BY <2>1 DEF Written, IsHook
    <2>3. buf[1] = memory[f] /\ buf[2] = memory[f + 1]
        <3>1. 1 \in 1..n /\ 2 \in 1..n /\ f + (1 - 1) = f /\ f + (2 - 1) = f + 1
            BY <1>2
        <3> QED BY <1>5, <3>1
    <2>4. CASE d.kind = "relative"
        <3>1. buf[1] = <<"relative", 0>>
            BY <2>2, <2>3, <2>4
        <3>2. \A x : x = <<"relative", 0>> => x[1] = "relative"
            OBVIOUS
        <3>3. buf[1][1] = "relative"
            BY <3>1, <3>2, Zenon
        <3> QED BY <1>5, <3>3 DEF Stolen, f, n
    <2>5. CASE d.kind = "absolute"
        <3>1. OperandOf(d) = d.target
            BY <2>5 DEF OperandOf, operand_of
        <3>2. buf[1] = <<"absolute", 0>> /\ buf[2] = <<"operand", d.target>>
            BY <2>2, <2>3, <2>5, <3>1
        <3>3. Runs(memory, f) = Loads("absolute") \o << <<"hook", d.target>> >>
            <4>1. f \in 1..Cells /\ f + 1 \in 1..Cells
                BY <1>2
            <4> QED BY <1>3, <2>1, <2>2, <2>5, <4>1, WrittenRuns
        <3>4. Jumped(buf, Runs(memory, f))
            BY <2>2, <3>2, <3>3 DEF Jumped
        <3> QED BY <1>5, <3>4 DEF Stolen, f, n
    <2>6. d.kind = "relative" \/ d.kind = "absolute"
        BY <2>2, HookAssumption
    <2> QED BY <2>4, <2>5, <2>6
<1> QED BY <1>4, <1>6, <1>7

(* A read that does not fail reads all of it.                              *)
LEMMA WholeReads ==
    ASSUME ThreadsInv, NEW t \in Threads, Steal(t), ~ disturbed'
    PROVE  LET op == Head(todo[t])
           IN  buffer' = [buffer EXCEPT ![t] = [i \in 1..op.size |-> memory[op.addr + i - 1]]]
<1> DEFINE op == Head(todo[t])
<1>1. op.size \in Int
    <2>1. todo[t] # <<>> /\ WellMade(todo[t], StolenSize(todo[t], call[t], buffer[t]))
        BY DEF Steal, Read, Does, ThreadsInv, ThreadOK
    <2> QED BY <2>1, TailIsWellMade DEF Ops
<1>2. PICK n \in 0..op.size :
          /\ buffer' = [buffer EXCEPT ![t] =
                [i \in 1..op.size |-> IF i <= n THEN memory[op.addr + i - 1] ELSE Unset]]
          /\ disturbed' = (disturbed \/ n < op.size)
    BY DEF Steal, Read
<1> HIDE DEF op
<1>3. ~ (n < op.size)
    BY Zenon, <1>2
<1>4. \A i \in 1..op.size : i <= n
    BY <1>1, <1>2, <1>3
<1>5. [i \in 1..op.size |-> IF i <= n THEN memory[op.addr + i - 1] ELSE Unset]
          = [i \in 1..op.size |-> memory[op.addr + i - 1]]
    BY <1>4
<1> QED BY <1>2, <1>5 DEF op

LEMMA StealOriginal ==
    ASSUME ThreadsInv, CellsInv, CountInv, HookedInv, OwnInv, OriginalInv, ~ disturbed, ~ disturbed', NEW t \in Threads, Steal(t)
    PROVE  OriginalInv'
<1> DEFINE s == todo[t]
           c == call[t]
           buf == [i \in 1..Head(s).size |-> memory[Head(s).addr + i - 1]]
<1>1. /\ s # <<>> /\ Head(s).op = "read" /\ Done(t)
      /\ before' = [before EXCEPT ![t] = Runs(memory, c.function)]
      /\ UNCHANGED <<memory, call, stored, log, operand>>
    BY DEF Steal, Read, Does
<1>a. buffer' = [buffer EXCEPT ![t] = buf]
    BY WholeReads
<1>2. /\ c # NoCall /\ IsTrampoline(c) /\ stored[t] = 0 /\ IsReading(s)
      /\ Keeps(s, c, stored[t], memory, operand, buffer[t], before[t], log)
      /\ OnItsWay(s, c, stored[t], memory, operand, buffer[t])
    <2>1. Head(s).op # "store" /\ IsReading(s)
        BY <1>1 DEF IsReading
    <2> QED BY <1>1, <2>1, InItsCall
<1>3. c.original # 0 /\ Head(s) = Op("read", c.function, c.size, "") /\ Working(Tail(s), c)
    BY <1>1, <1>2, HeadOnItsWay
<1>4. buf = [i \in 1..c.size |-> memory[c.function + (i - 1)]]
    <2>1. ThreadOK(s, c, stored[t], buffer[t], internal)
        BY DEF ThreadsInv
    <2>2. Head(s).addr = c.function /\ Head(s).size = c.size
        BY <1>1, <2>1, TailIsOK
    <2>3. c.function \in Nat /\ c.size \in Nat
        BY <1>1, <2>1, TailIsOK, HookAssumption
    <2>4. \A i \in 1..c.size : c.function + i - 1 = c.function + (i - 1)
        BY <2>3
    <2> QED BY <2>2, <2>4
<1> HIDE DEF buf
<1>5. Stolen(c, buf, Runs(memory, c.function), log)
    BY <1>1, <1>2, <1>4, StolenIs
<1>6. ~ IsReading(Tail(s))
    BY <1>1, ReadsNoMore
<1>7. buffer'[t] = buf /\ before'[t] = Runs(memory, c.function)
      /\ \A u \in Threads \ {t} : buffer'[u] = buffer[u] /\ before'[u] = before[u]
      /\ DOMAIN before' = DOMAIN before
    <2>1. buffer \in [Threads -> Seq(CellType)] /\ DOMAIN before = Threads
        BY DEF ThreadsInv, OriginalInv
    <2>2. buffer'[t] = buf /\ \A u \in Threads \ {t} : buffer'[u] = buffer[u]
        BY <1>a, <2>1
    <2>3. before'[t] = Runs(memory, c.function) /\ \A u \in Threads \ {t} : before'[u] = before[u]
        BY <1>1, <2>1
    <2>4. DOMAIN before' = DOMAIN before
        BY <1>1
    <2> QED BY <2>2, <2>3, <2>4
<1>8. Keeps(Tail(s), c, 0, memory, operand, buf, Runs(memory, c.function), log)
    <2>1. OnItsWay(Tail(s), c, 0, memory, operand, buf)
        BY <1>3 DEF OnItsWay
    <2> QED BY <1>5, <1>6, <2>1 DEF Keeps
<1>9. Keeps(Tail(s), c, 0, memory', operand', buffer'[t], before'[t], log)
    BY <1>1, <1>7, <1>8
<1>10. Moves(t, Tail(s), c, 0)
    BY <1>1, <1>2, ThreadsStay DEF Done, Moves
<1> QED BY <1>1, <1>2, <1>6, <1>7, <1>9, <1>10, OriginalMoves

(* The stores of a call.                                                   *)
LEMMA BytesAre ==
    ASSUME NEW t \in Threads, IsTrampoline(call[t])
    PROVE  /\ Head(todo[t]).arg = "stolen" => Bytes(t) = buffer[t]
           /\ Head(todo[t]).arg = call[t].kind =>
                 Bytes(t) = << <<call[t].kind, 0>>, <<"operand", operand[call[t].kind]>> >>
<1>1. call[t].kind \notin {"stolen", "nop"}
    BY KindsAre DEF IsTrampoline
<1> QED BY <1>1 DEF Bytes

LEMMA StoresOriginal ==
    ASSUME ThreadsInv, CountInv, HookedInv, OwnInv, OriginalInv, ~ disturbed, NEW t \in Threads, todo[t] # <<>>,
           Head(todo[t]).op = "store", UNCHANGED <<call, operand, log, buffer, before>>,
           NEW m \in Nat, stored[t] < m, m <= Head(todo[t]).size,
           Stores(memory, memory', Head(todo[t]).addr, stored[t], m, Bytes(t)),
           Moves(t, IF m = Head(todo[t]).size THEN Tail(todo[t]) ELSE todo[t], call[t],
                    IF m = Head(todo[t]).size THEN 0 ELSE m)
    PROVE  OriginalInv'
<1> DEFINE s == todo[t]
           c == call[t]
           prog == IF m = Head(s).size THEN Tail(s) ELSE s
           st == IF m = Head(s).size THEN 0 ELSE m
           buf == buffer[t]
           bytes == Bytes(t)
           range == Head(s).addr..(Head(s).addr + Head(s).size - 1)
<1>1. /\ c # NoCall /\ IsTrampoline(c) /\ ~ IsReading(s)
      /\ Keeps(s, c, stored[t], memory, operand, buf, before[t], log)
      /\ OnItsWay(s, c, stored[t], memory, operand, buf)
    <2>1. Head(s).op # "read"
        OBVIOUS
    <2> QED BY <2>1, InItsCall
<1>2. OriginOf(c) \subseteq 1..Cells
    <2>1. IsGiven(c, calls) /\ c.size \in Sizes /\ c.size >= JUMP_HOOK_SIZE
        BY <1>1, CallIsTrampoline DEF OwnInv
    <2> QED BY <2>1, OriginIsThere
<1>3. stored[t] \in Nat /\ Head(s) \in Ops
    BY StoredFits
<1>4. /\ Head(s).arg = "stolen" => bytes = buf
      /\ Head(s).arg = c.kind => bytes = << <<c.kind, 0>>, <<"operand", operand[c.kind]>> >>
    BY <1>1, BytesAre
<1> HIDE DEF bytes
<1>5. Stores(memory, memory', Head(s).addr, stored[t], m, bytes)
    BY DEF bytes
<1>6. OnItsWay(prog, c, st, memory', operand, buf) /\ range \subseteq CellsOf(c)
    BY <1>1, <1>2, <1>3, <1>4, <1>5, StoreOnItsWay
<1>7. ~ IsReading(prog)
    BY <1>1, ReadsNoMore
<1>8. Keeps(prog, c, st, memory', operand', buffer'[t], before'[t], log)
    <2> HIDE DEF prog, st
    <2> QED BY <1>1, <1>6, <1>7 DEF Keeps
<1>9. ASSUME NEW a \in 1..Cells, a \notin CellsOf(c) PROVE memory'[a] = memory[a]
    <2>1. a \notin range
        BY <1>6, <1>9
    <2>2. Head(s).addr \in Int /\ Head(s).size \in Int
        BY <1>3 DEF Ops
    <2>3. a < Head(s).addr + stored[t] \/ a > Head(s).addr + (m - 1)
        BY <1>3, <2>1, <2>2
    <2> QED BY <1>5, <2>3 DEF Stores
<1>10. Moves(t, prog, c, st) /\ \A u \in Threads \ {t} : buffer'[u] = buffer[u] /\ before'[u] = before[u]
    OBVIOUS
<1> HIDE DEF prog, st, range
<1> QED BY <1>1, <1>7, <1>8, <1>9, <1>10, OriginalMoves

LEMMA StoreOriginal ==
    ASSUME ThreadsInv, CellsInv, CountInv, HookedInv, OwnInv, OriginalInv, ~ disturbed, NEW t \in Threads,
           Store(t, Bytes(t)), UNCHANGED hook_vars
    PROVE  OriginalInv'
<1> DEFINE op == Head(todo[t])
           s == todo[t]
           c == call[t]
           bytes == Bytes(t)
           addr == op.addr + stored[t]
           m == stored[t] + 1
<1>1. /\ s # <<>> /\ op.op = "store" /\ UNCHANGED <<call, operand, log, disturbed, buffer, before>>
    BY DEF Store, Does, hook_vars
<1>2. stored[t] \in Nat /\ stored[t] < op.size /\ op.addr \in Int /\ op.size \in Int
    BY <1>1, StoredFits DEF Ops
<1>4. CASE UNCHANGED <<memory, stored, todo>>
    BY <1>1, <1>4 DEF OriginalInv, Touched
<1>5. ASSUME memory' = [memory EXCEPT ![addr] = bytes[stored[t] + 1]],
             IF stored[t] + 1 < op.size
             THEN stored' = [stored EXCEPT ![t] = @ + 1] /\ UNCHANGED todo
             ELSE stored' = [stored EXCEPT ![t] = 0] /\ Done(t)
      PROVE  OriginalInv'
    <2>1. memory \in [1..Cells -> CellType]
        BY DEF CellsInv
    <2>2. m \in Nat /\ stored[t] < m /\ m <= op.size /\ addr \in Int
        BY <1>2
    <2>3. Stores(memory, memory', op.addr, stored[t], m, bytes)
        <3> HIDE DEF bytes
        <3>1. \A i \in (stored[t] + 1)..m : i = stored[t] + 1 /\ op.addr + (i - 1) = addr
            BY <1>2
        <3>2. \A a \in 1..Cells : a < op.addr + stored[t] \/ a > op.addr + (m - 1) => a # addr
            BY <1>2
        <3> HIDE DEF addr
        <3>3. \A a \in 1..Cells : a # addr => memory'[a] = memory[a]
            BY <1>5, <2>1
        <3>4. addr \in 1..Cells => memory'[addr] = bytes[stored[t] + 1]
            BY <1>5, <2>1
        <3> QED BY <3>1, <3>2, <3>3, <3>4 DEF Stores
    <2>4. call' = [call EXCEPT ![t] = c] /\ todo = [todo EXCEPT ![t] = s]
        BY <1>1, ThreadsStay
    <2>5. Moves(t, IF m = op.size THEN Tail(s) ELSE s, c, IF m = op.size THEN 0 ELSE m)
        <3>1. CASE stored[t] + 1 < op.size
            <4>1. m # op.size
                BY <1>2, <3>1
            <4>2. stored' = [stored EXCEPT ![t] = m] /\ todo' = [todo EXCEPT ![t] = s]
                BY <1>5, <2>4, <3>1
            <4> QED BY <2>4, <4>1, <4>2 DEF Moves
        <3>2. CASE ~ (stored[t] + 1 < op.size)
            <4>1. m = op.size
                BY <1>2, <3>2
            <4>2. stored' = [stored EXCEPT ![t] = 0] /\ todo' = [todo EXCEPT ![t] = Tail(s)]
                BY <1>5, <3>2 DEF Done
            <4> QED BY <2>4, <4>1, <4>2 DEF Moves
        <3> QED BY <3>1, <3>2
    <2> HIDE DEF m
    <2> QED BY <1>1, <2>2, <2>3, <2>5, StoresOriginal
<1> HIDE DEF bytes, addr
<1>6. \/ UNCHANGED <<memory, stored, todo>>
      \/ /\ memory' = [memory EXCEPT ![addr] = bytes[stored[t] + 1]]
         /\ IF stored[t] + 1 < op.size
            THEN stored' = [stored EXCEPT ![t] = @ + 1] /\ UNCHANGED todo
            ELSE stored' = [stored EXCEPT ![t] = 0] /\ Done(t)
    BY DEF Store, bytes, addr
<1> QED BY <1>4, <1>5, <1>6

LEMMA StoreExternalOriginal ==
    ASSUME ThreadsInv, CellsInv, CountInv, HookedInv, OwnInv, OriginalInv, ~ disturbed, ~ disturbed',
           NEW t \in Threads,
           StoreExternal(t, Bytes(t)), UNCHANGED hook_vars
    PROVE  OriginalInv'
<1> DEFINE op == Head(todo[t])
           s == todo[t]
           c == call[t]
           bytes == Bytes(t)
           range == op.addr..(op.addr + op.size - 1)
<1>1. /\ s # <<>> /\ op.op = "store" /\ ~ internal
      /\ UNCHANGED <<call, operand, log, stored, buffer, before>>
      /\ Done(t)
    BY DEF StoreExternal, Does, hook_vars
<1>3. memory' = [a \in 1..Cells |-> IF a \in range THEN bytes[a - op.addr + 1] ELSE memory[a]]
    BY WholeStores
<1>2. stored[t] = 0 /\ op.addr \in Int /\ op.size \in Nat /\ op.size > 0
    <2>1. stored[t] \in Nat /\ (stored[t] > 0 => internal)
        BY DEF ThreadsInv, ThreadOK
    <2>2. stored[t] < op.size /\ op \in Ops
        BY <1>1, StoredFits
    <2>3. op.addr \in Int /\ op.size \in Int
        BY <2>2 DEF Ops
    <2> QED BY <1>1, <2>1, <2>2, <2>3
<1>4. Moves(t, Tail(s), c, 0)
    <2>1. stored' = [stored EXCEPT ![t] = 0] /\ call' = [call EXCEPT ![t] = c]
        BY <1>1, <1>2, ThreadsStay
    <2> QED BY <1>1, <2>1 DEF Moves, Done
<1> HIDE DEF bytes
<1>5. \A a \in 1..Cells : memory'[a] = IF a \in range THEN bytes[a - op.addr + 1] ELSE memory[a]
    BY <1>3
<1>6. Stores(memory, memory', op.addr, stored[t], op.size, bytes)
    <2>1. \A i \in (stored[t] + 1)..op.size :
              op.addr + (i - 1) \in range /\ (op.addr + (i - 1)) - op.addr + 1 = i
        BY <1>2
    <2>2. \A a \in 1..Cells : a < op.addr + stored[t] \/ a > op.addr + (op.size - 1) => a \notin range
        BY <1>2
    <2> HIDE DEF range, op
    <2> QED BY <1>5, <2>1, <2>2 DEF Stores
<1> DEFINE m == op.size
<1>7. m \in Nat /\ stored[t] < m /\ m <= op.size /\ m = op.size
    BY <1>2
<1>8. Moves(t, IF m = Head(todo[t]).size THEN Tail(todo[t]) ELSE todo[t], call[t],
               IF m = Head(todo[t]).size THEN 0 ELSE m)
    BY <1>4
<1>9. Stores(memory, memory', Head(todo[t]).addr, stored[t], m, Bytes(t))
    BY <1>6 DEF bytes
<1> HIDE DEF m
<1> QED BY <1>1, <1>7, <1>8, <1>9, StoresOriginal

LEMMA CallOriginal ==
    ASSUME ThreadsInv, CountInv, HookedInv, OriginalInv, ~ disturbed, ~ disturbed', NEW t \in Threads,
           NEW function \in Functions, NEW size \in Sizes, NEW kind \in Kinds, NEW keep \in BOOLEAN,
           Call(t, function, size, kind, keep)
    PROVE  OriginalInv'
<1> DEFINE target == -(calls + 1)
           original == Allocated(calls + 1)
           c == [NoCall EXCEPT !.function = function, !.size = size, !.target = target,
                               !.kind = kind, !.original = IF keep THEN original ELSE 0]
           prog == IF keep THEN trampoline(kind, function, target, size, original)
                           ELSE jmp(kind, function, target, size)
<1>1. /\ call' = [call EXCEPT ![t] = c] /\ todo' = [todo EXCEPT ![t] = prog]
      /\ UNCHANGED <<memory, stored, operand, log, buffer, before>> /\ call[t] = NoCall
      /\ size >= JUMP_HOOK_SIZE /\ calls < MaxCalls /\ Others(t, function) = {}
    BY DEF Call
<1>2. calls + 1 \in 1..MaxCalls /\ MaxCalls # 0 /\ target \in Int
    BY <1>1, HookAssumption DEF CountInv
<1> HIDE DEF target
<1>3. original \in Nat /\ original > CodeSize /\ CodeSize \in Nat
    BY <1>1, <1>2, Rooms, MemoryAssumption
<1> HIDE DEF original
<1>4. c.function = function /\ c.size = size /\ c.target = target /\ c.kind = kind
      /\ c.original = IF keep THEN original ELSE 0
    BY DEF NoCall
<1> HIDE DEF c
<1>5. c.original \in Int /\ (keep => c.original # 0 /\ c.original = original) /\ (~ keep => c.original = 0)
    BY <1>3, <1>4
<1>6. IsTrampoline(c)
    BY <1>1, <1>2, <1>4, <1>5 DEF IsTrampoline
<1>7. keep => Waiting(prog, c) /\ prog # <<>> /\ Head(prog).op = "read"
    <2>1. Waiting(trampoline(c.kind, c.function, c.target, c.size, c.original), c)
        BY <1>6, TrampolineIsWaiting
    <2>2. keep => prog = trampoline(c.kind, c.function, c.target, c.size, c.original)
        BY <1>4, <1>5
    <2>3. keep => Waiting(prog, c)
        BY <2>1, <2>2
    <2> HIDE DEF prog
    <2> QED BY <1>6, <2>3, WaitingIs
<1>8. ~ keep => Calm(prog, c)
    BY <1>4, <1>6, JmpIsCalm
<1> HIDE DEF prog
<1>9. stored[t] = 0
    <2>1. ThreadOK(todo[t], call[t], stored[t], buffer[t], internal)
        BY DEF ThreadsInv
    <2> QED BY <1>1, <2>1 DEF ThreadOK
<1>10. NotYet(function, log, Len(log)) \/ GoesToItsTarget(memory, log, function)
    <2>1. CASE CallsOf(function) = {}
        BY <2>1 DEF CallsOf, NotYet
    <2>2. CASE CallsOf(function) # {}
        <3>1. \A u \in Threads : u # t => call[u].function # function
            BY <1>1 DEF Others
        <3>2. call[t].function # function
            BY <1>1, HookAssumption DEF NoCall
        <3>3. \A u \in Threads : call[u].function # function
            BY <3>1, <3>2
        <3> QED BY <2>2, <3>3 DEF HookedInv
    <2> QED BY <2>1, <2>2
<1>11. Keeps(prog, c, 0, memory, operand, buffer[t], before[t], log)
    <2>1. OnItsWay(prog, c, 0, memory, operand, buffer[t])
        BY <1>5, <1>7, <1>8 DEF OnItsWay
    <2>2. c.original # 0 => IsReading(prog)
        BY <1>5, <1>7 DEF IsReading
    <2> QED BY <1>4, <1>10, <2>1, <2>2 DEF Keeps
<1>12. Moves(t, prog, c, 0)
    <2>1. stored' = [stored EXCEPT ![t] = 0]
        BY <1>1, <1>9, ThreadsStay
    <2> QED BY <1>1, <2>1 DEF Moves
<1>13. /\ todo'[t] = prog /\ call'[t] = c /\ stored'[t] = 0
       /\ \A u \in Threads : u # t =>
             todo'[u] = todo[u] /\ call'[u] = call[u] /\ stored'[u] = stored[u]
    BY <1>12, MovesAre
<1>14. \A u \in Threads : call'[u] # NoCall =>
           Keeps(todo'[u], call'[u], stored'[u], memory', operand', buffer'[u], before'[u], log')
    <2> TAKE u \in Threads
    <2> HAVE call'[u] # NoCall
    <2>1. CASE u = t
        BY <1>1, <1>11, <1>13, <2>1
    <2>2. CASE u # t
        <3>1. Keeps(todo[u], call[u], stored[u], memory, operand, buffer[u], before[u], log)
            BY <1>13, <2>2 DEF OriginalInv
        <3> QED BY <1>1, <1>13, <2>2, <3>1
    <2> QED BY <2>1, <2>2
<1>15. ASSUME NEW a \in 1..CodeSize, ~ Touched(a)' PROVE memory'[a] = FirstMemory[a]
    <2>1. ~ Touched(a)
        BY <1>1, <1>13, <1>15 DEF Touched
    <2> QED BY <1>1, <2>1 DEF OriginalInv
<1>16. /\ DOMAIN before' = Threads
       /\ \A i \in 1..Len(log') : log'[i].function \in Functions /\ IsHook(log'[i]) /\ Kept(memory', log', i)
    BY <1>1 DEF OriginalInv
<1> QED BY <1>14, <1>15, <1>16 DEF OriginalInv

(* What a call of trampoline has made when it returns.                     *)
LEMMA DoneIsMade ==
    ASSUME NEW c, IsTrampoline(c), c.original # 0, NEW st, NEW mem, NEW opr, NEW buf,
           OnItsWay(<<>>, c, st, mem, opr, buf)
    PROVE  Copied(mem, c, buf, c.size) /\ BackWritten(mem, c, JUMP_HOOK_SIZE)
<1>1. ~ Waiting(<<>>, c)
    BY WaitingIs
<1>2. ~ Working(<<>>, c)
    BY WorkingIs
<1>3. PICK k \in 1..8 : Moving(k, <<>>, c, st, mem, opr, buf)
    BY <1>1, <1>2 DEF OnItsWay
<1>4. <<>> = Left(c, k)
    BY <1>3 DEF Moving
<1>5. k = 8
    BY <1>4, LeftHead
<1>6. CopiedAt(k, c, st) = c.size /\ WrittenAt(k, st) = JUMP_HOOK_SIZE
    BY <1>5 DEF CopiedAt, WrittenAt
<1> QED BY <1>3, <1>6 DEF Moving

(* The calls that have returned are one more, of another function.         *)
LEMMA PastGrows ==
    ASSUME NEW past, NEW past2, Len(past) \in Nat, Len(past2) = Len(past) + 1,
           \A i \in 1..Len(past) : past2[i] = past[i], NEW function, past2[Len(past) + 1].function # function
    PROVE  /\ NotYet(function, past, Len(past)) => NotYet(function, past2, Len(past2))
           /\ \A mem : GoesToItsTarget(mem, past, function) => GoesToItsTarget(mem, past2, function)
<1>1. \A i \in 1..Len(past2) : i \in 1..Len(past) \/ i = Len(past) + 1
    OBVIOUS
<1>2. ASSUME NotYet(function, past, Len(past)) PROVE NotYet(function, past2, Len(past2))
    BY <1>1, <1>2 DEF NotYet
<1>3. ASSUME NEW mem, GoesToItsTarget(mem, past, function) PROVE GoesToItsTarget(mem, past2, function)
    <2>1. PICK i \in 1..Len(past) :
              /\ \A j \in 1..Len(past) : past[j].function = function => j <= i
              /\ past[i].function = function /\ IsHook(past[i]) /\ Written(mem, past[i])
        BY <1>3 DEF GoesToItsTarget
    <2>2. i \in 1..Len(past2) /\ past2[i] = past[i]
        OBVIOUS
    <2>3. \A j \in 1..Len(past2) : past2[j].function = function => j <= i
        BY <1>1, <2>1
    <2> QED BY <2>1, <2>2, <2>3 DEF GoesToItsTarget
<1> QED BY <1>2, <1>3

LEMMA ReturnOriginal ==
    ASSUME ThreadsInv, CountInv, HookedInv, OriginalInv, ~ disturbed, NEW t \in Threads, Return(t)
    PROVE  OriginalInv'
<1> DEFINE c == call[t]
           n == Len(log)
           d == log'[n + 1]
           buf == buffer[t]
<1>1. /\ c # NoCall /\ todo[t] = <<>> /\ before' = [before EXCEPT ![t] = <<>>]
      /\ buffer' = [buffer EXCEPT ![t] = <<>>]
      /\ UNCHANGED <<memory, todo, stored, operand>>
    BY DEF Return
<1>2. /\ d.function = c.function /\ d.target = c.target /\ d.kind = c.kind
      /\ d.size = c.size /\ d.original = c.original /\ d.before = before[t]
      /\ d.movable = \A i \in 1..Len(buf) : buf[i][1] # "relative"
    BY ZenonT(30), ReturnIs
<1>3. /\ Len(log) \in Nat /\ Len(log') = Len(log) + 1
      /\ \A i \in 1..Len(log) : log'[i] = log[i]
      /\ call'[t] = NoCall /\ \A u \in Threads : u # t => call'[u] = call[u]
    BY ReturnIs
<1>4. /\ IsTrampoline(c) /\ c.function \in Functions /\ c.size \in Sizes /\ c.size >= JUMP_HOOK_SIZE
      /\ c.kind \in Kinds /\ c.target \in Int
      /\ GoesOn(todo[t], c, stored[t], memory, operand)
      /\ \A u \in Threads \ {t} : call[u] # NoCall => call[u].function # c.function
    BY <1>1, CallIsTrampoline, InCall
<1>5. /\ Keeps(todo[t], c, stored[t], memory, operand, buf, before[t], log)
      /\ \A i \in 1..Len(log) : log[i].function \in Functions /\ IsHook(log[i]) /\ Kept(memory, log, i)
      /\ \A a \in 1..CodeSize : ~ Touched(a) => memory[a] = FirstMemory[a]
      /\ DOMAIN before = Threads
    BY <1>1 DEF OriginalInv
<1>6. ~ IsReading(todo[t])
    BY <1>1 DEF IsReading
<1> HIDE DEF d
<1>7. IsHook(d)
    <2>1. \A i \in 1..Len(<<>>) : FALSE
        BY EmptySeq
    <2>2. c.target < 0
        BY <1>4 DEF GoesOn
    <2> QED BY <1>2, <1>4, <2>2 DEF IsHook
<1>8. log'[n + 1] = d /\ \A i \in 1..Len(log') : i \in 1..n \/ i = n + 1
    BY <1>3 DEF d
<1>9. Kept(memory, log', n + 1)
    <2> SUFFICES ASSUME d.original # 0, d.movable
                 PROVE  \E b :
                    /\ Copied(memory, d, b, d.size) /\ BackWritten(memory, d, JUMP_HOOK_SIZE)
                    /\ \/ Straight(d, b, d.before) /\ NotYet(d.function, log', (n + 1) - 1)
                       \/ Jumped(b, d.before)
        BY <1>8 DEF Kept
    <2>1. OnItsWay(<<>>, c, stored[t], memory, operand, buf) /\ Stolen(c, buf, before[t], log)
        BY <1>1, <1>2, <1>5, <1>6 DEF Keeps
    <2>2. Copied(memory, c, buf, c.size) /\ BackWritten(memory, c, JUMP_HOOK_SIZE)
        BY <1>2, <1>4, <2>1, DoneIsMade
    <2>3. Copied(memory, d, buf, d.size) /\ BackWritten(memory, d, JUMP_HOOK_SIZE)
        BY <1>2, <2>2 DEF Copied, BackWritten, BackOperand
    <2>4. buf[1][1] # "relative"
        <3>1. Len(buf) = c.size /\ c.size \in Nat /\ c.size >= 2
            BY <1>4, <2>1, HookAssumption DEF Stolen, JUMP_HOOK_SIZE
        <3>2. 1 \in 1..Len(buf)
            BY <3>1
        <3> QED BY <1>2, <3>2
    <2>5. CASE Straight(c, buf, before[t]) /\ NotYet(c.function, log, Len(log))
        <3>1. Straight(d, buf, d.before)
            BY <1>2, <2>5 DEF Straight
        <3>2. (n + 1) - 1 = n
            BY <1>3
        <3>3. NotYet(d.function, log', (n + 1) - 1)
            BY <1>2, <1>3, <2>5, <3>2 DEF NotYet
        <3> QED BY <2>3, <3>1, <3>3
    <2>6. CASE Jumped(buf, before[t])
        BY <1>2, <2>3, <2>6
    <2> QED BY <2>1, <2>4, <2>5, <2>6 DEF Stolen
<1>10. \A i \in 1..Len(log') :
           log'[i].function \in Functions /\ IsHook(log'[i]) /\ Kept(memory', log', i)
    <2> TAKE i \in 1..Len(log')
    <2>1. CASE i = n + 1
        BY <1>1, <1>2, <1>4, <1>7, <1>8, <1>9, <2>1
    <2>2. CASE i \in 1..n
        <3>1. log'[i] = log[i] /\ log[i].function \in Functions /\ IsHook(log[i]) /\ Kept(memory, log, i)
            BY <1>3, <1>5, <2>2
        <3>2. \A f : NotYet(f, log, i - 1) => NotYet(f, log', i - 1)
            <4>1. \A j \in 1..(i - 1) : log'[j] = log[j]
                BY <1>3, <2>2
            <4> QED BY <4>1 DEF NotYet
        <3>3. Kept(memory, log', i)
            BY <3>1, <3>2 DEF Kept
        <3> QED BY <1>1, <3>1, <3>3
    <2> QED BY <1>8, <2>1, <2>2
<1>11. ASSUME NEW u \in Threads, call'[u] # NoCall
       PROVE  Keeps(todo'[u], call'[u], stored'[u], memory', operand', buffer'[u], before'[u], log')
    <2>1. u # t /\ call'[u] = call[u] /\ call[u] # NoCall
        BY <1>3, <1>11
    <2>2. buffer'[u] = buffer[u] /\ before'[u] = before[u]
        <3>1. buffer \in [Threads -> Seq(CellType)]
            BY DEF ThreadsInv
        <3>2. buffer'[u] = buffer[u]
            BY <1>1, <2>1, <3>1
        <3> QED BY <1>1, <1>5, <2>1, <3>2
    <2>3. Keeps(todo[u], call[u], stored[u], memory, operand, buffer[u], before[u], log)
        BY <2>1 DEF OriginalInv
    <2>4. d.function # call[u].function
        BY <1>2, <1>4, <2>1
    <2>5. /\ NotYet(call[u].function, log, Len(log)) => NotYet(call[u].function, log', Len(log'))
          /\ GoesToItsTarget(memory, log, call[u].function) => GoesToItsTarget(memory, log', call[u].function)
        BY <1>3, <1>8, <2>4, PastGrows
    <2>6. \A b, bef : Stolen(call[u], b, bef, log) => Stolen(call[u], b, bef, log')
        BY <2>5 DEF Stolen
    <2>7. Keeps(todo[u], call[u], stored[u], memory, operand, buffer[u], before[u], log')
        BY <2>3, <2>5, <2>6 DEF Keeps
    <2> QED BY <1>1, <2>1, <2>2, <2>7
<1>12. ASSUME NEW a \in 1..CodeSize, ~ Touched(a)' PROVE memory'[a] = FirstMemory[a]
    <2>1. CodeOf(d) = CodeOf(c)
        BY <1>2 DEF CodeOf
    <2>2. n + 1 \in 1..Len(log') /\ \A i \in 1..n : i \in 1..Len(log')
        BY <1>3
    <2>3. a \notin CodeOf(c) /\ \A i \in 1..n : a \notin CodeOf(log[i])
        BY <1>3, <1>8, <1>12, <2>1, <2>2 DEF Touched
    <2>4. \A u \in Threads : call[u] # NoCall /\ ~ IsReading(todo[u]) => a \notin CodeOf(call[u])
        BY <1>1, <1>3, <1>12, <2>3 DEF Touched
    <2>5. ~ Touched(a)
        BY <2>3, <2>4 DEF Touched
    <2> QED BY <1>1, <1>5, <2>5
<1>13. DOMAIN before' = Threads
    BY <1>1, <1>5
<1> QED BY <1>10, <1>11, <1>12, <1>13 DEF OriginalInv

LEMMA OriginalInit == HookInit => OriginalInv
<1> SUFFICES ASSUME HookInit PROVE OriginalInv
    OBVIOUS
<1>1. /\ \A t \in Threads : call[t] = NoCall
      /\ DOMAIN before = Threads
    BY DEF HookInit
<1>2. \A i \in 1..Len(log) : FALSE
    BY EmptySeq DEF HookInit
<1>3. memory = FirstMemory
    BY DEF HookInit, FirstMemory
<1> QED BY <1>1, <1>2, <1>3 DEF OriginalInv

LEMMA OriginalStep ==
    ASSUME ThreadsInv, CellsInv, CountInv, PagesInv, HookedInv, OwnInv, OriginalInv, [HookNext]_hooking_vars
    PROVE  OriginalInv'
<1>1. CASE disturbed'
    BY <1>1 DEF OriginalInv
<1>2. CASE UNCHANGED hooking_vars
    BY <1>2 DEF OriginalInv, Touched, hooking_vars, hook_vars
<1> SUFFICES ASSUME ~ disturbed', HookNext PROVE OriginalInv'
    BY <1>1, <1>2
<1>3. ~ disturbed
    <2>1. ASSUME NEW t, NEW size, Refuse(t, size) PROVE ~ disturbed
        BY <2>1 DEF Refuse
    <2>2. ASSUME NEW t, NEW function, NEW size, NEW kind, NEW keep, Call(t, function, size, kind, keep)
          PROVE  ~ disturbed
        BY <2>2 DEF Call
    <2>3. ASSUME NEW t, Memcpy(t) PROVE ~ disturbed
        BY <2>3 DEF Memcpy
    <2>4. ASSUME NEW t, Alloc(t) PROVE ~ disturbed
        BY <2>4 DEF Alloc
    <2>5. ASSUME NEW t, Steal(t) PROVE ~ disturbed
        BY <2>5 DEF Steal, Read
    <2>6. ASSUME NEW t, WriteStep(t) PROVE ~ disturbed
        BY <2>6 DEF WriteStep, Protect, Restore, ProtectFails, Store, StoreExternal
    <2>7. ASSUME NEW t, Return(t) PROVE ~ disturbed
        BY <2>7 DEF Return
    <2> QED BY Zenon, <2>1, <2>2, <2>3, <2>4, <2>5, <2>6, <2>7 DEF HookNext
<1>4. ASSUME NEW t \in Threads, NEW size \in Sizes, Refuse(t, size) PROVE OriginalInv'
    BY <1>3, <1>4 DEF Refuse, OriginalInv, Touched
<1>5. ASSUME NEW t \in Threads, NEW function \in Functions, NEW size \in Sizes, NEW kind \in Kinds,
             NEW keep \in BOOLEAN, Call(t, function, size, kind, keep)
      PROVE  OriginalInv'
    BY <1>3, <1>5, CallOriginal
<1>6. ASSUME NEW t \in Threads, Memcpy(t) PROVE OriginalInv'
    BY <1>3, <1>6, MemcpyOriginal
<1>7. ASSUME NEW t \in Threads, Alloc(t) PROVE OriginalInv'
    BY <1>3, <1>7, AllocOriginal
<1>8. ASSUME NEW t \in Threads, Steal(t) PROVE OriginalInv'
    BY <1>3, <1>8, StealOriginal
<1>9. ASSUME NEW t \in Threads, WriteStep(t) PROVE OriginalInv'
    <2>1. ~ ProtectFails(t)
        BY DEF ProtectFails
    <2> QED BY <1>3, <1>9, <2>1, ProtectOriginal, StoreOriginal, StoreExternalOriginal DEF WriteStep
<1>10. ASSUME NEW t \in Threads, Return(t) PROVE OriginalInv'
    BY <1>3, <1>10, ReturnOriginal
<1> QED BY Zenon, <1>4, <1>5, <1>6, <1>7, <1>8, <1>9, <1>10 DEF HookNext

(* What was copied is the beginning of the function, and behind it the     *)
(* function is still there; or it is the jump of the last hook.            *)
LEMMA OriginalIs ==
    ASSUME ThreadsInv, CellsInv, CountInv, HookedInv, OwnInv, OriginalInv
    PROVE  OriginalBehavesAsBefore
<1> SUFFICES ASSUME ~ disturbed, NEW i \in 1..Len(log), log[i].original # 0, log[i].movable, Covers(i)
             PROVE  LET run == Runs(memory, log[i].original)
                    IN  \/ run = log[i].before
                        \/ /\ Len(log[i].before) > log[i].size
                           /\ run = Through(log[i].before, log[i].size, log[i].kind)
    BY DEF OriginalBehavesAsBefore
<1> DEFINE c == log[i]
           f == c.function
<1>1. /\ f \in Functions /\ IsHook(c) /\ Kept(memory, log, i) /\ c.original # 0 /\ c.movable
      /\ memory \in [1..Cells -> CellType]
    BY DEF OriginalInv, CellsInv
<1>2. c.size \in Sizes /\ c.size >= JUMP_HOOK_SIZE /\ IsGiven(c, calls)
    BY <1>1 DEF IsHook, OwnInv
<1>3. c.original \in Nat /\ c.original >= 1 /\ (c.original + c.size) + 1 <= Cells
    BY <1>1, <1>2, OriginFits
<1>4. Len(log) \in Nat /\ i \in Nat
    BY LenProperties DEF CountInv
<1>5. PICK buf :
          /\ Copied(memory, c, buf, c.size) /\ BackWritten(memory, c, JUMP_HOOK_SIZE)
          /\ \/ Straight(c, buf, c.before) /\ NotYet(f, log, i - 1)
             \/ Jumped(buf, c.before)
    BY <1>1 DEF Kept
<1>6. /\ \A j \in 1..Len(log) : log[j].function = f /\ j > i => log[j].size <= c.size
      /\ \A t \in Threads : call[t].function = f => call[t].size <= c.size
    BY DEF Covers, CallsOf
<1> HIDE DEF c, f
<1>7. CASE Straight(c, buf, c.before) /\ NotYet(f, log, i - 1)
    <2>1. f \in Nat /\ c.size \in Nat /\ End(f) \in f..CodeSize /\ (f + c.size) - 1 <= End(f)
        BY <1>1, <1>2, EndIs
    <2> DEFINE from == f + c.size
    <2>2. from \in f..(End(f) + 1)
        BY <2>1
    <2>3. \A j \in 1..Len(log) : log[j].function = f => f + log[j].size <= from
        <3> TAKE j \in 1..Len(log)
        <3> HAVE log[j].function = f
        <3>1. ~ (j \in 1..(i - 1))
            BY <1>7 DEF NotYet
        <3>2. log[j].size \in Nat
            BY HookAssumption DEF OriginalInv, IsHook
        <3>3. log[j].size <= c.size
            <4>1. CASE j = i
                BY <2>1, <4>1 DEF c
            <4>2. CASE j > i
                BY <1>6, <4>2
            <4> QED BY <1>4, <3>1, <4>1, <4>2
        <3> QED BY <2>1, <3>2, <3>3
    <2>4. \A t \in Threads : call[t] # NoCall /\ ~ IsReading(todo[t]) /\ call[t].function = f =>
              f + call[t].size <= from
        <3> TAKE t \in Threads
        <3> HAVE call[t] # NoCall /\ ~ IsReading(todo[t]) /\ call[t].function = f
        <3>1. call[t].size \in Sizes
            BY CallIsTrampoline
        <3>2. call[t].size \in Nat /\ call[t].size <= c.size
            BY <1>6, <3>1, HookAssumption
        <3> QED BY <2>1, <3>2
    <2> HIDE DEF from
    <2>5. \A a \in from..End(f) : memory[a] = FirstMemory[a]
        BY <1>1, <1>2, <2>2, <2>3, <2>4, NobodyWrote
    <2>6. \A a \in (c.function + c.size)..End(c.function) : memory[a] = FirstMemory[a]
        BY <2>5 DEF from, f
    <2>7. c.function \in Functions /\ c.original \in Int
        BY <1>1, <1>3 DEF f
    <2>8. LET run == Runs(memory, c.original)
          IN  run = c.before \/ (Len(c.before) > c.size /\ run = Through(c.before, c.size, c.kind))
        BY <1>1, <1>3, <1>5, <1>7, <2>6, <2>7, CopyRuns
    <2> QED BY <2>8 DEF c
<1>8. CASE Jumped(buf, c.before)
    <2>1. PICK target \in Int :
              /\ target < 0 /\ c.before = Loads("absolute") \o << <<"hook", target>> >>
              /\ buf[1] = <<"absolute", 0>> /\ buf[2] = <<"operand", target>>
        BY <1>8 DEF Jumped
    <2>2. c.size \in Nat /\ c.size >= 2
        BY <1>2, HookAssumption DEF JUMP_HOOK_SIZE
    <2>3. 1 \in 1..c.size /\ 2 \in 1..c.size
        BY <2>2
    <2>4. memory[c.original + (1 - 1)] = buf[1] /\ memory[c.original + (2 - 1)] = buf[2]
        BY <1>5, <2>3 DEF Copied
    <2>5. c.original + (1 - 1) = c.original /\ c.original + (2 - 1) = c.original + 1 /\ c.original \in 1..Cells
        BY <1>3, <2>2, MemoryAssumption
    <2>6. memory[c.original] = <<"absolute", 0>> /\ memory[c.original + 1] = <<"operand", target>>
        BY <2>1, <2>4, <2>5
    <2>7. Runs(memory, c.original) = Loads("absolute") \o << <<"hook", target>> >>
        BY <1>1, <2>1, <2>5, <2>6, JumpRuns
    <2> QED BY <2>1, <2>7 DEF c
<1> QED BY <1>5, <1>7, <1>8

(* What trampoline has returned does what the function did when its bytes  *)
(* were stolen, but for the register an absolute jump back loads, if no    *)
(* two threads have met and no system call has failed: nobody writes to    *)
(* the memory of a call but the call itself, and behind the bytes a call   *)
(* has moved the function is what it was, as long as no later call for it  *)
(* overwrites more.                                                        *)
THEOREM OriginalsBehave == HookSpec => []OriginalBehavesAsBefore
<1> DEFINE Inv == ThreadsInv /\ CellsInv /\ CountInv /\ PagesInv
           IInv == HookedInv /\ OwnInv /\ OriginalInv
<1>1. HookSpec => []Inv
    BY HookInvHolds, PagesHold, PTL
<1>2. HookInit => IInv
    BY HookedInit, OwnInit, OriginalInit
<1>3. IInv /\ Inv /\ [HookNext]_hooking_vars => IInv'
    BY HookedStep, OwnStep, OriginalStep
<1>4. IInv /\ Inv => OriginalBehavesAsBefore
    BY OriginalIs
<1> HIDE DEF Inv, IInv
<1> QED BY <1>1, <1>2, <1>3, <1>4, PTL DEF HookSpec

=============================================================================
