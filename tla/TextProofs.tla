----------------------------- MODULE TextProofs -----------------------------
(***************************************************************************)
(* Proofs about the pure algorithms on texts, whatever the texts and       *)
(* however long they are: what a settings file holds is read back, and     *)
(* what is cut is cut where it should be.                                  *)
(***************************************************************************)
EXTENDS MCText, NaturalsInduction, WellFoundedInduction, SequenceTheorems, FiniteSetTheorems,
        TLAPS

(* Induction: a set of numbers that holds 0, and with a number the next    *)
(* one, holds them all.                                                    *)
LEMMA UpTo ==
    ASSUME NEW n \in Nat, NEW S, 0 \in S,
           \A i \in 1..n : i - 1 \in S => i \in S
    PROVE  0..n \subseteq S
<1> DEFINE Bad == {i \in 0..n : i \notin S}
<1>1. SUFFICES ASSUME Bad # {} PROVE FALSE
    OBVIOUS
<1>2. Bad \subseteq Nat
    OBVIOUS
<1>3. PICK i \in Bad : \A j \in Bad : ~ (<<j, i>> \in OpToRel(<, Nat))
    <2> HIDE DEF Bad
    <2>1. \E x \in Bad : \A y \in Bad : ~ (<<y, x>> \in OpToRel(<, Nat))
        BY <1>1, <1>2, NatLessThanWellFounded, WFMin
    <2> QED BY <2>1
<1>4. i \in 0..n /\ i \notin S
    BY <1>3
<1>5. i \in 1..n /\ i - 1 \in 0..n /\ i - 1 \in Nat /\ i \in Nat /\ i - 1 < i
    BY <1>4
<1>6. i - 1 \in S
    <2>1. <<i - 1, i>> \in OpToRel(<, Nat)
        BY <1>5 DEF OpToRel
    <2>2. i - 1 \notin Bad
        BY <1>3, <2>1
    <2> QED BY <1>5, <2>2
<1> QED BY <1>4, <1>5, <1>6

(* A value that is computed in n steps from a first one is computed: the   *)
(* function of its intermediate values exists, and there is no other.      *)
Steps(n, T) == [1..n -> [T -> T]]
Computes(f, n, T, first, step) ==
    /\ f \in [0..n -> T]
    /\ f[0] = first /\ \A i \in 1..n : f[i] = step[i][f[i - 1]]

LEMMA Computed ==
    ASSUME NEW n \in Nat, NEW T, NEW first \in T, NEW step \in Steps(n, T)
    PROVE  \E f : Computes(f, n, T, first, step)
<1> USE DEF Steps
<1> DEFINE Good(f, m) == f[0] = first /\ \A i \in 1..m : f[i] = step[i][f[i - 1]]
           S == {m \in 0..n : \E f \in [0..n -> T] : Good(f, m)}
<1>1. 0 \in S
    <2> DEFINE f0 == [i \in 0..n |-> first]
    <2>1. f0 \in [0..n -> T] /\ f0[0] = first
        OBVIOUS
    <2>2. \A i \in 1..0 : f0[i] = step[i][f0[i - 1]]
        OBVIOUS
    <2> HIDE DEF f0
    <2> QED BY <2>1, <2>2
<1>2. ASSUME NEW m \in 1..n, m - 1 \in S PROVE m \in S
    <2>1. PICK f \in [0..n -> T] : Good(f, m - 1)
        BY <1>2
    <2> DEFINE next == step[m][f[m - 1]]
               g == [f EXCEPT ![m] = next]
    <2>2. next \in T
        OBVIOUS
    <2>3. g \in [0..n -> T] /\ g[0] = first
        BY <2>1, <2>2
    <2>4. \A i \in 1..m : g[i] = step[i][g[i - 1]]
        <3> TAKE i \in 1..m
        <3>1. CASE i = m
            <4>1. g[m] = next /\ g[m - 1] = f[m - 1]
                BY <2>1, <2>2
            <4> QED BY <3>1, <4>1
        <3>2. CASE i # m
            <4>1. i \in 1..(m - 1) /\ i - 1 # m /\ i \in 0..n /\ i - 1 \in 0..n
                BY <3>2
            <4>2. g[i] = f[i] /\ g[i - 1] = f[i - 1]
                BY <2>1, <3>2, <4>1
            <4>3. f[i] = step[i][f[i - 1]]
                BY <2>1, <4>1
            <4> QED BY <4>2, <4>3
        <3> QED BY <3>1, <3>2
    <2> HIDE DEF g
    <2>5. \E h \in [0..n -> T] : Good(h, m)
        BY <2>3, <2>4
    <2> QED BY <2>5
<1>3. 0..n \subseteq S
    <2> HIDE DEF S, Good
    <2> QED BY <1>1, <1>2, UpTo
<1>4. n \in 0..n
    OBVIOUS
<1> QED BY <1>3, <1>4 DEF Computes

(* A text that is not empty is a text and its last character.              *)
LEMMA FrontAndLast ==
    ASSUME NEW S, NEW s \in Seq(S), s # <<>>
    PROVE  LET front == SubSeq(s, 1, Len(s) - 1)
           IN  /\ front \in Seq(S) /\ Len(front) = Len(s) - 1
               /\ s = Append(front, s[Len(s)]) /\ s[Len(s)] \in S
               /\ \A i \in 1..(Len(s) - 1) : front[i] = s[i]
<1> DEFINE n == Len(s)
           front == SubSeq(s, 1, n - 1)
           again == Append(front, s[n])
<1>1. n \in Nat /\ n # 0 /\ n = Len(s) /\ \A i \in 1..n : s[i] \in S
    BY EmptySeq, ElementOfSeq
<1> HIDE DEF n
<1>2. n - 1 \in Nat /\ n \in 1..n /\ \A i \in 1..(n - 1) : i \in 1..n /\ i # n /\ 1 + i - 1 = i
    BY <1>1
<1>3. /\ front \in Seq(S)
      /\ Len(front) = IF 1 <= n - 1 THEN n - 1 - 1 + 1 ELSE 0
      /\ \A i \in 1..(n - 1 - 1 + 1) : front[i] = s[1 + i - 1]
    BY <1>1, <1>2, SubSeqProperties
<1> HIDE DEF front
<1>4. Len(front) = n - 1 /\ n - 1 - 1 + 1 = n - 1
    BY <1>1, <1>3
<1>5. \A i \in 1..(n - 1) : front[i] = s[i]
    BY <1>2, <1>3, <1>4
<1>6. s[n] \in S
    BY <1>1, <1>2
<1>7. /\ again \in Seq(S) /\ Len(again) = Len(front) + 1
      /\ \A i \in 1..Len(front) : again[i] = front[i]
      /\ again[Len(front) + 1] = s[n]
    BY <1>3, <1>6, AppendProperties
<1>8. Len(again) = n /\ again[n] = s[n] /\ \A i \in 1..(n - 1) : again[i] = s[i]
    BY <1>1, <1>4, <1>5, <1>7
<1> HIDE DEF again
<1>9. \A i \in 1..n : s[i] = again[i]
    <2> TAKE i \in 1..n
    <2>1. i = n \/ i \in 1..(n - 1)
        BY <1>1
    <2> QED BY <1>8, <2>1
<1>10. s = again
    BY <1>1, <1>7, <1>8, <1>9, SeqEqual
<1> QED BY <1>3, <1>4, <1>5, <1>6, <1>10 DEF n, front, again

-----------------------------------------------------------------------------
(* The loop of std::getline.                                               *)

(* What has been read of a text: tokens, and the beginning of another.     *)
Reads(Chars) == [tokens : Seq(Seq(Chars)), token : Seq(Chars)]
Nothing == [tokens |-> <<>>, token |-> <<>>]

Scan(s, delim) ==
    CHOOSE scan : scan = [i \in 0..Len(s) |->
        IF i = 0 THEN [tokens |-> <<>>, token |-> <<>>]
        ELSE after_char(scan[i - 1], s[i], delim)]

LEMMA CharIsRead ==
    ASSUME NEW Chars, NEW read \in Reads(Chars), NEW char \in Chars, NEW delim
    PROVE  after_char(read, char, delim) \in Reads(Chars)
<1>1. read.tokens \in Seq(Seq(Chars)) /\ read.token \in Seq(Chars)
    BY DEF Reads
<1>2. Append(read.tokens, read.token) \in Seq(Seq(Chars)) /\ Append(read.token, char) \in Seq(Chars)
    BY <1>1, AppendProperties
<1>3. <<>> \in Seq(Chars)
    BY EmptySeq
<1> QED BY <1>1, <1>2, <1>3 DEF after_char, Reads

LEMMA ScanIs ==
    ASSUME NEW Chars, NEW s \in Seq(Chars), NEW delim
    PROVE  /\ scanned(s, delim) = Scan(s, delim)[Len(s)]
           /\ Scan(s, delim)[0] = Nothing
           /\ \A i \in 1..Len(s) : Scan(s, delim)[i] = after_char(Scan(s, delim)[i - 1], s[i], delim)
           /\ \A i \in 0..Len(s) : Scan(s, delim)[i] \in Reads(Chars)
<1> DEFINE step == [i \in 1..Len(s) |-> [read \in Reads(Chars) |-> after_char(read, s[i], delim)]]
<1>1. Len(s) \in Nat /\ \A i \in 1..Len(s) : s[i] \in Chars
    BY LenProperties, ElementOfSeq
<1>2. step \in [1..Len(s) -> [Reads(Chars) -> Reads(Chars)]]
    <2>1. \A i \in 1..Len(s), read \in Reads(Chars) : after_char(read, s[i], delim) \in Reads(Chars)
        BY <1>1, CharIsRead
    <2> QED BY <2>1
<1>3. Nothing \in Reads(Chars)
    BY EmptySeq DEF Nothing, Reads
<1>4. PICK f \in [0..Len(s) -> Reads(Chars)] :
          f[0] = Nothing /\ \A i \in 1..Len(s) : f[i] = step[i][f[i - 1]]
    <2> DEFINE T == Reads(Chars)
    <2>1. Len(s) \in Nat /\ Nothing \in T /\ step \in Steps(Len(s), T)
        BY <1>1, <1>2, <1>3 DEF Steps
    <2> HIDE DEF step, T
    <2>2. \E f : Computes(f, Len(s), T, Nothing, step)
        BY <2>1, Computed
    <2> QED BY <2>2 DEF T, Computes
<1>5. \A i \in 1..Len(s) : f[i] = after_char(f[i - 1], s[i], delim)
    <2> TAKE i \in 1..Len(s)
    <2>1. i - 1 \in 0..Len(s)
        BY <1>1
    <2>2. f[i - 1] \in Reads(Chars) /\ f[i] = step[i][f[i - 1]]
        BY <1>4, <2>1
    <2> QED BY <2>2
<1>6. f = [i \in 0..Len(s) |->
              IF i = 0 THEN [tokens |-> <<>>, token |-> <<>>]
              ELSE after_char(f[i - 1], s[i], delim)]
    BY <1>1, <1>4, <1>5 DEF Nothing
<1> DEFINE g == Scan(s, delim)
<1>7. g = [i \in 0..Len(s) |->
              IF i = 0 THEN [tokens |-> <<>>, token |-> <<>>]
              ELSE after_char(g[i - 1], s[i], delim)]
    BY <1>6 DEF Scan
<1>8. scanned(s, delim) = g[Len(s)]
    BY DEF scanned, Scan
<1> HIDE DEF g, step
<1>9. g[0] = Nothing /\ \A i \in 1..Len(s) : g[i] = after_char(g[i - 1], s[i], delim)
    <2>1. g[0] = [tokens |-> <<>>, token |-> <<>>]
        BY <1>1, <1>7
    <2>2. \A i \in 1..Len(s) : g[i] = after_char(g[i - 1], s[i], delim)
        BY <1>1, <1>7
    <2> QED BY <2>1, <2>2 DEF Nothing
<1>10. \A i \in 0..Len(s) : g[i] \in Reads(Chars)
    <2> DEFINE S == {i \in 0..Len(s) : g[i] \in Reads(Chars)}
    <2>1. 0 \in S
        BY <1>1, <1>3, <1>9
    <2>2. ASSUME NEW i \in 1..Len(s), i - 1 \in S PROVE i \in S
        BY <1>1, <1>9, <2>2, CharIsRead
    <2>3. 0..Len(s) \subseteq S
        <3> HIDE DEF S
        <3> QED BY <1>1, <2>1, <2>2, UpTo
    <2> QED BY <2>3
<1> QED BY <1>8, <1>9, <1>10 DEF g

(* Appending to a concatenation is appending to its second part.           *)
LEMMA AppendConcat ==
    ASSUME NEW S, NEW s \in Seq(S), NEW t \in Seq(S), NEW e \in S
    PROVE  s \o Append(t, e) = Append(s \o t, e)
<1>1. Append(t, e) = t \o <<e>> /\ Append(s \o t, e) = (s \o t) \o <<e>>
    BY ConcatProperties, AppendIsConcat
<1>2. <<e>> \in Seq(S)
    OBVIOUS
<1> QED BY <1>1, <1>2, ConcatAssociative

(* Reading a text and one character more is reading the text, and then the *)
(* character.                                                              *)
LEMMA ScanAppend ==
    ASSUME NEW Chars, NEW s \in Seq(Chars), NEW char \in Chars, NEW delim
    PROVE  /\ scanned(Append(s, char), delim) = after_char(scanned(s, delim), char, delim)
           /\ scanned(s, delim) \in Reads(Chars)
<1> DEFINE t == Append(s, char)
           f == Scan(s, delim)
           g == Scan(t, delim)
           n == Len(s)
<1>1. /\ n \in Nat /\ t \in Seq(Chars) /\ Len(t) = n + 1 /\ t[n + 1] = char
      /\ \A i \in 1..n : t[i] = s[i]
    BY AppendProperties, LenProperties
<1>2. /\ scanned(s, delim) = f[n] /\ f[0] = Nothing
      /\ \A i \in 1..n : f[i] = after_char(f[i - 1], s[i], delim)
      /\ \A i \in 0..n : f[i] \in Reads(Chars)
    BY ScanIs
<1>3. /\ scanned(t, delim) = g[n + 1] /\ g[0] = Nothing
      /\ \A i \in 1..(n + 1) : g[i] = after_char(g[i - 1], t[i], delim)
    <2> HIDE DEF t, g
    <2>1. /\ scanned(t, delim) = g[Len(t)] /\ g[0] = Nothing
          /\ \A i \in 1..Len(t) : g[i] = after_char(g[i - 1], t[i], delim)
        BY <1>1, ScanIs DEF g
    <2> QED BY <1>1, <2>1
<1> HIDE DEF t, f, g, n
<1>4. \A i \in 0..n : f[i] = g[i]
    <2> DEFINE S == {i \in 0..n : f[i] = g[i]}
    <2>1. 0 \in S
        BY <1>1, <1>2, <1>3
    <2>2. ASSUME NEW i \in 1..n, i - 1 \in S PROVE i \in S
        <3>1. i \in 1..(n + 1) /\ i \in 0..n
            BY <1>1
        <3> QED BY <1>1, <1>2, <1>3, <2>2, <3>1
    <2>3. 0..n \subseteq S
        <3> HIDE DEF S
        <3> QED BY <1>1, <2>1, <2>2, UpTo
    <2> QED BY <2>3
<1>5. n \in 0..n /\ n + 1 \in 1..(n + 1) /\ n + 1 - 1 = n
    BY <1>1
<1>6. g[n + 1] = after_char(f[n], char, delim)
    BY <1>1, <1>3, <1>4, <1>5
<1> QED BY <1>2, <1>3, <1>5, <1>6 DEF t

LEMMA ScanEmpty == \A delim : scanned(<<>>, delim) = Nothing
<1> TAKE delim
<1>1. <<>> \in Seq({}) /\ Len(<<>>) = 0
    BY EmptySeq
<1>2. scanned(<<>>, delim) = Scan(<<>>, delim)[Len(<<>>)] /\ Scan(<<>>, delim)[0] = Nothing
    BY <1>1, ScanIs
<1> QED BY <1>1, <1>2

(* Characters that are no delimiter go to the end of the token.            *)
LEMMA ScanPlain ==
    ASSUME NEW Chars, NEW s \in Seq(Chars), NEW w \in Seq(Chars), NEW delim,
           \A i \in 1..Len(w) : w[i] # delim
    PROVE  scanned(s \o w, delim) = [tokens |-> scanned(s, delim).tokens,
                                     token  |-> scanned(s, delim).token \o w]
<1> DEFINE Plain(x) == \A i \in 1..Len(x) : x[i] # delim
           Longer(x) == [tokens |-> scanned(s, delim).tokens,
                         token  |-> scanned(s, delim).token \o x]
           S == {n \in 0..Len(w) : \A x \in Seq(Chars) :
                    Len(x) = n /\ Plain(x) => scanned(s \o x, delim) = Longer(x)}
<1>1. Len(w) \in Nat
    BY LenProperties
<1>2. scanned(s, delim) \in Reads(Chars)
    BY ScanIs, LenProperties
<1>3. scanned(s, delim).tokens \in Seq(Seq(Chars)) /\ scanned(s, delim).token \in Seq(Chars)
    BY <1>2 DEF Reads
<1>4. 0 \in S
    <2> SUFFICES ASSUME NEW x \in Seq(Chars), Len(x) = 0 PROVE scanned(s \o x, delim) = Longer(x)
        BY <1>1
    <2>1. x = <<>>
        BY EmptySeq
    <2>2. s \o x = s /\ scanned(s, delim).token \o x = scanned(s, delim).token
        BY <1>3, <2>1, ConcatEmptySeq
    <2> QED BY <1>2, <2>2 DEF Reads
<1>5. ASSUME NEW n \in 1..Len(w), n - 1 \in S PROVE n \in S
    <2> SUFFICES ASSUME NEW x \in Seq(Chars), Len(x) = n, Plain(x)
                 PROVE  scanned(s \o x, delim) = Longer(x)
        BY <1>1
    <2>1. x # <<>> /\ n \in Nat /\ n # 0 /\ n \in 1..n
        BY <1>1, EmptySeq
    <2> DEFINE front == SubSeq(x, 1, Len(x) - 1)
               char == x[Len(x)]
    <2>2. /\ front \in Seq(Chars) /\ Len(front) = n - 1 /\ x = Append(front, char) /\ char \in Chars
          /\ \A i \in 1..(n - 1) : front[i] = x[i]
        BY <2>1, FrontAndLast
    <2> HIDE DEF front
    <2>3. Plain(front) /\ char # delim
        <3>1. \A i \in 1..(n - 1) : i \in 1..n
            BY <2>1
        <3> QED BY <2>1, <2>2, <3>1
    <2> HIDE DEF char
    <2>4. scanned(s \o front, delim) = Longer(front)
        BY <1>5, <2>2, <2>3
    <2>5. s \o front \in Seq(Chars)
        BY <2>2, ConcatProperties
    <2>6. s \o x = Append(s \o front, char)
        BY <2>2, AppendConcat
    <2>7. scanned(s \o x, delim) = after_char(scanned(s \o front, delim), char, delim)
        BY <2>2, <2>5, <2>6, ScanAppend
    <2>8. scanned(s, delim).token \o x = Append(scanned(s, delim).token \o front, char)
        <3>1. \A u \in Seq(Chars) : u \o Append(front, char) = Append(u \o front, char)
            BY <2>2, AppendConcat
        <3> QED BY <1>3, <2>2, <3>1
    <2> QED BY <2>3, <2>4, <2>7, <2>8 DEF after_char
<1>6. 0..Len(w) \subseteq S
    <2> HIDE DEF S
    <2> QED BY <1>1, <1>4, <1>5, UpTo
<1>7. Len(w) \in S
    BY <1>1, <1>6
<1> QED BY <1>7

(* No token holds a delimiter.                                             *)
Plain(x, delim) == \A i \in 1..Len(x) : x[i] # delim
PlainRead(read, delim) ==
    /\ \A k \in 1..Len(read.tokens) : Plain(read.tokens[k], delim)
    /\ Plain(read.token, delim)

LEMMA AppendKeepsPlain ==
    ASSUME NEW S, NEW x \in Seq(S), NEW char \in S, NEW delim, Plain(x, delim), char # delim
    PROVE  Plain(Append(x, char), delim)
<1> DEFINE y == Append(x, char)
<1>1. /\ Len(x) \in Nat /\ Len(y) = Len(x) + 1 /\ y[Len(x) + 1] = char
      /\ \A i \in 1..Len(x) : y[i] = x[i]
    BY AppendProperties, LenProperties
<1> HIDE DEF y
<1>2. \A i \in 1..Len(y) : y[i] # delim
    <2> TAKE i \in 1..Len(y)
    <2>1. i = Len(x) + 1 \/ i \in 1..Len(x)
        BY <1>1
    <2> QED BY <1>1, <2>1 DEF Plain
<1> QED BY <1>2 DEF Plain, y

LEMMA CharKeepsPlain ==
    ASSUME NEW Chars, NEW read \in Reads(Chars), NEW char \in Chars, NEW delim, PlainRead(read, delim)
    PROVE  PlainRead(after_char(read, char, delim), delim)
<1>1. read.tokens \in Seq(Seq(Chars)) /\ read.token \in Seq(Chars)
    BY DEF Reads
<1>2. CASE char = delim
    <2> DEFINE more == Append(read.tokens, read.token)
               after == after_char(read, char, delim)
    <2>1. after.tokens = more /\ after.token = <<>>
        BY <1>2 DEF after_char
    <2>2. /\ Len(read.tokens) \in Nat /\ Len(more) = Len(read.tokens) + 1
          /\ more[Len(read.tokens) + 1] = read.token
          /\ \A k \in 1..Len(read.tokens) : more[k] = read.tokens[k]
        BY <1>1, AppendProperties, LenProperties
    <2> HIDE DEF more, after
    <2>3. \A k \in 1..Len(more) : Plain(more[k], delim)
        <3> TAKE k \in 1..Len(more)
        <3>1. k = Len(read.tokens) + 1 \/ k \in 1..Len(read.tokens)
            BY <2>2
        <3> QED BY <2>2, <3>1 DEF PlainRead
    <2>4. Plain(<<>>, delim)
        BY EmptySeq DEF Plain
    <2> QED BY <2>1, <2>3, <2>4 DEF PlainRead, after
<1>3. CASE char # delim
    <2>1. Plain(Append(read.token, char), delim)
        BY <1>1, <1>3, AppendKeepsPlain DEF PlainRead
    <2> QED BY <1>3, <2>1 DEF after_char, PlainRead
<1> QED BY <1>2, <1>3

LEMMA ScanIsPlain ==
    ASSUME NEW Chars, NEW s \in Seq(Chars), NEW delim
    PROVE  PlainRead(scanned(s, delim), delim)
<1> DEFINE f == Scan(s, delim)
           S == {i \in 0..Len(s) : PlainRead(f[i], delim)}
<1>1. Len(s) \in Nat /\ \A i \in 1..Len(s) : s[i] \in Chars
    BY LenProperties, ElementOfSeq
<1>2. /\ scanned(s, delim) = f[Len(s)] /\ f[0] = Nothing
      /\ \A i \in 1..Len(s) : f[i] = after_char(f[i - 1], s[i], delim)
      /\ \A i \in 0..Len(s) : f[i] \in Reads(Chars)
    BY ScanIs
<1> HIDE DEF f
<1>3. 0 \in S
    <2>1. PlainRead(Nothing, delim)
        BY EmptySeq DEF PlainRead, Plain, Nothing
    <2> QED BY <1>1, <1>2, <2>1
<1>4. ASSUME NEW i \in 1..Len(s), i - 1 \in S PROVE i \in S
    <2>1. f[i - 1] \in Reads(Chars) /\ f[i] = after_char(f[i - 1], s[i], delim) /\ s[i] \in Chars
        BY <1>1, <1>2, <1>4
    <2>2. PlainRead(f[i], delim)
        BY <1>4, <2>1, CharKeepsPlain
    <2> QED BY <1>1, <2>2
<1>5. 0..Len(s) \subseteq S
    <2> HIDE DEF S
    <2> QED BY <1>1, <1>3, <1>4, UpTo
<1>6. Len(s) \in S
    BY <1>1, <1>5
<1> QED BY <1>2, <1>6

(* split returns texts without the delimiter.                              *)
LEMMA SplitIsPlain ==
    ASSUME NEW Chars, NEW s \in Seq(Chars), NEW delim
    PROVE  /\ split(s, delim) \in Seq(Seq(Chars))
           /\ \A k \in 1..Len(split(s, delim)) : Plain(split(s, delim)[k], delim)
<1> DEFINE end == scanned(s, delim)
           more == Append(end.tokens, end.token)
<1>1. end \in Reads(Chars) /\ PlainRead(end, delim)
    BY ScanIs, ScanIsPlain, LenProperties
<1>2. split(s, delim) = IF end.token = <<>> THEN end.tokens ELSE more
    BY DEF split
<1> HIDE DEF end
<1>3. end.tokens \in Seq(Seq(Chars)) /\ end.token \in Seq(Chars)
    BY <1>1 DEF Reads
<1>4. /\ Len(end.tokens) \in Nat /\ Len(more) = Len(end.tokens) + 1
      /\ more[Len(end.tokens) + 1] = end.token /\ more \in Seq(Seq(Chars))
      /\ \A k \in 1..Len(end.tokens) : more[k] = end.tokens[k]
    BY <1>3, AppendProperties, LenProperties
<1> HIDE DEF more
<1>5. \A k \in 1..Len(more) : Plain(more[k], delim)
    <2> TAKE k \in 1..Len(more)
    <2>1. k = Len(end.tokens) + 1 \/ k \in 1..Len(end.tokens)
        BY <1>4
    <2> QED BY <1>1, <1>4, <2>1 DEF PlainRead
<1>6. CASE end.token = <<>>
    BY <1>1, <1>2, <1>3, <1>6 DEF PlainRead
<1>7. CASE end.token # <<>>
    BY <1>2, <1>4, <1>5, <1>7
<1> QED BY <1>6, <1>7

-----------------------------------------------------------------------------
(* The text of a list of settings.                                         *)

Pairs(Chars) == Seq(Chars) \X Seq(Chars)
Line(pair) == (pair[1] \o <<seperator>>) \o pair[2]

Str(list) ==
    CHOOSE str : str = [i \in 0..Len(list) |->
        IF i = 0 THEN <<>>
        ELSE str[i - 1] \o list[i][1] \o <<seperator>> \o list[i][2] \o <<newline>>]

(* Concatenation of five texts, from whichever end.                        *)
LEMMA Concat5 ==
    ASSUME NEW S, NEW a \in Seq(S), NEW b \in Seq(S), NEW c \in Seq(S), NEW d \in Seq(S), NEW e \in S
    PROVE  /\ a \o b \o c \o d \o <<e>> = Append(a \o ((b \o c) \o d), e)
           /\ a \o b \o c \o d \o <<e>> \in Seq(S)
           /\ (b \o c) \o d \in Seq(S)
<1>1. b \o c \in Seq(S) /\ (b \o c) \o d \in Seq(S) /\ a \o b \in Seq(S)
      /\ a \o ((b \o c) \o d) \in Seq(S) /\ a \o b \o c \o d \in Seq(S)
    BY ConcatProperties
<1>2. \A x, y, z \in Seq(S) : (x \o y) \o z = x \o (y \o z)
    BY SMTT(30), ConcatAssociative
<1>3. a \o b \o c = a \o (b \o c)
    BY <1>2
<1>4. a \o b \o c \o d = a \o ((b \o c) \o d)
    BY <1>1, <1>2, <1>3
<1>5. Append(a \o ((b \o c) \o d), e) = a \o b \o c \o d \o <<e>>
    BY <1>1, <1>4, AppendIsConcat
<1>6. Append(a \o ((b \o c) \o d), e) \in Seq(S)
    BY <1>1, AppendProperties
<1> QED BY <1>1, <1>5, <1>6

Added(before, pair) == before \o pair[1] \o <<seperator>> \o pair[2] \o <<newline>>

LEMMA AddedIs ==
    ASSUME NEW Chars, seperator \in Chars, newline \in Chars,
           NEW before \in Seq(Chars), NEW pair \in Pairs(Chars)
    PROVE  /\ Added(before, pair) = Append(before \o Line(pair), newline)
           /\ Added(before, pair) \in Seq(Chars) /\ Line(pair) \in Seq(Chars)
<1> DEFINE p1 == pair[1]
           p2 == pair[2]
           sep == <<seperator>>
<1>1. p1 \in Seq(Chars) /\ p2 \in Seq(Chars) /\ sep \in Seq(Chars)
    BY DEF Pairs
<1>2. Added(before, pair) = before \o p1 \o sep \o p2 \o <<newline>> /\ Line(pair) = (p1 \o sep) \o p2
    BY DEF Added, Line
<1> HIDE DEF p1, p2, sep
<1>3. \A e \in Chars : /\ before \o p1 \o sep \o p2 \o <<e>> = Append(before \o ((p1 \o sep) \o p2), e)
                       /\ before \o p1 \o sep \o p2 \o <<e>> \in Seq(Chars)
                       /\ (p1 \o sep) \o p2 \in Seq(Chars)
    BY <1>1, Concat5
<1> QED BY <1>2, <1>3

LEMMA StrIs ==
    ASSUME NEW Chars, seperator \in Chars, newline \in Chars, NEW list \in Seq(Pairs(Chars))
    PROVE  /\ get_settings_str(list) = Str(list)[Len(list)]
           /\ Str(list)[0] = <<>>
           /\ \A i \in 1..Len(list) : Str(list)[i] = Append(Str(list)[i - 1] \o Line(list[i]), newline)
           /\ \A i \in 0..Len(list) : Str(list)[i] \in Seq(Chars)
           /\ \A i \in 1..Len(list) : Line(list[i]) \in Seq(Chars)
<1> DEFINE T == Seq(Chars)
           n == Len(list)
           step == [i \in 1..n |-> [before \in T |-> Added(before, list[i])]]
<1>1. n \in Nat /\ \A i \in 1..n : list[i] \in Pairs(Chars)
    BY LenProperties, ElementOfSeq
<1>2. <<>> \in T
    BY EmptySeq
<1>3. \A before \in T, i \in 1..n :
          /\ Added(before, list[i]) = Append(before \o Line(list[i]), newline)
          /\ Added(before, list[i]) \in T /\ Line(list[i]) \in T
    BY <1>1, AddedIs
<1>4. step \in Steps(n, T)
    BY <1>3 DEF Steps
<1> HIDE DEF T, n, step
<1>5. PICK f : Computes(f, n, T, <<>>, step)
    BY <1>1, <1>2, <1>4, Computed
<1>6. f \in [0..n -> T] /\ f[0] = <<>> /\ \A i \in 1..n : f[i] = Added(f[i - 1], list[i])
    <2>1. /\ f \in [0..n -> T] /\ f[0] = <<>>
          /\ \A i \in 1..n : f[i] = step[i][f[i - 1]]
        BY <1>5 DEF Computes
    <2>2. ASSUME NEW i \in 1..n PROVE f[i] = Added(f[i - 1], list[i])
        <3>1. i - 1 \in 0..n
            BY <1>1
        <3>2. f[i - 1] \in T /\ f[i] = step[i][f[i - 1]]
            BY <2>1, <3>1
        <3> QED BY <3>2 DEF step
    <2> QED BY <2>1, <2>2
<1>7. f = [i \in 0..n |-> IF i = 0 THEN <<>> ELSE Added(f[i - 1], list[i])]
    BY <1>1, <1>6
<1> DEFINE g == Str(list)
<1>8. g = [i \in 0..n |-> IF i = 0 THEN <<>> ELSE Added(g[i - 1], list[i])]
    BY <1>7 DEF Str, n, Added
<1>9. get_settings_str(list) = g[n]
    BY DEF get_settings_str, Str, n
<1> HIDE DEF g
<1>10. g[0] = <<>> /\ \A i \in 1..n : g[i] = Added(g[i - 1], list[i])
    <2>1. g[0] = <<>>
        BY <1>1, <1>8
    <2>2. \A i \in 1..n : g[i] = Added(g[i - 1], list[i])
        BY <1>1, <1>8
    <2> QED BY <2>1, <2>2
<1>11. \A i \in 0..n : g[i] \in T
    <2> DEFINE S == {i \in 0..n : g[i] \in T}
    <2>1. 0 \in S
        BY <1>1, <1>2, <1>10
    <2>2. ASSUME NEW i \in 1..n, i - 1 \in S PROVE i \in S
        <3>1. g[i - 1] \in T /\ i \in 0..n
            BY <1>1, <2>2
        <3>2. Added(g[i - 1], list[i]) \in T
            BY <1>3, <3>1
        <3> QED BY <1>10, <3>1, <3>2
    <2>3. 0..n \subseteq S
        <3> HIDE DEF S
        <3> QED BY <1>1, <2>1, <2>2, UpTo
    <2> QED BY <2>3
<1>12. \A i \in 1..n : g[i] = Append(g[i - 1] \o Line(list[i]), newline) /\ Line(list[i]) \in T
    <2> TAKE i \in 1..n
    <2>1. i - 1 \in 0..n
        BY <1>1
    <2> QED BY <1>3, <1>10, <1>11, <2>1
<1> QED BY <1>9, <1>10, <1>11, <1>12 DEF T, n, g

(* Each line of the text of a list, ended by a newline, is read back.      *)
LinesUpTo(list, i) == [k \in 1..i |-> Line(list[k])]

LEMMA OneLineMore ==
    ASSUME NEW Chars, NEW list, NEW i \in Nat \ {0}, \A k \in 1..i : Line(list[k]) \in Seq(Chars)
    PROVE  /\ LinesUpTo(list, i) \in Seq(Seq(Chars)) /\ Len(LinesUpTo(list, i)) = i
           /\ LinesUpTo(list, i - 1) \in Seq(Seq(Chars))
           /\ Append(LinesUpTo(list, i - 1), Line(list[i])) = LinesUpTo(list, i)
<1> DEFINE T == Seq(Chars)
           line(k) == Line(list[k])
           before == [k \in 1..(i - 1) |-> line(k)]
           after == [k \in 1..i |-> line(k)]
           again == Append(before, line(i))
<1>1. \A k \in 1..i : line(k) \in T
    OBVIOUS
<1> HIDE DEF T, line
<1>2. i \in Nat /\ i - 1 \in Nat /\ i \in 1..i /\ 1..(i - 1) \subseteq 1..i
    OBVIOUS
<1>3. after \in Seq(T) /\ Len(after) = i
    BY <1>1, <1>2
<1>4. before \in Seq(T) /\ Len(before) = i - 1
    BY <1>1, <1>2
<1>5. /\ again \in Seq(T) /\ Len(again) = i - 1 + 1 /\ again[i - 1 + 1] = line(i)
      /\ \A k \in 1..(i - 1) : again[k] = before[k]
    <2>1. line(i) \in T
        BY <1>1, <1>2
    <2> HIDE DEF before
    <2> QED BY <1>4, <2>1, AppendProperties
<1>6. \A k \in 1..i : after[k] = line(k)
    OBVIOUS
<1>7. \A k \in 1..(i - 1) : before[k] = line(k)
    OBVIOUS
<1>8. \A k \in 1..i : again[k] = line(k)
    <2> HIDE DEF again, before, after
    <2> TAKE k \in 1..i
    <2>1. k = i \/ k \in 1..(i - 1)
        BY <1>2
    <2>2. i - 1 + 1 = i
        BY <1>2
    <2> QED BY <1>5, <1>7, <2>1, <2>2
<1>9. again = after
    <2> HIDE DEF again, before, after
    <2>1. Len(again) = Len(after)
        BY <1>2, <1>3, <1>5
    <2>2. \A k \in 1..Len(again) : again[k] = after[k]
        BY <1>2, <1>3, <1>6, <1>8, <2>1
    <2> QED BY <1>3, <1>5, <2>1, <2>2, SeqEqual
<1> QED BY <1>3, <1>4, <1>9 DEF LinesUpTo, T, line

LEMMA LinesOfStr ==
    ASSUME NEW Chars, seperator \in Chars, newline \in Chars, NEW list \in Seq(Pairs(Chars)),
           \A i \in 1..Len(list) : Plain(Line(list[i]), newline)
    PROVE  /\ lines(get_settings_str(list)) = LinesUpTo(list, Len(list))
           /\ get_settings_str(list) \in Seq(Chars)
<1> DEFINE n == Len(list)
           g == Str(list)
           S == {i \in 0..n : scanned(g[i], newline) = [tokens |-> LinesUpTo(list, i), token |-> <<>>]}
<1>1. n \in Nat
    BY LenProperties
<1>2. /\ get_settings_str(list) = g[n] /\ g[0] = <<>>
      /\ \A i \in 1..n : g[i] = Append(g[i - 1] \o Line(list[i]), newline)
      /\ \A i \in 0..n : g[i] \in Seq(Chars)
      /\ \A i \in 1..n : Line(list[i]) \in Seq(Chars) /\ Plain(Line(list[i]), newline)
    BY StrIs
<1> HIDE DEF g, n
<1>3. 0 \in S
    <2>1. LinesUpTo(list, 0) = <<>>
        BY DEF LinesUpTo
    <2> QED BY <1>1, <1>2, <2>1, ScanEmpty DEF Nothing
<1>4. ASSUME NEW i \in 1..n, i - 1 \in S PROVE i \in S
    <2> DEFINE w == Line(list[i])
               s == g[i - 1]
    <2>1. i - 1 \in 0..n /\ i \in 0..n /\ i \in Nat \ {0} /\ 1..i \subseteq 1..n
        BY <1>1
    <2>2. /\ s \in Seq(Chars) /\ w \in Seq(Chars) /\ Plain(w, newline)
          /\ g[i] = Append(s \o w, newline)
          /\ scanned(s, newline) = [tokens |-> LinesUpTo(list, i - 1), token |-> <<>>]
        BY <1>2, <1>4, <2>1
    <2> \A k \in 1..i : Line(list[k]) \in Seq(Chars)
        BY <1>2, <2>1
    <2>3. Append(LinesUpTo(list, i - 1), w) = LinesUpTo(list, i)
        BY <2>1, OneLineMore
    <2> HIDE DEF w, s
    <2>4. scanned(s \o w, newline) = [tokens |-> scanned(s, newline).tokens,
                                      token  |-> scanned(s, newline).token \o w]
        BY <2>2, ScanPlain DEF Plain
    <2>5. <<>> \o w = w /\ s \o w \in Seq(Chars)
        BY <2>2, ConcatEmptySeq, ConcatProperties
    <2>6. scanned(s \o w, newline) = [tokens |-> LinesUpTo(list, i - 1), token |-> w]
        BY <2>2, <2>4, <2>5
    <2>7. scanned(g[i], newline) = after_char(scanned(s \o w, newline), newline, newline)
        <3>1. \A u \in Seq(Chars) : scanned(Append(u, newline), newline)
                                      = after_char(scanned(u, newline), newline, newline)
            BY ScanAppend
        <3> QED BY <2>2, <2>5, <3>1
    <2>8. scanned(g[i], newline) = [tokens |-> LinesUpTo(list, i), token |-> <<>>]
        BY SMTT(30), <2>3, <2>6, <2>7 DEF after_char
    <2> QED BY <2>1, <2>8
<1>5. 0..n \subseteq S
    <2> HIDE DEF S
    <2> QED BY <1>1, <1>3, <1>4, UpTo
<1>6. n \in S /\ n \in 0..n
    BY <1>1, <1>5
<1>7. scanned(g[n], newline) = [tokens |-> LinesUpTo(list, n), token |-> <<>>]
    BY <1>6
<1>8. split(g[n], newline) = LinesUpTo(list, n)
    BY <1>7 DEF split
<1> QED BY <1>2, <1>6, <1>8 DEF lines, n

(* The least of a set of positions.                                        *)
LEMMA MinIs ==
    ASSUME NEW S \in SUBSET Nat, S # {}
    PROVE  Min(S) \in S /\ \A y \in S : Min(S) <= y
<1>1. \E x \in S : \A y \in S : ~ (<<y, x>> \in OpToRel(<, Nat))
    BY NatLessThanWellFounded, WFMin
<1>2. PICK x \in S : \A y \in S : ~ (<<y, x>> \in OpToRel(<, Nat))
    BY <1>1
<1>3. \A y \in S : x =< y
    <2> TAKE y \in S
    <2>1. ~ (y < x)
        BY <1>2 DEF OpToRel
    <2> QED BY <2>1
<1> QED BY <1>3 DEF Min

LEMMA MinOf ==
    ASSUME NEW S \in SUBSET Nat, NEW x \in S, \A y \in S : x <= y
    PROVE  Min(S) = x
<1>1. Min(S) \in S /\ Min(S) <= x /\ x <= Min(S) /\ Min(S) \in Nat /\ x \in Nat
    BY MinIs
<1> QED BY <1>1

(* The setting of a line is the pair the line was written from.            *)
LEMMA SettingOfLine ==
    ASSUME NEW Chars, seperator \in Chars, NEW pair \in Pairs(Chars),
           Positions(seperator, pair[1]) = {}
    PROVE  setting(Line(pair)) = pair
<1> DEFINE p1 == pair[1]
           p2 == pair[2]
           sep == <<seperator>>
           head == p1 \o sep
           line == head \o p2
           n1 == Len(p1)
           n2 == Len(p2)
           at == Positions(seperator, line)
           value == SubSeq(line, n1 + 2, n1 + 1 + n2)
           key == SubSeq(line, 1, n1)
<1>1. p1 \in Seq(Chars) /\ p2 \in Seq(Chars) /\ pair = <<p1, p2>>
    BY DEF Pairs
<1>2. sep \in Seq(Chars) /\ Len(sep) = 1 /\ sep[1] = seperator
    OBVIOUS
<1>3. \A i \in 1..n1 : p1[i] # seperator
    BY DEF Positions
<1>4. Line(pair) = line
    BY DEF Line
<1> HIDE DEF p1, p2, sep
<1>5. n1 \in Nat /\ n2 \in Nat
    BY <1>1, LenProperties
<1>6. head \in Seq(Chars) /\ Len(head) = n1 + 1
      /\ \A i \in 1..(n1 + 1) : head[i] = IF i <= n1 THEN p1[i] ELSE sep[i - n1]
    BY <1>1, <1>2, ConcatProperties
<1> HIDE DEF head
<1> HIDE DEF n1, n2
<1>20. line \in Seq(Chars) /\ Len(line) = Len(head) + Len(p2)
       /\ \A i \in 1..(Len(head) + Len(p2)) : line[i] = IF i <= Len(head) THEN head[i] ELSE p2[i - Len(head)]
    BY <1>1, <1>6, ConcatProperties
<1>7. line \in Seq(Chars) /\ Len(line) = n1 + 1 + n2
      /\ \A i \in 1..(n1 + 1 + n2) : line[i] = IF i <= n1 + 1 THEN head[i] ELSE p2[i - (n1 + 1)]
    <2>1. Len(p2) = n2
        BY DEF n2
    <2> HIDE DEF line
    <2> QED BY <1>6, <1>20, <2>1
<1>8. /\ \A i \in 1..n1 : p1[i] \in Chars
      /\ \A i \in 1..(n1 + 1 + n2) : line[i] \in Chars
    BY <1>1, <1>7, ElementOfSeq DEF n1
<1> HIDE DEF line
<1>9. \A i \in 1..n1 : line[i] = p1[i]
    <2> TAKE i \in 1..n1
    <2>1. i \in 1..(n1 + 1) /\ i \in 1..(n1 + 1 + n2) /\ i <= n1 /\ i <= n1 + 1
        BY <1>5
    <2> QED BY <1>6, <1>7, <2>1
<1>10. line[n1 + 1] = seperator /\ n1 + 1 \in 1..(n1 + 1 + n2)
    <2>1. ASSUME NEW k \in Int, k = n1 + 1 PROVE line[k] = seperator /\ k \in 1..(n1 + 1 + n2)
        <3>1. k \in 1..(n1 + 1) /\ k \in 1..(n1 + 1 + n2) /\ ~ (k <= n1) /\ k - n1 = 1 /\ k <= n1 + 1
            BY <1>5, <2>1
        <3>2. line[k] = head[k]
            BY <1>7, <3>1
        <3>3. head[k] = sep[k - n1]
            BY <1>6, <3>1
        <3> QED BY <1>2, <3>1, <3>2, <3>3
    <2> QED BY <1>5, <2>1
<1>11. \A i \in 1..n2 : line[n1 + 1 + i] = p2[i]
    <2>1. ASSUME NEW i \in 1..n2, NEW k \in Int, k = n1 + 1 + i PROVE line[k] = p2[i]
        <3>1. k \in 1..(n1 + 1 + n2) /\ ~ (k <= n1 + 1) /\ k - (n1 + 1) = i
            BY <1>5, <2>1
        <3>2. line[k] = p2[k - (n1 + 1)]
            BY <1>7, <3>1
        <3> QED BY <3>1, <3>2
    <2> QED BY <1>5, <2>1
<1>12. at \in SUBSET Nat /\ n1 + 1 \in at /\ \A i \in at : n1 + 1 <= i
    <2>1. at = {i \in 1..(n1 + 1 + n2) : line[i] = seperator}
        BY <1>7 DEF Positions
    <2> HIDE DEF at
    <2>2. \A i \in at : i \in Nat /\ n1 + 1 <= i
        <3> TAKE i \in at
        <3>1. i \in 1..(n1 + 1 + n2) /\ line[i] = seperator
            BY <2>1
        <3>2. i \notin 1..n1
            BY <1>3, <1>9, <3>1 DEF n1
        <3> QED BY <1>5, <3>1, <3>2
    <2> QED BY <1>10, <2>1, <2>2
<1>13. Min(at) = n1 + 1 /\ at # {}
    <2> HIDE DEF at
    <2> QED BY <1>12, MinOf
<1>14. key = p1
    <2>1. \A i \in 1..n1 : line[i] \in Chars
        BY <1>8, <1>9
    <2>2. key \in Seq(Chars) /\ Len(key) = (IF 1 <= n1 THEN n1 - 1 + 1 ELSE 0)
          /\ \A i \in 1..(n1 - 1 + 1) : key[i] = line[1 + i - 1]
        BY <1>5, <2>1, SubSeqProperties
    <2> HIDE DEF key
    <2>3. Len(key) = n1 /\ n1 - 1 + 1 = n1
        BY <1>5, <2>2
    <2>4. \A i \in 1..n1 : key[i] = p1[i]
        <3> TAKE i \in 1..n1
        <3>1. 1 + i - 1 = i
            BY <1>5
        <3> QED BY <1>9, <2>2, <2>3, <3>1
    <2> QED BY <1>1, <2>2, <2>3, <2>4, SeqEqual DEF n1
<1>15. value = p2
    <2>1. \A i \in (n1 + 2)..(n1 + 1 + n2) : line[i] \in Chars
        BY <1>5, <1>8
    <2>2. value \in Seq(Chars)
          /\ Len(value) = (IF n1 + 2 <= n1 + 1 + n2 THEN n1 + 1 + n2 - (n1 + 2) + 1 ELSE 0)
          /\ \A i \in 1..(n1 + 1 + n2 - (n1 + 2) + 1) : value[i] = line[n1 + 2 + i - 1]
        BY <1>5, <2>1, SubSeqProperties
    <2> HIDE DEF value
    <2>3. Len(value) = n2 /\ n1 + 1 + n2 - (n1 + 2) + 1 = n2
        BY <1>5, <2>2
    <2>4. \A i \in 1..n2 : value[i] = p2[i]
        <3> TAKE i \in 1..n2
        <3>1. n1 + 2 + i - 1 = n1 + 1 + i
            BY <1>5
        <3> QED BY <1>11, <2>2, <2>3, <3>1
    <2> QED BY <1>1, <2>2, <2>3, <2>4, SeqEqual DEF n2
<1>16. setting(line) = <<SubSeq(line, 1, n1), SubSeq(line, n1 + 2, n1 + 1 + n2)>>
    <2>1. n1 + 1 - 1 = n1 /\ n1 + 1 + 1 = n1 + 2
        BY <1>5
    <2>2. setting(line) = <<SubSeq(line, 1, Min(at) - 1), SubSeq(line, Min(at) + 1, Len(line))>>
        BY <1>13 DEF setting
    <2> HIDE DEF at
    <2>3. ASSUME NEW l, NEW m, NEW k, l = Min(at) - 1, m = Min(at) + 1, k = Len(line)
          PROVE  setting(line) = <<SubSeq(line, 1, l), SubSeq(line, m, k)>>
        BY <2>2, <2>3, Zenon
    <2>4. n1 = Min(at) - 1 /\ n1 + 2 = Min(at) + 1 /\ n1 + 1 + n2 = Len(line)
        BY <1>5, <1>7, <1>13, <2>1
    <2> QED BY <2>3, <2>4, Zenon
<1> QED BY <1>1, <1>4, <1>14, <1>15, <1>16

(* A part of a text, and what is and is not in it.                         *)
LEMMA PartOf ==
    ASSUME NEW S, NEW s \in Seq(S), NEW m \in 1..(Len(s) + 1), NEW n \in 0..Len(s)
    PROVE  /\ SubSeq(s, m, n) \in Seq(S)
           /\ Len(SubSeq(s, m, n)) = IF m <= n THEN n - m + 1 ELSE 0
           /\ \A i \in 1..Len(SubSeq(s, m, n)) :
                  m + i - 1 \in m..n /\ SubSeq(s, m, n)[i] = s[m + i - 1]
<1> DEFINE p == SubSeq(s, m, n)
           l == Len(s)
<1>1. l \in Nat /\ m \in Nat /\ m >= 1 /\ n \in Nat /\ n <= l /\ \A i \in 1..l : s[i] \in S
    BY LenProperties, ElementOfSeq
<1> HIDE DEF l
<1>2. \A i \in m..n : s[i] \in S
    BY <1>1
<1>3. p \in Seq(S) /\ Len(p) = (IF m <= n THEN n - m + 1 ELSE 0)
      /\ \A i \in 1..(n - m + 1) : p[i] = s[m + i - 1]
    BY <1>1, <1>2, SubSeqProperties
<1> HIDE DEF p
<1>4. \A i \in 1..Len(p) : m + i - 1 \in m..n /\ p[i] = s[m + i - 1]
    <2> TAKE i \in 1..Len(p)
    <2>1. m <= n /\ Len(p) = n - m + 1
        BY <1>1, <1>3
    <2>2. m + i - 1 \in m..n /\ i \in 1..(n - m + 1)
        BY <1>1, <2>1
    <2> QED BY <1>3, <2>2
<1> QED BY <1>3, <1>4 DEF p

LEMMA PlainPart ==
    ASSUME NEW S, NEW s \in Seq(S), NEW m \in 1..(Len(s) + 1), NEW n \in 0..Len(s), NEW delim,
           \A i \in m..n : s[i] # delim
    PROVE  Plain(SubSeq(s, m, n), delim)
BY PartOf DEF Plain

LEMMA PlainConcat ==
    ASSUME NEW S, NEW a \in Seq(S), NEW b \in Seq(S), NEW delim
    PROVE  Positions(delim, a \o b) = {} <=> Plain(a, delim) /\ Plain(b, delim)
<1> DEFINE c == a \o b
           la == Len(a)
           lb == Len(b)
<1>1. la \in Nat /\ lb \in Nat
    BY LenProperties
<1>2. Len(c) = la + lb
      /\ \A i \in 1..(la + lb) : c[i] = IF i <= la THEN a[i] ELSE b[i - la]
    BY ConcatProperties
<1>3. Positions(delim, c) = {i \in 1..Len(c) : c[i] = delim}
    BY DEF Positions
<1> HIDE DEF c, la, lb
<1>4. \A i \in 1..la : i \in 1..(la + lb) /\ c[i] = a[i]
    BY <1>1, <1>2
<1>5. \A i \in 1..lb : i + la \in 1..(la + lb) /\ c[i + la] = b[i]
    <2>1. ASSUME NEW i \in 1..lb, NEW k \in Int, k = i + la PROVE k \in 1..(la + lb) /\ c[k] = b[i]
        <3>1. k \in 1..(la + lb) /\ ~ (k <= la) /\ k - la = i
            BY <1>1, <2>1
        <3> QED BY <1>2, <3>1
    <2> QED BY <1>1, <2>1
<1>6. ASSUME Positions(delim, c) = {} PROVE Plain(a, delim) /\ Plain(b, delim)
    <2>1. \A i \in 1..(la + lb) : c[i] # delim
        BY <1>2, <1>3, <1>6
    <2> QED BY <1>4, <1>5, <2>1 DEF Plain, la, lb
<1>7. ASSUME Plain(a, delim), Plain(b, delim) PROVE Positions(delim, c) = {}
    <2>1. ASSUME NEW i \in 1..(la + lb) PROVE c[i] # delim
        <3>1. CASE i <= la
            <4>1. i \in 1..la
                BY <1>1, <3>1
            <4> QED BY <1>4, <1>7, <4>1 DEF Plain, la
        <3>2. CASE ~ (i <= la)
            <4>1. i - la \in 1..lb
                BY <1>1, <3>2
            <4>2. c[i] = b[i - la]
                BY <1>2, <3>2
            <4> QED BY <1>7, <4>1, <4>2 DEF Plain, lb
        <3> QED BY <3>1, <3>2
    <2> QED BY <1>2, <1>3, <2>1
<1> QED BY <1>6, <1>7 DEF c

(* A clean setting makes one line.                                         *)
LEMMA CleanLine ==
    ASSUME NEW Chars, seperator \in Chars, NEW pair \in Pairs(Chars), Clean(pair)
    PROVE  Plain(Line(pair), newline)
<1> DEFINE p1 == pair[1]
           p2 == pair[2]
           sep == <<seperator>>
<1>1. p1 \in Seq(Chars) /\ p2 \in Seq(Chars) /\ sep \in Seq(Chars) /\ p1 \o sep \in Seq(Chars)
    <2>1. p1 \in Seq(Chars) /\ p2 \in Seq(Chars) /\ sep \in Seq(Chars)
        BY DEF Pairs
    <2> HIDE DEF p1, sep
    <2> QED BY <2>1, ConcatProperties
<1>2. Plain(sep, newline)
    BY DEF Plain, seperator, newline
<1>3. Positions(newline, p1 \o p2) = {} /\ Line(pair) = (p1 \o sep) \o p2
    BY DEF Clean, Line
<1> HIDE DEF p1, p2, sep
<1>4. Plain(p1, newline) /\ Plain(p2, newline)
    BY <1>1, <1>3, PlainConcat
<1>5. \A a, b \in Seq(Chars) : Plain(a \o b, newline) <=> Plain(a, newline) /\ Plain(b, newline)
    <2> TAKE a, b \in Seq(Chars)
    <2>1. Plain(a \o b, newline) <=> Positions(newline, a \o b) = {}
        BY DEF Plain, Positions
    <2> QED BY <2>1, PlainConcat
<1> QED BY <1>1, <1>2, <1>3, <1>4, <1>5

(* Save and load are inverse on clean lists, of any number of settings and *)
(* with texts of any length: no key holds the separator or a newline, no   *)
(* value a newline.                                                        *)
THEOREM ReadBack ==
    ASSUME NEW Chars, seperator \in Chars, newline \in Chars, NEW list \in Seq(Pairs(Chars)),
           \A i \in 1..Len(list) : Clean(list[i])
    PROVE  parsed(get_settings_str(list)) = list
<1> DEFINE n == Len(list)
           str == get_settings_str(list)
<1>1. n \in Nat /\ (\A i \in 1..n : list[i] \in Pairs(Chars)) /\ list = [i \in 1..n |-> list[i]]
    BY LenProperties, ElementOfSeq
<1>2. lines(str) = LinesUpTo(list, n)
    BY <1>1, CleanLine, LinesOfStr
<1> HIDE DEF n
<1>3. \A i \in 1..n : Line(list[i]) \in Seq(Chars)
    BY StrIs DEF n
<1>4. Len(LinesUpTo(list, n)) = n
    <2>1. CASE n = 0
        BY <2>1 DEF LinesUpTo
    <2>2. CASE n # 0
        <3>1. n \in Nat \ {0}
            BY <1>1, <2>2
        <3> QED BY ZenonT(30), <1>3, <3>1, OneLineMore
    <2> QED BY <2>1, <2>2
<1>5. \A k \in 1..n : setting(LinesUpTo(list, n)[k]) = list[k]
    <2> TAKE k \in 1..n
    <2>1. LinesUpTo(list, n)[k] = Line(list[k])
        BY DEF LinesUpTo
    <2>2. Clean(list[k]) /\ list[k] \in Pairs(Chars)
        BY <1>1 DEF n
    <2> QED BY <2>1, <2>2, SettingOfLine DEF Clean
<1> DEFINE L == LinesUpTo(list, n)
<1>6. parsed(str) = [k \in 1..Len(L) |-> setting(L[k])]
    BY <1>2 DEF parsed
<1> HIDE DEF L
<1>7. [k \in 1..Len(L) |-> setting(L[k])] = [k \in 1..n |-> list[k]]
    BY <1>4, <1>5 DEF L
<1> QED BY <1>1, <1>6, <1>7

(* Whatever a line is, the setting load takes from it is clean.            *)
LEMMA SettingIsClean ==
    ASSUME NEW Chars, NEW line \in Seq(Chars), Plain(line, newline)
    PROVE  setting(line) \in Pairs(Chars) /\ Clean(setting(line))
<1> DEFINE at == Positions(seperator, line)
           l == Len(line)
<1>1. at = {i \in 1..l : line[i] = seperator} /\ l \in Nat
    BY LenProperties DEF Positions
<1>2. setting(line) = IF at = {} THEN <<line, line>>
                      ELSE << SubSeq(line, 1, Min(at) - 1), SubSeq(line, Min(at) + 1, l) >>
    BY DEF setting
<1> HIDE DEF at, l
<1>3. CASE at = {}
    <2>1. Positions(seperator, line) = {}
        BY <1>3 DEF at
    <2>2. Positions(newline, line \o line) = {}
        BY PlainConcat
    <2> QED BY <1>2, <1>3, <2>1, <2>2 DEF Clean, Pairs
<1>4. CASE at # {}
    <2> DEFINE m == Min(at)
               key == SubSeq(line, 1, m - 1)
               value == SubSeq(line, m + 1, l)
    <2>1. m \in at /\ \A y \in at : m <= y
        <3>1. at \in SUBSET Nat
            BY <1>1
        <3> QED BY <1>4, <3>1, MinIs
    <2>2. setting(line) = <<key, value>>
        BY <1>2, <1>4
    <2> HIDE DEF m
    <2>3. m \in 1..l /\ m \in Nat /\ m - 1 \in 0..l /\ m + 1 \in 1..(l + 1) /\ 1 \in 1..(l + 1) /\ l \in 0..l
        BY <1>1, <2>1
    <2>4. \A i \in 1..(m - 1) : line[i] # seperator
        <3> TAKE i \in 1..(m - 1)
        <3>1. i \in 1..l /\ ~ (m <= i)
            BY <1>1, <2>3
        <3> QED BY <1>1, <2>1, <3>1
    <2>5. (\A i \in 1..(m - 1) : line[i] # newline) /\ \A i \in (m + 1)..l : line[i] # newline
        <3>1. \A i \in 1..l : line[i] # newline
            BY DEF Plain, l
        <3> QED BY <1>1, <2>3, <3>1
    <2>6. key \in Seq(Chars) /\ value \in Seq(Chars)
        BY <2>3, PartOf DEF l
    <2>7. Plain(key, seperator) /\ Plain(key, newline) /\ Plain(value, newline)
        BY <2>3, <2>4, <2>5, PlainPart DEF l
    <2> HIDE DEF key, value
    <2>8. Positions(newline, key \o value) = {}
        BY <2>6, <2>7, PlainConcat
    <2>9. Positions(seperator, key) = {}
        BY <2>7 DEF Plain, Positions
    <2> QED BY <2>2, <2>6, <2>8, <2>9 DEF Clean, Pairs
<1> QED BY <1>3, <1>4

LEMMA ParsedIsClean ==
    ASSUME NEW Chars, NEW s \in Seq(Chars)
    PROVE  /\ parsed(s) \in Seq(Pairs(Chars))
           /\ \A k \in 1..Len(parsed(s)) : Clean(parsed(s)[k])
<1> DEFINE L == lines(s)
           P == Pairs(Chars)
<1>1. L \in Seq(Seq(Chars)) /\ \A k \in 1..Len(L) : Plain(L[k], newline)
    BY SplitIsPlain DEF lines
<1>2. parsed(s) = [k \in 1..Len(L) |-> setting(L[k])]
    BY DEF parsed
<1> HIDE DEF L
<1>3. Len(L) \in Nat /\ \A k \in 1..Len(L) : L[k] \in Seq(Chars)
    BY <1>1, LenProperties, ElementOfSeq
<1>4. \A k \in 1..Len(L) : setting(L[k]) \in P /\ Clean(setting(L[k]))
    BY <1>1, <1>3, SettingIsClean
<1> HIDE DEF P
<1> DEFINE f == [k \in 1..Len(L) |-> setting(L[k])]
<1>5. f \in Seq(P) /\ Len(f) = Len(L)
    BY <1>3, <1>4
<1>6. \A k \in 1..Len(L) : f[k] = setting(L[k])
    OBVIOUS
<1> HIDE DEF f
<1>7. parsed(s) = f
    BY <1>2 DEF f
<1> QED BY <1>4, <1>5, <1>6, <1>7 DEF P

(* What operator>> extracts holds no white space, and is the whole of a    *)
(* text without any.                                                       *)
LEMMA FirstWordPrints ==
    ASSUME NEW Chars, NEW s \in Seq(Chars)
    PROVE  /\ \A i \in 1..Len(first_word(s)) : first_word(s)[i] \notin isspace
           /\ Printing(s) = 1..Len(s) => first_word(s) = s
<1> DEFINE l == Len(s)
           m == IF Printing(s) = {} THEN l + 1 ELSE Min(Printing(s))
           rest == SubSeq(s, m, l)
           r == Len(rest)
           ends == {i \in 1..r : rest[i] \in isspace}
           n == IF ends = {} THEN r ELSE Min(ends) - 1
           word == SubSeq(rest, 1, n)
<1>1. l \in Nat
    BY LenProperties
<1>2. ltrim(s) = rest
    BY DEF ltrim
<1>3. first_word(s) = word
    BY <1>2 DEF first_word
<1>4. Printing(s) = {i \in 1..l : s[i] \notin isspace}
    BY DEF Printing
<1> HIDE DEF l
<1>5. m \in 1..(l + 1)
    <2>1. CASE Printing(s) = {}
        BY <1>1, <2>1
    <2>2. CASE Printing(s) # {}
        <3>1. Printing(s) \in SUBSET Nat
            BY <1>1, <1>4
        <3>2. Min(Printing(s)) \in Printing(s)
            BY <2>2, <3>1, MinIs
        <3> QED BY <1>1, <1>4, <2>2, <3>2
    <2> QED BY <2>1, <2>2
<1>6. Printing(s) = 1..l => m = 1
    <2> SUFFICES ASSUME Printing(s) = 1..l PROVE m = 1
        OBVIOUS
    <2>1. CASE l = 0
        BY <2>1
    <2>2. CASE l # 0
        <3>1. 1 \in Printing(s) /\ Printing(s) \in SUBSET Nat /\ \A y \in Printing(s) : 1 <= y
            BY <1>1, <2>2
        <3>2. Min(Printing(s)) = 1
            BY <3>1, MinOf
        <3> QED BY <3>1, <3>2
    <2> QED BY <2>1, <2>2
<1> HIDE DEF m
<1>7. rest \in Seq(Chars) /\ (m = 1 => rest = s)
    <2>1. l \in 0..l
        BY <1>1
    <2>2. rest \in Seq(Chars)
        BY <1>5, <2>1, PartOf DEF l
    <2> QED BY <2>2, SubSeqFull DEF l
<1> HIDE DEF rest
<1>8. r \in Nat /\ ends = {i \in 1..r : rest[i] \in isspace}
    BY <1>7, LenProperties
<1> HIDE DEF r
<1>9. n \in 0..r /\ \A i \in 1..n : i \in 1..r /\ rest[i] \notin isspace
    <2>1. CASE ends = {}
        BY <1>8, <2>1
    <2>2. CASE ends # {}
        <3> DEFINE e == Min(ends)
        <3>1. e \in ends /\ \A y \in ends : e <= y
            <4>1. ends \in SUBSET Nat
                BY <1>8
            <4> QED BY <2>2, <4>1, MinIs
        <3>2. n = e - 1
            BY <2>2
        <3> HIDE DEF e, n
        <3>3. e \in 1..r /\ e \in Nat /\ n \in Nat /\ n \in 0..r
            BY <1>8, <3>1, <3>2
        <3>4. \A i \in 1..n : i \in 1..r /\ rest[i] \notin isspace
            <4> TAKE i \in 1..n
            <4>1. i \in 1..r /\ ~ (e <= i)
                BY <1>8, <3>2, <3>3
            <4>2. i \notin ends
                BY <3>1, <4>1
            <4> QED BY <4>1, <4>2
        <3> QED BY <3>3, <3>4
    <2> QED BY <2>1, <2>2
<1>10. Printing(s) = 1..l => n = r /\ rest = s /\ r = l
    <2> SUFFICES ASSUME Printing(s) = 1..l PROVE n = r /\ rest = s /\ r = l
        OBVIOUS
    <2>1. rest = s /\ r = l
        BY <1>6, <1>7 DEF r, l
    <2>2. ends = {}
        BY <1>4, <1>8, <2>1
    <2> QED BY <2>1, <2>2
<1> HIDE DEF ends, n
<1>11. word \in Seq(Chars) /\ \A i \in 1..Len(word) : 1 + i - 1 \in 1..n /\ word[i] = rest[1 + i - 1]
    <2>1. 1 \in 1..(r + 1)
        BY <1>8
    <2> QED BY <1>7, <1>9, <2>1, PartOf DEF r
<1>12. Printing(s) = 1..l => word = s
    BY <1>10, SubSeqFull DEF l
<1> HIDE DEF word
<1>13. \A i \in 1..Len(word) : word[i] \notin isspace
    <2> TAKE i \in 1..Len(word)
    <2>1. Len(word) \in Nat
        BY <1>11, LenProperties
    <2>2. 1 + i - 1 = i
        BY <2>1
    <2> QED BY <1>9, <1>11, <2>2
<1> QED BY <1>3, <1>12, <1>13 DEF l

(* So get_setting returns no white space, from any list.                   *)
LEMMA GotPrints ==
    ASSUME NEW Chars, NEW list \in Seq(Pairs(Chars)), NEW key
    PROVE  \A i \in 1..Len(get_setting(list, key)) : get_setting(list, key)[i] \notin isspace
<1> DEFINE at == {i \in 1..Len(list) : list[i][1] = key}
<1>1. Len(list) \in Nat
    BY LenProperties
<1>2. get_setting(list, key) = IF at = {} THEN <<>> ELSE first_word(list[Min(at)][2])
    BY DEF get_setting
<1>3. CASE at = {}
    BY <1>2, <1>3, EmptySeq
<1>4. CASE at # {}
    <2>1. Min(at) \in 1..Len(list)
        <3>1. at \in SUBSET Nat
            BY <1>1
        <3>2. Min(at) \in at
            <4> HIDE DEF at
            <4> QED BY <1>4, <3>1, MinIs
        <3> QED BY <3>2
    <2>2. list[Min(at)][2] \in Seq(Chars)
        <3>1. list[Min(at)] \in Pairs(Chars)
            BY <2>1, ElementOfSeq
        <3> QED BY <3>1 DEF Pairs
    <2>3. get_setting(list, key) = first_word(list[Min(at)][2])
        BY <1>2, <1>4
    <2> QED BY <2>2, <2>3, FirstWordPrints
<1> QED BY <1>3, <1>4

(* What was stored under a key is got back through the file exactly if it  *)
(* holds no white space.                                                   *)
LEMMA StoredIsRead ==
    ASSUME NEW Chars, seperator \in Chars, newline \in Chars,
           NEW key \in Seq(Chars), Plain(key, seperator), Plain(key, newline),
           NEW value \in Seq(Chars)
    PROVE  get_setting(parsed(get_settings_str(<< <<key, value>> >>)), key) = value
               <=> Printing(value) = DOMAIN value
<1> DEFINE list == << <<key, value>> >>
           loaded == parsed(get_settings_str(list))
<1>1. list \in Seq(Pairs(Chars)) /\ Len(list) = 1 /\ list[1][1] = key /\ list[1][2] = value
    <2>1. \A p \in Pairs(Chars) : <<p>> \in Seq(Pairs(Chars)) /\ Len(<<p>>) = 1 /\ <<p>>[1] = p
        OBVIOUS
    <2> QED BY <2>1 DEF Pairs
<1> HIDE DEF list
<1>2. DOMAIN value = 1..Len(value) /\ Printing(value) = {i \in 1..Len(value) : value[i] \notin isspace}
    BY LenProperties DEF Printing
<1>3. ASSUME get_setting(loaded, key) = value PROVE Printing(value) = DOMAIN value
    <2>1. get_settings_str(list) \in Seq(Chars)
        <3>1. Len(list) \in 0..Len(list)
            BY <1>1
        <3> QED BY <1>1, <3>1, StrIs
    <2>2. loaded \in Seq(Pairs(Chars))
        BY <2>1, ParsedIsClean
    <2> HIDE DEF loaded
    <2>3. \A i \in 1..Len(value) : value[i] \notin isspace
        BY <1>3, <2>2, GotPrints
    <2> QED BY <1>2, <2>3
<1>4. ASSUME Printing(value) = DOMAIN value PROVE get_setting(loaded, key) = value
    <2>1. \A i \in 1..Len(value) : value[i] # newline
        BY <1>2, <1>4 DEF isspace, newline
    <2>2. Positions(newline, key \o value) = {}
        BY <2>1, PlainConcat DEF Plain
    <2>3. Positions(seperator, key) = {}
        BY DEF Plain, Positions
    <2>4. \A i \in 1..Len(list) : Clean(list[i])
        BY <1>1, <2>2, <2>3 DEF Clean
    <2>5. loaded = list
        BY <1>1, <2>4, ReadBack
    <2> DEFINE at == {i \in 1..Len(list) : list[i][1] = key}
    <2>6. at = {1}
        BY <1>1
    <2>7. Min(at) = 1
        BY <2>6, MinOf
    <2>8. get_setting(list, key) = first_word(list[1][2])
        BY <2>6, <2>7 DEF get_setting
    <2>9. first_word(value) = value
        BY <1>2, <1>4, FirstWordPrints
    <2> QED BY <1>1, <2>5, <2>8, <2>9
<1> QED BY <1>3, <1>4 DEF list

-----------------------------------------------------------------------------
(* The characters of the texts of MCText, delimiters included.              *)
Chars == (UNION Alphabets) \cup {newline, seperator, " ", "k"}
TextInv == alphabet \in Alphabets /\ text \in Seq(Chars)

LEMMA TextInvariant == TextSpec => []TextInv
<1>1. TextInit => TextInv
    BY EmptySeq DEF TextInit, TextInv
<1>2. TextInv /\ [TextNext]_text_vars => TextInv'
    <2> SUFFICES ASSUME TextInv, [TextNext]_text_vars PROVE TextInv'
        OBVIOUS
    <2>1. CASE TextNext
        <3>1. PICK c \in alphabet : text' = Append(text, c)
            BY <2>1 DEF TextNext
        <3>2. c \in Chars /\ text \in Seq(Chars) /\ alphabet' = alphabet
            BY <2>1 DEF TextInv, TextNext, Chars
        <3>3. Append(text, c) \in Seq(Chars)
            BY <3>2, AppendProperties
        <3> QED BY <3>1, <3>2, <3>3 DEF TextInv
    <2>2. CASE UNCHANGED text_vars
        BY <2>2 DEF TextInv, text_vars
    <2> QED BY <2>1, <2>2
<1> QED BY <1>1, <1>2, PTL DEF TextSpec

LEMMA CutIsOfPairs ==
    ASSUME text \in Seq(Chars), NEW n \in 0..Len(text), 3 * n <= Len(text)
    PROVE  Cut(n) \in Seq(Pairs(Chars)) /\ Len(Cut(n)) = 2
<1> DEFINE l == Len(text)
           T == Seq(Chars)
           k1 == SubSeq(text, 1, n)
           v1 == SubSeq(text, n + 1, 2 * n)
           k2 == SubSeq(text, 2 * n + 1, 3 * n)
           v2 == SubSeq(text, 3 * n + 1, l)
<1>1. l \in Nat
    BY LenProperties
<1>2. \A i \in 1..(l + 1), j \in 0..l : SubSeq(text, i, j) \in T
    BY PartOf
<1> HIDE DEF T
<1>3. k1 \in T /\ v1 \in T /\ k2 \in T /\ v2 \in T
    <2> HIDE DEF l
    <2>1. /\ 1 \in 1..(l + 1) /\ n + 1 \in 1..(l + 1) /\ 2 * n + 1 \in 1..(l + 1) /\ 3 * n + 1 \in 1..(l + 1)
          /\ n \in 0..l /\ 2 * n \in 0..l /\ 3 * n \in 0..l /\ l \in 0..l
        BY <1>1 DEF l
    <2> QED BY <1>2, <2>1
<1>4. Cut(n) = <<<<k1, v1>>, <<k2, v2>>>>
    BY DEF Cut
<1> HIDE DEF k1, v1, k2, v2
<1>5. <<k1, v1>> \in Pairs(Chars) /\ <<k2, v2>> \in Pairs(Chars)
    BY <1>3 DEF Pairs, T
<1>6. \A p, q \in Pairs(Chars) : <<p, q>> \in Seq(Pairs(Chars)) /\ Len(<<p, q>>) = 2
    OBVIOUS
<1> QED BY <1>4, <1>5, <1>6

(* For a text of any characters and any length: save and load are inverse  *)
(* on what load reads from it and on two clean settings cut from it, and   *)
(* get_setting returns what was set exactly if it holds no white space.    *)
THEOREM SettingsSurviveTheFile == TextSpec => []SettingsSurvive
<1>1. TextInv => SettingsSurvive
    <2> SUFFICES ASSUME text \in Seq(Chars) PROVE SettingsSurvive
        BY DEF TextInv
    <2>1. seperator \in Chars /\ newline \in Chars /\ "k" \in Chars
        BY DEF Chars
    <2>2. LoadedSurvivesSave
        BY <2>1, ParsedIsClean, ReadBack DEF LoadedSurvivesSave
    <2>3. CleanSurvivesSave
        <3> SUFFICES ASSUME NEW n \in {k \in 0..Len(text) : 3 * k <= Len(text)},
                            \A i \in 1..2 : Clean(Cut(n)[i])
                     PROVE  parsed(get_settings_str(Cut(n))) = Cut(n)
            BY DEF CleanSurvivesSave
        <3>1. Cut(n) \in Seq(Pairs(Chars)) /\ Len(Cut(n)) = 2
            BY CutIsOfPairs
        <3> QED BY <2>1, <3>1, ReadBack
    <2>4. StoredIsGot
        <3> DEFINE key == <<"k">>
        <3>1. key \in Seq(Chars) /\ Plain(key, seperator) /\ Plain(key, newline)
            BY <2>1 DEF Plain, seperator, newline
        <3> HIDE DEF key
        <3>2. get_setting(parsed(get_settings_str(<< <<key, text>> >>)), key) = text
                  <=> Printing(text) = DOMAIN text
            BY <2>1, <3>1, StoredIsRead
        <3> QED BY <3>2 DEF StoredIsGot, key
    <2> QED BY <2>2, <2>3, <2>4 DEF SettingsSurvive
<1> QED BY <1>1, TextInvariant, PTL

-----------------------------------------------------------------------------
(***************************************************************************)
(* The tokenizer.  The positions of a delimiter are found in order, and    *)
(* all of them; the running start of the first two commands is right.      *)
(***************************************************************************)

(* What the loop has found among the first n characters.                   *)
FoundAll(pos, n, s, delim) ==
    /\ pos \in Seq(Nat)
    /\ \A k \in 1..Len(pos) : pos[k] + 1 \in 1..n /\ s[pos[k] + 1] = delim
    /\ \A j, k \in 1..Len(pos) : j < k => pos[j] < pos[k]
    /\ \A i \in 1..n : s[i] = delim => \E k \in 1..Len(pos) : pos[k] + 1 = i

Positioned(s, delim) == CHOOSE pos_out : pos_out = [i \in 0..Len(s) |->
    IF i = 0 THEN <<>>
    ELSE IF s[i] = delim THEN Append(pos_out[i - 1], i - 1)
    ELSE pos_out[i - 1]]

(* One character more of the text of delimiter_count.                      *)
MoreFound(pos, i, s, delim) == IF s[i] = delim THEN Append(pos, i - 1) ELSE pos

LEMMA PositionedIs ==
    ASSUME NEW s, NEW delim, Len(s) \in Nat
    PROVE  /\ delimiter_positions(s, delim) = Positioned(s, delim)[Len(s)]
           /\ Positioned(s, delim)[0] = <<>>
           /\ \A i \in 1..Len(s) : Positioned(s, delim)[i] =
                 MoreFound(Positioned(s, delim)[i - 1], i, s, delim)
<1> DEFINE T == Seq(Nat)
           n == Len(s)
           step == [i \in 1..n |-> [pos \in T |-> MoreFound(pos, i, s, delim)]]
           g == Positioned(s, delim)
<1>1. n \in Nat
    OBVIOUS
<1> HIDE DEF n
<1>2. \A i \in 1..n, pos \in T : MoreFound(pos, i, s, delim) \in T
    <2> TAKE i \in 1..n, pos \in T
    <2>1. i - 1 \in Nat
        BY <1>1
    <2>2. Append(pos, i - 1) \in T
        BY <2>1, AppendProperties
    <2> QED BY <2>2 DEF MoreFound
<1>3. <<>> \in T
    BY EmptySeq
<1>4. PICK f : f \in [0..n -> T] /\ f[0] = <<>> /\ \A i \in 1..n : f[i] = step[i][f[i - 1]]
    <2>1. step \in Steps(n, T)
        BY <1>2 DEF Steps
    <2> HIDE DEF step, T
    <2>2. \E f : Computes(f, n, T, <<>>, step)
        BY <1>1, <1>3, <2>1, Computed
    <2> QED BY <2>2 DEF Computes
<1> HIDE DEF T
<1>5. \A i \in 1..n : f[i] = MoreFound(f[i - 1], i, s, delim)
    <2> TAKE i \in 1..n
    <2>1. i - 1 \in 0..n
        BY <1>1
    <2>2. f[i - 1] \in T /\ f[i] = step[i][f[i - 1]]
        BY <1>4, <2>1
    <2> HIDE DEF step
    <2>3. step[i][f[i - 1]] = MoreFound(f[i - 1], i, s, delim)
        BY <2>2 DEF step
    <2> QED BY <2>2, <2>3
<1> HIDE DEF step
<1>6. f = [i \in 0..n |-> IF i = 0 THEN <<>>
                          ELSE IF s[i] = delim THEN Append(f[i - 1], i - 1)
                          ELSE f[i - 1]]
    <2>1. \A i \in 0..n : f[i] = IF i = 0 THEN <<>>
                          ELSE IF s[i] = delim THEN Append(f[i - 1], i - 1)
                          ELSE f[i - 1]
        <3> TAKE i \in 0..n
        <3>1. CASE i = 0
            BY <1>4, <3>1
        <3>2. CASE i # 0
            <4>1. i \in 1..n
                BY <1>1, <3>2
            <4> QED BY <1>5, <3>2, <4>1 DEF MoreFound
        <3> QED BY <3>1, <3>2
    <2>2. f = [i \in 0..n |-> f[i]]
        BY <1>4
    <2> QED BY <2>1, <2>2
<1>7. g = [i \in 0..n |-> IF i = 0 THEN <<>>
                          ELSE IF s[i] = delim THEN Append(g[i - 1], i - 1)
                          ELSE g[i - 1]]
    BY <1>6 DEF Positioned, n
<1>8. delimiter_positions(s, delim) = g[n]
    BY DEF delimiter_positions, Positioned, n
<1> HIDE DEF g
<1>9. g[0] = <<>>
    <2>1. 0 \in 0..n
        BY <1>1
    <2> QED BY <1>7, <2>1
<1>10. \A i \in 1..n : g[i] = MoreFound(g[i - 1], i, s, delim)
    <2> TAKE i \in 1..n
    <2>1. i \in 0..n /\ i # 0
        BY <1>1
    <2>2. g[i] = IF i = 0 THEN <<>>
                          ELSE IF s[i] = delim THEN Append(g[i - 1], i - 1)
                          ELSE g[i - 1]
        BY <1>7, <2>1
    <2> QED BY <2>1, <2>2 DEF MoreFound
<1> QED BY <1>8, <1>9, <1>10 DEF g, n

LEMMA OneMoreIsFound ==
    ASSUME NEW s, NEW delim, NEW i \in Nat \ {0}, NEW pos, FoundAll(pos, i - 1, s, delim)
    PROVE  FoundAll(MoreFound(pos, i, s, delim), i, s, delim)
<1>1. /\ pos \in Seq(Nat) /\ Len(pos) \in Nat
      /\ \A k \in 1..Len(pos) : pos[k] \in Nat /\ pos[k] + 1 \in 1..(i - 1) /\ s[pos[k] + 1] = delim
      /\ \A j, k \in 1..Len(pos) : j < k => pos[j] < pos[k]
      /\ \A k \in 1..(i - 1) : s[k] = delim => \E j \in 1..Len(pos) : pos[j] + 1 = k
    BY LenProperties, ElementOfSeq DEF FoundAll
<1>2. \A k \in 1..i : k # i => k \in 1..(i - 1)
    OBVIOUS
<1>3. CASE s[i] # delim
    <2>1. \A k \in 1..Len(pos) : pos[k] + 1 \in 1..i /\ s[pos[k] + 1] = delim
        BY <1>1
    <2> QED BY <1>1, <1>2, <1>3, <2>1 DEF FoundAll, MoreFound
<1>4. CASE s[i] = delim
    <2> DEFINE new == Append(pos, i - 1)
               n == Len(pos)
    <2>1. i - 1 \in Nat
        OBVIOUS
    <2>2. new \in Seq(Nat) /\ Len(new) = n + 1 /\ new[n + 1] = i - 1 /\ \A k \in 1..n : new[k] = pos[k]
        BY <1>1, <2>1, AppendProperties
    <2> HIDE DEF new, n
    <2>3. n \in Nat /\ \A k \in 1..(n + 1) : k = n + 1 \/ k \in 1..n
        BY <1>1 DEF n
    <2>4. \A k \in 1..(n + 1) : new[k] + 1 \in 1..i /\ s[new[k] + 1] = delim
        <3> TAKE k \in 1..(n + 1)
        <3>1. CASE k = n + 1
            <4>1. new[k] + 1 = i
                BY <2>2, <3>1
            <4> QED BY <1>4, <4>1
        <3>2. CASE k \in 1..n
            <4>1. new[k] = pos[k] /\ pos[k] + 1 \in 1..(i - 1) /\ s[pos[k] + 1] = delim
                BY <1>1, <2>2, <3>2 DEF n
            <4> QED BY <4>1
        <3> QED BY <2>3, <3>1, <3>2
    <2>5. \A j, k \in 1..(n + 1) : j < k => new[j] < new[k]
        <3> SUFFICES ASSUME NEW j \in 1..(n + 1), NEW k \in 1..(n + 1), j < k PROVE new[j] < new[k]
            OBVIOUS
        <3>1. j \in 1..n /\ new[j] = pos[j] /\ pos[j] \in Nat /\ pos[j] + 1 \in 1..(i - 1)
            BY <1>1, <2>2, <2>3 DEF n
        <3>2. CASE k = n + 1
            BY <2>2, <3>1, <3>2
        <3>3. CASE k \in 1..n
            BY <1>1, <2>2, <3>1, <3>3 DEF n
        <3> QED BY <2>3, <3>2, <3>3
    <2>6. ASSUME NEW m \in 1..i, s[m] = delim PROVE \E k \in 1..(n + 1) : new[k] + 1 = m
        <3>1. CASE m = i
            <4>1. n + 1 \in 1..(n + 1) /\ new[n + 1] + 1 = m
                BY <2>2, <2>3, <3>1
            <4> QED BY <4>1
        <3>2. CASE m # i
            <4>1. PICK k \in 1..n : pos[k] + 1 = m
                BY <1>1, <1>2, <2>6, <3>2 DEF n
            <4>2. k \in 1..(n + 1) /\ new[k] + 1 = m
                BY <2>2, <2>3, <4>1
            <4> QED BY <4>2
        <3> QED BY <3>1, <3>2
    <2> QED BY <1>4, <2>2, <2>4, <2>5, <2>6 DEF FoundAll, MoreFound, new
<1> QED BY <1>3, <1>4

LEMMA PositionsAreFound ==
    ASSUME NEW s, NEW delim, Len(s) \in Nat
    PROVE  FoundAll(delimiter_positions(s, delim), Len(s), s, delim)
<1> DEFINE g == Positioned(s, delim)
           S == {i \in 0..Len(s) : FoundAll(g[i], i, s, delim)}
<1>1. /\ delimiter_positions(s, delim) = g[Len(s)] /\ g[0] = <<>>
      /\ \A i \in 1..Len(s) : g[i] = MoreFound(g[i - 1], i, s, delim)
    BY PositionedIs
<1> HIDE DEF g
<1>2. 0 \in S
    <2>1. <<>> \in Seq(Nat) /\ Len(<<>>) = 0
        BY EmptySeq
    <2>2. \A k \in 1..0 : FALSE
        OBVIOUS
    <2>3. FoundAll(<<>>, 0, s, delim)
        BY <2>1, <2>2, Zenon DEF FoundAll
    <2>4. 0 \in 0..Len(s)
        OBVIOUS
    <2> QED BY <1>1, <2>3, <2>4
<1>3. ASSUME NEW i \in 1..Len(s), i - 1 \in S PROVE i \in S
    BY <1>1, <1>3, OneMoreIsFound
<1>4. 0..Len(s) \subseteq S
    <2> HIDE DEF S
    <2> QED BY <1>2, <1>3, UpTo
<1>5. Len(s) \in 0..Len(s)
    OBVIOUS
<1> QED BY <1>1, <1>4, <1>5

Started(pos_list) == CHOOSE start : start = [i \in 1..Len(pos_list) |->
    IF i = 1 THEN 0 ELSE start[i - 1] + pos_list[i - 1] + 1]

LEMMA StartIs ==
    ASSUME NEW pos_list \in Seq(Nat)
    PROVE  /\ DOMAIN start_index(pos_list) = 1..Len(pos_list)
           /\ 1 \in 1..Len(pos_list) => start_index(pos_list)[1] = 0
           /\ 2 \in 1..Len(pos_list) => start_index(pos_list)[2] = pos_list[1] + 1
<1> DEFINE n == Len(pos_list)
           m == IF n = 0 THEN 0 ELSE n - 1
           step == [i \in 1..m |-> [v \in Nat |-> v + pos_list[i] + 1]]
           g == Started(pos_list)
<1>1. n \in Nat /\ m \in Nat /\ m <= n /\ \A i \in 1..m : i \in 1..n
    BY LenProperties
<1>2. \A i \in 1..n : pos_list[i] \in Nat
    BY ElementOfSeq
<1>3. step \in Steps(m, Nat)
    BY <1>1, <1>2 DEF Steps
<1>4. PICK f \in [0..m -> Nat] : f[0] = 0 /\ \A i \in 1..m : f[i] = step[i][f[i - 1]]
    <2> HIDE DEF step, m
    <2>1. \E f : Computes(f, m, Nat, 0, step)
        BY <1>1, <1>3, Computed
    <2> QED BY <2>1 DEF Computes
<1> DEFINE h == [i \in 1..n |-> f[i - 1]]
<1>5. \A i \in 1..n : h[i] = IF i = 1 THEN 0 ELSE h[i - 1] + pos_list[i - 1] + 1
    <2> TAKE i \in 1..n
    <2>1. CASE i = 1
        BY <1>4, <2>1
    <2>2. CASE i # 1
        <3>1. i - 1 \in 1..m /\ i - 1 \in 1..n /\ i - 2 \in 0..m /\ (i - 1) - 1 = i - 2
            BY <1>1, <2>2
        <3>2. f[i - 2] \in Nat /\ f[i - 1] = step[i - 1][f[(i - 1) - 1]]
            BY <1>4, <3>1
        <3>3. f[i - 1] = f[i - 2] + pos_list[i - 1] + 1
            BY <3>1, <3>2
        <3>4. h[i] = f[i - 1] /\ h[i - 1] = f[i - 2]
            BY <3>1
        <3> QED BY <2>2, <3>3, <3>4
    <2> QED BY <2>1, <2>2
<1>6. h = [i \in 1..n |-> IF i = 1 THEN 0 ELSE h[i - 1] + pos_list[i - 1] + 1]
    BY <1>5
<1> HIDE DEF h
<1>7. g = [i \in 1..n |-> IF i = 1 THEN 0 ELSE g[i - 1] + pos_list[i - 1] + 1]
    BY <1>6 DEF Started
<1>8. start_index(pos_list) = g
    BY DEF start_index, Started
<1> HIDE DEF g, n, m, step
<1>9. 1 \in 1..n => g[1] = 0
    BY <1>7
<1>10. 2 \in 1..n => g[2] = pos_list[1] + 1
    <2> SUFFICES ASSUME 2 \in 1..n PROVE g[2] = pos_list[1] + 1
        OBVIOUS
    <2>1. 1 \in 1..n /\ 2 - 1 = 1
        BY <1>1
    <2>2. ASSUME NEW i \in 1..n, i = 2 PROVE g[i] = g[i - 1] + pos_list[i - 1] + 1
        <3>1. g[i] = IF i = 1 THEN 0 ELSE g[i - 1] + pos_list[i - 1] + 1
            BY <1>7
        <3>2. i # 1
            BY <2>2
        <3> QED BY <3>1, <3>2
    <2>3. 1 \in 1..n /\ pos_list[1] \in Nat
        BY <1>1, <1>2 DEF n
    <2>4. g[1] = 0
        BY <1>9, <2>3
    <2>5. g[2] = g[2 - 1] + pos_list[2 - 1] + 1
        BY <2>2
    <2>6. g[2] = g[1] + pos_list[1] + 1
        BY <2>1, <2>5
    <2> QED BY <2>3, <2>4, <2>6
<1>11. DOMAIN g = 1..n
    BY <1>7
<1> QED BY <1>8, <1>9, <1>10, <1>11 DEF n

-----------------------------------------------------------------------------
(* Arithmetic on size_t below its modulus is that on numbers.              *)
LEMMA Fits ==
    ASSUME NEW m \in Nat \ {0}, NEW a \in Nat, a < m
    PROVE  a % m = a
OBVIOUS

(* The part of s between two positions of P.                               *)
Part(s, P, i) == SubSeq(s, IF i = 1 THEN 1 ELSE P[i - 1] + 2, P[i])

LEMMA FragmentIs ==
    ASSUME NEW s, Len(s) \in Nat, Len(s) < SizeT, NEW delim, NEW P, P = delimiter_positions(s, delim)
    PROVE  /\ DOMAIN substrings(s, P) = 1..Len(P) /\ Len(P) \in Nat
           /\ \A i \in 1..Len(P) :
                 i <= 2 => /\ substrings(s, P)[i] = Part(s, P, i)
                           /\ start_index(P)[i] \in Nat /\ start_index(P)[i] <= Len(s)
<1>1. /\ P \in Seq(Nat) /\ Len(P) \in Nat
      /\ \A k \in 1..Len(P) : P[k] \in Nat /\ P[k] + 1 \in 1..Len(s)
      /\ \A j, k \in 1..Len(P) : j < k => P[j] < P[k]
    BY PositionsAreFound, LenProperties, ElementOfSeq DEF FoundAll
<1> DEFINE start == start_index(P)
           cut(i) == substr(s, start[i], (P[i] - start[i]) % SizeT)
<1>2. /\ DOMAIN start = 1..Len(P)
      /\ 1 \in 1..Len(P) => start[1] = 0
      /\ 2 \in 1..Len(P) => start[2] = P[1] + 1
    BY <1>1, StartIs
<1> HIDE DEF start
<1>3. substrings(s, P) = [i \in 1..Len(P) |-> cut(i)]
    BY DEF substrings, start
<1>4. SizeT \in Nat \ {0}
    BY SizeTAssumption
<1>5. ASSUME 1 \in 1..Len(P) PROVE cut(1) = SubSeq(s, 1, P[1]) /\ start[1] \in Nat /\ start[1] <= Len(s)
    <2>1. start[1] = 0 /\ P[1] \in Nat /\ P[1] < Len(s)
        BY <1>1, <1>2, <1>5
    <2>2. P[1] - start[1] = P[1] /\ P[1] < SizeT
        BY <1>4, <2>1
    <2>3. (P[1] - start[1]) % SizeT = P[1]
        BY <1>4, <2>1, <2>2, Fits
    <2> QED BY <2>1, <2>3 DEF substr
<1>6. ASSUME 2 \in 1..Len(P)
      PROVE  cut(2) = SubSeq(s, P[1] + 2, P[2]) /\ start[2] \in Nat /\ start[2] <= Len(s)
    <2>1. 1 \in 1..Len(P)
        BY <1>1, <1>6
    <2>2. /\ start[2] = P[1] + 1 /\ P[1] \in Nat /\ P[2] \in Nat /\ P[1] < P[2]
          /\ P[2] < Len(s)
        BY <1>1, <1>2, <1>6, <2>1
    <2>3. P[2] - start[2] \in Nat /\ P[2] - start[2] < SizeT
        BY <1>4, <2>2
    <2>4. (P[2] - start[2]) % SizeT = P[2] - start[2]
        BY <1>4, <2>3, Fits
    <2>5. /\ start[2] + (P[2] - start[2]) = P[2] /\ start[2] + 1 = P[1] + 2
          /\ start[2] \in Nat /\ start[2] <= Len(s)
        BY <2>2
    <2> HIDE DEF start
    <2> QED BY <2>2, <2>4, <2>5 DEF substr
<1> HIDE DEF cut
<1>7. ASSUME NEW i \in 1..Len(P), i <= 2
      PROVE  cut(i) = Part(s, P, i) /\ start[i] \in Nat /\ start[i] <= Len(s)
    <2>1. i = 1 \/ i = 2
        BY <1>7
    <2>2. CASE i = 1
        <3>1. Part(s, P, 1) = SubSeq(s, 1, P[1])
            BY DEF Part
        <3> QED BY <1>5, <2>2, <3>1
    <2>3. CASE i = 2
        <3>1. 2 - 1 = 1 /\ 2 # 1
            OBVIOUS
        <3>2. Part(s, P, 2) = SubSeq(s, P[1] + 2, P[2])
            BY <3>1 DEF Part
        <3> QED BY <1>6, <2>3, <3>2
    <2> QED BY <2>1, <2>2, <2>3
<1> QED BY <1>1, <1>3, <1>7 DEF start

(* The first two commands of a chunk are cut out exactly.                  *)
LEMMA TwoCommandsHold ==
    ASSUME Len(text) \in Nat, Len(text) < SizeT
    PROVE  TwoCommandsAreExact
<1> DEFINE P == Delimiters
           fragments == substrings(text, P)
           begins == start_index(P)
<1>0. \A i : Command(i) = Part(text, P, i)
    BY DEF Command, Part
<1> HIDE DEF P, fragments, begins
<1>1. P = delimiter_positions(text, ";")
    BY DEF Delimiters, P
<1>2. /\ DOMAIN fragments = 1..Len(P) /\ Len(P) \in Nat
      /\ \A i \in 1..Len(P) :
            i <= 2 => /\ fragments[i] = Part(text, P, i)
                      /\ begins[i] \in Nat /\ begins[i] <= Len(text)
    BY <1>1, FragmentIs DEF fragments, begins
<1>3. fragments = [i \in 1..Len(P) |-> fragments[i]]
    BY DEF substrings, fragments
<1>4. /\ Throws(text, P) <=> \E i \in 1..Len(P) : begins[i] > Len(text)
      /\ ParseThrows(text) = Throws(text, P)
    BY <1>1 DEF Throws, ParseThrows, begins
<1>5. ASSUME Len(P) <= 2
      PROVE  ~ Throws(text, P) /\ fragments = [i \in 1..Len(P) |-> Command(i)]
    <2>1. \A i \in 1..Len(P) : i <= 2
        BY <1>2, <1>5
    <2>2. \A i \in 1..Len(P) : begins[i] \in Nat /\ begins[i] <= Len(text)
        BY <1>2, <2>1
    <2>3. \A i \in 1..Len(P) : ~ (begins[i] > Len(text))
        BY <2>2
    <2>4. \A i \in 1..Len(P) : fragments[i] = Command(i)
        BY <1>0, <1>2, <2>1
    <2> QED BY <1>3, <1>4, <2>3, <2>4
<1> QED BY <1>4, <1>5 DEF TwoCommandsAreExact, P, fragments

(* In a chunk that does not throw the first two commands are found.        *)
LEMMA FirstTwoHold ==
    ASSUME Len(text) \in Nat, Len(text) < SizeT
    PROVE  FirstTwoCommandsSurvive
<1> DEFINE P == Delimiters
           fragments == substrings(text, P)
<1>0. \A i : Command(i) = Part(text, P, i)
    BY DEF Command, Part
<1> HIDE DEF P, fragments
<1>1. P = delimiter_positions(text, ";")
    BY DEF Delimiters, P
<1>2. /\ DOMAIN fragments = 1..Len(P)
      /\ \A i \in 1..Len(P) :
            i <= 2 => fragments[i] = Part(text, P, i)
    BY <1>1, FragmentIs DEF fragments
<1>3. Len(fragments) = Len(P)
    <2>1. Len(P) \in Nat
        BY <1>1, FragmentIs
    <2> QED BY <2>1 DEF substrings, fragments
<1>4. parse(text) = [i \in 1..Len(P) |-> split_to_two(fragments[i], ":")]
    BY <1>1, <1>3 DEF parse, fragments
<1>5. \A i \in 1..Len(P) : i <= 2 => parse(text)[i] = split_to_two(Command(i), ":")
    BY <1>0, <1>2, <1>4
<1> QED BY <1>5 DEF FirstTwoCommandsSurvive, P

-----------------------------------------------------------------------------
(* A text is its part before an element, the element and the rest.         *)
LEMMA CutAt ==
    ASSUME NEW S, NEW s \in Seq(S), NEW k \in 1..Len(s)
    PROVE  SubSeq(s, 1, k - 1) \o <<s[k]>> \o SubSeq(s, k + 1, Len(s)) = s
<1>1. Len(s) \in Nat
    BY LenProperties
<1>2. 1 \in 1..Len(s) /\ k \in 1..Len(s)
    BY <1>1
<1>3. SubSeq(s, 1, k) = SubSeq(s, 1, k - 1) \o <<s[k]>>
    BY <1>2, SubSeqRecursiveSecond
<1>4. 1 \in 1..(Len(s) + 1) /\ k \in (1 - 1)..Len(s) /\ Len(s) \in k..Len(s)
    BY <1>1
<1>5. SubSeq(s, 1, k) \o SubSeq(s, k + 1, Len(s)) = SubSeq(s, 1, Len(s))
    BY <1>4, ConcatAdjacentSubSeq
<1>6. SubSeq(s, 1, Len(s)) = s
    BY SubSeqFull
<1> QED BY <1>3, <1>5, <1>6

(* The halves split_to_two makes of a text.                                *)
LEMMA HalvesAre ==
    ASSUME NEW S, NEW s \in Seq(S), Len(s) < SizeT, NEW delim
    PROVE  \/ /\ Plain(s, delim)
              /\ split_to_two(s, delim) = <<s, s>>
           \/ \E k \in 1..Len(s) :
                 /\ s[k] = delim /\ \A i \in 1..(k - 1) : s[i] # delim
                 /\ split_to_two(s, delim) = <<SubSeq(s, 1, k - 1), SubSeq(s, k + 1, Len(s))>>
<1> DEFINE found == delimiter_positions(s, delim)
           n == Len(s)
           pos == IF found = <<>> THEN npos ELSE found[1]
           next == (pos + 1) % SizeT
           rest == (n - next) % SizeT
<1>1. n \in Nat /\ n < SizeT /\ SizeT \in Nat \ {0}
    BY LenProperties, SizeTAssumption
<1>2. /\ found \in Seq(Nat) /\ Len(found) \in Nat
      /\ \A k \in 1..Len(found) : found[k] \in Nat /\ found[k] + 1 \in 1..n /\ s[found[k] + 1] = delim
      /\ \A j, k \in 1..Len(found) : j < k => found[j] < found[k]
      /\ \A i \in 1..n : s[i] = delim => \E k \in 1..Len(found) : found[k] + 1 = i
    BY <1>1, PositionsAreFound, LenProperties, ElementOfSeq DEF FoundAll
<1>3. split_to_two(s, delim) = <<substr(s, 0, pos), substr(s, next, rest)>>
    BY DEF split_to_two
<1> HIDE DEF found, n
<1>4. CASE found = <<>>
    <2>1. \A k \in 1..Len(found) : FALSE
        BY <1>4, EmptySeq
    <2>2. Plain(s, delim)
        BY <1>2, <2>1 DEF Plain, n
    <2>3. pos = SizeT - 1 /\ pos + 1 = SizeT
        BY <1>1, <1>4 DEF npos
    <2>4. next = 0
        BY <1>1, <2>3
    <2>5. rest = n
        <3>1. n - next = n
            BY <1>1, <2>4
        <3> QED BY <1>1, <3>1, Fits
    <2>6. SubSeq(s, 1, n) = s
        BY SubSeqFull DEF n
    <2>7. substr(s, 0, pos) = s
        <3>1. ~ (0 + pos < n) /\ 0 + 1 = 1
            BY <1>1, <2>3
        <3> QED BY <2>6, <3>1 DEF substr, n
    <2>8. substr(s, next, rest) = s
        <3>1. ~ (0 + n < n) /\ 0 + 1 = 1
            BY <1>1
        <3> QED BY <2>4, <2>5, <2>6, <3>1 DEF substr, n
    <2> QED BY <1>3, <2>2, <2>7, <2>8
<1>5. CASE found # <<>>
    <2> DEFINE k == found[1] + 1
    <2>1. 1 \in 1..Len(found) /\ Len(found) \in Nat \ {0}
        BY <1>2, <1>5, EmptySeq
    <2>2. k \in 1..n /\ s[k] = delim /\ found[1] \in Nat /\ k = found[1] + 1
        BY <1>2, <2>1
    <2>3. ASSUME NEW i \in 1..(k - 1), s[i] = delim PROVE FALSE
        <3>1. i \in 1..n
            BY <1>1, <2>2
        <3>2. PICK m \in 1..Len(found) : found[m] + 1 = i
            BY <1>2, <2>3, <3>1
        <3>3. found[m] \in Nat /\ found[m] < found[1]
            BY <1>2, <2>2, <3>2
        <3>4. ~ (1 < m)
            <4>1. 1 < m => found[1] < found[m]
                BY <1>2, <2>1
            <4> QED BY <2>2, <3>3, <4>1
        <3>5. m = 1
            BY <2>1, <3>4
        <3> QED BY <2>2, <3>3, <3>5
    <2>4. pos = k - 1 /\ pos + 1 = k /\ pos \in Nat
        BY <1>5, <2>2
    <2>5. next = k
        <3>1. k \in Nat /\ k < SizeT
            BY <1>1, <2>2
        <3> QED BY <1>1, <2>4, <3>1, Fits
    <2> HIDE DEF k
    <2>6. rest = n - k
        <3>1. n - k \in Nat /\ n - k < SizeT
            BY <1>1, <2>2
        <3> QED BY <1>1, <2>5, <3>1, Fits
    <2>7. substr(s, 0, pos) = SubSeq(s, 1, k - 1)
        <3>1. 0 + (k - 1) = k - 1 /\ k - 1 < n /\ 0 + 1 = 1
            BY <1>1, <2>2
        <3> QED BY <2>4, <3>1 DEF substr, n
    <2>8. substr(s, next, rest) = SubSeq(s, k + 1, n)
        <3>1. k + (n - k) = n /\ ~ (n < n)
            BY <1>1, <2>2
        <3> QED BY <2>5, <2>6, <3>1 DEF substr, n
    <2> QED BY <1>3, <2>2, <2>3, <2>7, <2>8 DEF n
<1> QED BY <1>4, <1>5

LEMMA SplitHolds ==
    ASSUME text \in Seq(Chars), Len(text) < SizeT
    PROVE  SplitIsLossless
<1> DEFINE pair == split_to_two(text, ":")
           n == Len(text)
<1>1. n \in Nat
    BY LenProperties
<1>2. Contains(text, ":") <=> ~ Plain(text, ":")
    BY DEF Contains, Plain
<1>3. CASE Plain(text, ":") /\ pair = <<text, text>>
    BY <1>2, <1>3 DEF SplitIsLossless
<1>4. ASSUME NEW k \in 1..n, text[k] = ":", \A i \in 1..(k - 1) : text[i] # ":",
             pair = <<SubSeq(text, 1, k - 1), SubSeq(text, k + 1, n)>>
      PROVE  SplitIsLossless
    <2>0. pair[1] = SubSeq(text, 1, k - 1) /\ pair[2] = SubSeq(text, k + 1, n)
        BY <1>4
    <2>1. pair[1] \o <<":">> \o pair[2] = text
        <3>1. SubSeq(text, 1, k - 1) \o <<text[k]>> \o SubSeq(text, k + 1, n) = text
            BY CutAt
        <3>2. SubSeq(text, 1, k - 1) \o <<":">> \o SubSeq(text, k + 1, n) = text
            BY <1>4, <3>1
        <3> HIDE DEF pair
        <3> QED BY <2>0, <3>2
    <2>2. Plain(pair[1], ":")
        <3>1. 1 \in 1..(n + 1) /\ k - 1 \in 0..n
            BY <1>1
        <3>2. Plain(SubSeq(text, 1, k - 1), ":")
            BY <1>4, <3>1, PlainPart
        <3> HIDE DEF pair
        <3> QED BY <2>0, <3>2
    <2>3. ~ Contains(pair[1], ":")
        BY <2>2 DEF Contains, Plain
    <2>4. Contains(text, ":")
        BY <1>4 DEF Contains
    <2> QED BY <2>1, <2>3, <2>4 DEF SplitIsLossless
<1>5. \/ Plain(text, ":") /\ pair = <<text, text>>
      \/ \E k \in 1..n :
            /\ text[k] = ":" /\ \A i \in 1..(k - 1) : text[i] # ":"
            /\ pair = <<SubSeq(text, 1, k - 1), SubSeq(text, k + 1, n)>>
    BY HalvesAre
<1> QED BY <1>3, <1>4, <1>5

-----------------------------------------------------------------------------
LEMMA MaxOf ==
    ASSUME NEW S \in SUBSET Nat, NEW x \in S, \A y \in S : y <= x
    PROVE  Max(S) = x
<1>1. \A y \in S : y \in Nat
    OBVIOUS
<1>2. x \in S /\ \A y \in S : x >= y
    BY <1>1
<1>3. Max(S) \in S /\ \A y \in S : Max(S) >= y
    BY <1>2 DEF Max
<1>4. Max(S) \in Nat /\ x \in Nat /\ Max(S) >= x /\ x >= Max(S)
    BY <1>1, <1>2, <1>3
<1> QED BY <1>4

LEMMA MaxIs ==
    ASSUME NEW n \in Nat, NEW S \in SUBSET (1..n), S # {}
    PROVE  Max(S) \in S /\ \A y \in S : y <= Max(S)
<1> DEFINE T == {n - y : y \in S}
<1>1. T \in SUBSET Nat /\ T # {}
    <2>1. \A y \in S : n - y \in Nat
        OBVIOUS
    <2>2. PICK y \in S : TRUE
        OBVIOUS
    <2>3. n - y \in T
        BY <2>2
    <2> QED BY <2>1, <2>3, Zenon
<1>2. Min(T) \in T /\ \A y \in T : Min(T) <= y
    BY <1>1, MinIs
<1>3. PICK x \in S : Min(T) = n - x
    BY <1>2
<1>4. \A y \in S : y <= x
    <2> TAKE y \in S
    <2>1. n - x <= n - y
        BY <1>2, <1>3
    <2> QED BY <2>1
<1>5. S \in SUBSET Nat
    OBVIOUS
<1>6. Max(S) = x
    BY <1>4, <1>5, MaxOf
<1> QED BY <1>4, <1>6

(* trim leaves the text from the first to the last printing character.     *)
LEMMA TrimIs ==
    ASSUME NEW S, NEW s \in Seq(S)
    PROVE  IF Printing(s) = {} THEN trim(s) = <<>>
           ELSE trim(s) = SubSeq(s, Min(Printing(s)), Max(Printing(s)))
<1> DEFINE n == Len(s)
           P == Printing(s)
           r == ltrim(s)
           Q == Printing(r)
           min == Min(P)
           max == Max(P)
<1>1. n \in Nat /\ P = {i \in 1..n : s[i] \notin isspace}
    BY LenProperties DEF Printing
<1>2. trim(s) = SubSeq(r, 1, IF Q = {} THEN 0 ELSE Max(Q))
    BY DEF trim, rtrim
<1>3. r = SubSeq(s, IF P = {} THEN n + 1 ELSE min, n)
    BY DEF ltrim
<1>4. Q = {i \in 1..Len(r) : r[i] \notin isspace}
    BY DEF Printing
<1> HIDE DEF P, Q, r, n
<1>5. CASE P = {}
    <2>1. r = <<>>
        BY <1>1, <1>3, <1>5, SubSeqEmpty
    <2>2. Q = {}
        BY <1>4, <2>1, EmptySeq
    <2>3. SubSeq(r, 1, 0) = <<>>
        BY SubSeqEmpty
    <2> QED BY <1>2, <1>5, <2>2, <2>3 DEF P
<1>6. CASE P # {}
    <2>1. P \in SUBSET (1..n) /\ P \in SUBSET Nat
        BY <1>1
    <2>2. min \in P /\ max \in P /\ (\A i \in P : min <= i /\ i <= max)
        BY <1>1, <1>6, <2>1, MinIs, MaxIs
    <2> HIDE DEF min, max
    <2>3. min \in 1..n /\ max \in 1..n /\ min <= max /\ r = SubSeq(s, min, n)
        BY <1>3, <1>6, <2>1, <2>2
    <2> DEFINE last == max - min + 1
    <2>4. /\ Len(r) = n - min + 1
          /\ \A i \in 1..Len(r) : min + i - 1 \in min..n /\ r[i] = s[min + i - 1]
        <3>1. min \in 1..(n + 1) /\ n \in 0..n /\ min <= n
            BY <1>1, <2>3
        <3> QED BY <2>3, <3>1, PartOf DEF n
    <2>5. last \in 1..Len(r) /\ min + last - 1 = max /\ last \in Nat
        BY <1>1, <2>3, <2>4
    <2>6. last \in Q
        <3>1. r[last] = s[max] /\ s[max] \notin isspace
            BY <1>1, <2>2, <2>4, <2>5
        <3> QED BY <1>4, <2>5, <3>1
    <2> HIDE DEF last
    <2>7. \A i \in Q : i <= last
        <3> TAKE i \in Q
        <3>1. i \in 1..Len(r) /\ i \in Nat
            BY <1>1, <1>4, <2>3, <2>4
        <3>2. min + i - 1 \in P
            BY <1>1, <1>4, <2>3, <2>4, <3>1
        <3> QED BY <2>2, <2>3, <3>1, <3>2 DEF last
    <2>8. Max(Q) = last
        <3>1. Q \in SUBSET Nat
            BY <1>4
        <3> QED BY <2>6, <2>7, <3>1, MaxOf
    <2>9. trim(s) = SubSeq(r, 1, last)
        BY <1>2, <2>6, <2>8
    <2>10. SubSeq(SubSeq(s, min, n), 1, last) = SubSeq(s, min + 1 - 1, min + last - 1)
        <3>1. /\ n \in 1..Len(s) /\ min \in 1..Len(s)
              /\ 1 \in 1..(n - min + 1) /\ last \in 1..(n - min + 1)
            BY <1>1, <2>3, <2>4, <2>5 DEF n
        <3> QED BY <3>1, SubSeqOfSubSeq
    <2>11. min + 1 - 1 = min
        BY <2>3
    <2> QED BY <1>6, <2>3, <2>5, <2>9, <2>10, <2>11 DEF P, min, max
<1> QED BY <1>5, <1>6

LEMMA TrimHolds == ASSUME text \in Seq(Chars) PROVE TrimIsExact
<1> DEFINE P == Printing(text)
           u == trim(text)
           m == Min(P)
           n == Max(P)
<1>1. IF P = {} THEN u = <<>> ELSE u = SubSeq(text, m, n)
    BY TrimIs
<1>2. Len(text) \in Nat /\ P \in SUBSET (1..Len(text)) /\ P \in SUBSET Nat
    BY LenProperties DEF Printing
<1> HIDE DEF P, u
<1>3. CASE P = {}
    <2>1. u = <<>> /\ <<>> \in Seq(Chars) /\ Len(<<>>) = 0
        BY <1>1, <1>3, EmptySeq
    <2>2. Printing(<<>>) = {}
        BY <2>1 DEF Printing
    <2>3. trim(<<>>) = <<>>
        BY <2>1, <2>2, TrimIs
    <2> QED BY <1>1, <1>3, <2>1, <2>3 DEF TrimIsExact, P, u
<1>4. CASE P # {}
    <2>1. m \in P /\ n \in P /\ m <= n
        BY <1>2, <1>4, MinIs, MaxIs
    <2>2. text[m] \notin isspace /\ text[n] \notin isspace
        BY <2>1 DEF P, Printing
    <2>3. m \in 1..Len(text) /\ n \in 1..Len(text)
        BY <1>2, <2>1
    <2> DEFINE l == n - m + 1
    <2> HIDE DEF m, n
    <2>4. /\ u \in Seq(Chars) /\ Len(u) = l
          /\ \A i \in 1..l : u[i] = text[m + i - 1]
        <3>1. m \in 1..(Len(text) + 1) /\ n \in 0..Len(text)
            BY <1>2, <2>3
        <3>2. u = SubSeq(text, m, n)
            BY <1>1, <1>4 DEF m, n
        <3> QED BY <2>1, <3>1, <3>2, PartOf
    <2>5. 1 \in 1..l /\ l \in 1..l /\ m + 1 - 1 = m /\ m + l - 1 = n /\ l \in Nat
        BY <2>1, <2>3
    <2>6. u[1] = text[m] /\ u[l] = text[n]
        BY <2>4, <2>5
    <2> HIDE DEF l
    <2>7. 1 \in Printing(u) /\ l \in Printing(u) /\ Printing(u) \in SUBSET Nat
        BY <2>2, <2>4, <2>5, <2>6 DEF Printing
    <2>8. \A i \in Printing(u) : 1 <= i /\ i <= l
        BY <2>4, <2>5 DEF Printing
    <2>9. Min(Printing(u)) = 1 /\ Max(Printing(u)) = l
        BY <2>7, <2>8, MinOf, MaxOf
    <2>10. trim(u) = SubSeq(u, 1, l)
        BY <2>4, <2>7, <2>9, TrimIs
    <2>11. trim(u) = u
        BY <2>4, <2>10, SubSeqFull
    <2> QED BY <1>1, <1>4, <2>11 DEF TrimIsExact, P, u, m, n
<1> QED BY <1>3, <1>4

LEMMA FileNameHolds ==
    ASSUME text \in Seq(Chars), Len(text) < Int32
    PROVE  FileNameIsTheLastPart
<1> DEFINE P == Positions("/", text)
           n == Len(text)
           name == GetFileName(text)
<1>1. n \in Nat /\ P = {i \in 1..n : text[i] = "/"} /\ Int32 = 65536
    BY LenProperties DEF Positions, Int32
<1>2. name = SubSeq(text, (((IF P = {} THEN Int32 - 1 ELSE Max(P) - 1) + 1) % Int32) + 1, n)
    BY DEF GetFileName
<1> HIDE DEF P, name
<1>3. CASE P = {}
    <2>1. name = SubSeq(text, 1, n)
        <3>1. (((65536 - 1) + 1) % 65536) + 1 = 1
            OBVIOUS
        <3> QED BY <1>1, <1>2, <1>3, <3>1
    <2>2. name = text
        BY <2>1, SubSeqFull
    <2>3. ~ Contains(text, "/")
        BY <1>1, <1>3 DEF Contains
    <2> QED BY <2>2, <2>3 DEF FileNameIsTheLastPart, name
<1>4. CASE P # {}
    <2> DEFINE k == Max(P)
    <2>1. k \in P /\ \A i \in P : i <= k
        <3>1. P \in SUBSET (1..n)
            BY <1>1
        <3>2. Max(P) \in P /\ \A y \in P : y <= Max(P)
            <4>1. n \in Nat
                BY <1>1
            <4> HIDE DEF n, k
            <4> QED BY <1>4, <3>1, <4>1, MaxIs
        <3> QED BY <3>2
    <2> HIDE DEF k
    <2>2. k \in 1..n /\ k < Int32
        BY <1>1, <2>1
    <2>3. (k - 1) + 1 = k /\ k % Int32 = k
        <3>1. k \in Nat /\ Int32 \in Nat \ {0} /\ k < Int32
            BY <1>1, <2>2
        <3> QED BY <3>1, Fits
    <2>4. name = SubSeq(text, k + 1, n)
        BY <1>2, <1>4, <2>3 DEF k
    <2>5. Plain(name, "/")
        <3>1. k + 1 \in 1..(n + 1) /\ n \in 0..n
            BY <1>1, <2>2
        <3>2. \A i \in (k + 1)..n : text[i] # "/"
            <4> TAKE i \in (k + 1)..n
            <4>1. i \in 1..n /\ ~ (i <= k)
                BY <1>1, <2>2
            <4> QED BY <1>1, <2>1, <4>1
        <3>3. Plain(SubSeq(text, k + 1, n), "/")
            BY <3>1, <3>2, PlainPart
        <3> QED BY <2>4, <3>3
    <2>6. ~ Contains(name, "/")
        BY <2>5 DEF Contains, Plain
    <2>7. text = SubSeq(text, 1, k) \o name
        <3>1. 1 \in 1..(n + 1) /\ k \in (1 - 1)..n /\ n \in k..n
            BY <1>1, <2>2
        <3>2. SubSeq(text, 1, k) \o SubSeq(text, k + 1, n) = SubSeq(text, 1, n)
            BY <3>1, ConcatAdjacentSubSeq
        <3>3. SubSeq(text, 1, n) = text
            BY SubSeqFull
        <3> QED BY <2>4, <3>2, <3>3
    <2> QED BY <2>1, <2>6, <2>7 DEF FileNameIsTheLastPart, name, P
<1> QED BY <1>3, <1>4

-----------------------------------------------------------------------------
(* A concatenation of pieces grows by its last piece.                      *)
Flattened(seqs) == CHOOSE flatten : flatten = [i \in 1..Len(seqs) |->
    IF i = 1 THEN seqs[i] ELSE flatten[i - 1] \o seqs[i]]

Grows(f, S, seqs) ==
    /\ f \in [0..Len(seqs) -> Seq(S)]
    /\ f[0] = <<>> /\ \A i \in 1..Len(seqs) : f[i] = f[i - 1] \o seqs[i]

LEMMA FlatIs ==
    ASSUME NEW S, NEW seqs \in Seq(Seq(S))
    PROVE  \E f : Grows(f, S, seqs) /\ FlattenSeq(seqs) = f[Len(seqs)]
<1> DEFINE T == Seq(S)
           n == Len(seqs)
           step == [i \in 1..n |-> [done \in T |-> done \o seqs[i]]]
           g == Flattened(seqs)
<1>1. n \in Nat /\ <<>> \in T /\ \A i \in 1..n : seqs[i] \in T
    BY LenProperties, EmptySeq, ElementOfSeq
<1>2. \A i \in 1..n, done \in T : done \o seqs[i] \in T
    BY <1>1, ConcatProperties
<1> HIDE DEF T, n
<1>3. PICK f : f \in [0..n -> T] /\ f[0] = <<>> /\ \A i \in 1..n : f[i] = step[i][f[i - 1]]
    <2>1. step \in Steps(n, T)
        BY <1>2 DEF Steps
    <2> HIDE DEF step
    <2>2. \E f : Computes(f, n, T, <<>>, step)
        BY <1>1, <2>1, Computed
    <2> QED BY <2>2 DEF Computes
<1>4. \A i \in 1..n : f[i - 1] \in T /\ f[i] = f[i - 1] \o seqs[i]
    <2> TAKE i \in 1..n
    <2>1. i - 1 \in 0..n
        BY <1>1
    <2>2. f[i - 1] \in T /\ f[i] = step[i][f[i - 1]]
        BY <1>3, <2>1
    <2>3. step[i][f[i - 1]] = f[i - 1] \o seqs[i]
        BY <2>2
    <2> QED BY <2>2, <2>3
<1> HIDE DEF step
<1>5. Grows(f, S, seqs)
    BY <1>3, <1>4 DEF Grows, n, T
<1>6. CASE n = 0
    <2>1. seqs = <<>>
        BY <1>6, EmptySeq DEF n
    <2>2. FlattenSeq(seqs) = seqs
        BY <1>6 DEF FlattenSeq, n
    <2>3. FlattenSeq(seqs) = f[n]
        BY <1>3, <1>6, <2>1, <2>2
    <2> QED BY <1>5, <2>3 DEF n
<1>7. CASE n # 0
    <2> DEFINE h == [i \in 1..n |-> f[i]]
    <2>1. \A i \in 1..n : h[i] = IF i = 1 THEN seqs[i] ELSE h[i - 1] \o seqs[i]
        <3> TAKE i \in 1..n
        <3>1. h[i] = f[i] /\ f[i] = f[i - 1] \o seqs[i] /\ seqs[i] \in T
            BY <1>1, <1>4
        <3>2. CASE i = 1
            <4>1. f[i - 1] = <<>>
                BY <1>3, <3>2
            <4>2. <<>> \o seqs[i] = seqs[i]
                BY <3>1, ConcatEmptySeq DEF T
            <4> QED BY <3>1, <3>2, <4>1, <4>2
        <3>3. CASE i # 1
            <4>1. i - 1 \in 1..n
                BY <1>1, <3>3
            <4>2. h[i - 1] = f[i - 1]
                BY <4>1
            <4> QED BY <3>1, <3>3, <4>2
        <3> QED BY <3>2, <3>3
    <2>2. h = [i \in 1..n |-> IF i = 1 THEN seqs[i] ELSE h[i - 1] \o seqs[i]]
        BY <2>1
    <2> HIDE DEF h
    <2>3. g = [i \in 1..n |-> IF i = 1 THEN seqs[i] ELSE g[i - 1] \o seqs[i]]
        BY <2>2 DEF Flattened, n
    <2>4. FlattenSeq(seqs) = g[n]
        BY <1>7 DEF FlattenSeq, Flattened, n
    <2> HIDE DEF g
    <2>5. \A i \in 1..n : g[i] = IF i = 1 THEN seqs[i] ELSE g[i - 1] \o seqs[i]
        BY <2>3
    <2> DEFINE Same == {i \in 0..n : i = 0 \/ g[i] = f[i]}
    <2>6. 0 \in Same
        BY <1>1
    <2>7. ASSUME NEW i \in 1..n, i - 1 \in Same PROVE i \in Same
        <3>1. f[i] = f[i - 1] \o seqs[i] /\ seqs[i] \in T
            BY <1>1, <1>4
        <3>2. CASE i = 1
            <4>1. f[i - 1] = <<>>
                BY <1>3, <3>2
            <4>2. <<>> \o seqs[i] = seqs[i]
                BY <3>1, ConcatEmptySeq DEF T
            <4>3. g[i] = seqs[i]
                BY <2>5, <3>2
            <4> QED BY <1>1, <3>1, <4>1, <4>2, <4>3
        <3>3. CASE i # 1
            <4>1. g[i - 1] = f[i - 1]
                BY <1>1, <2>7, <3>3
            <4>2. g[i] = g[i - 1] \o seqs[i]
                BY <2>5, <3>3
            <4>3. g[i] = f[i]
                BY <3>1, <4>1, <4>2
            <4> QED BY <1>1, <4>3
        <3> QED BY <3>2, <3>3
    <2>8. 0..n \subseteq Same
        <3> HIDE DEF Same
        <3> QED BY <1>1, <2>6, <2>7, UpTo
    <2>9. g[n] = f[n]
        BY <1>1, <1>7, <2>8
    <2> QED BY <1>5, <2>4, <2>9 DEF n
<1> QED BY <1>6, <1>7

LEMMA FlattenAppend ==
    ASSUME NEW S, NEW seqs \in Seq(Seq(S)), NEW piece \in Seq(S)
    PROVE  /\ FlattenSeq(Append(seqs, piece)) = FlattenSeq(seqs) \o piece
           /\ FlattenSeq(seqs) \in Seq(S)
<1> DEFINE more == Append(seqs, piece)
           n == Len(seqs)
<1>1. /\ n \in Nat /\ more \in Seq(Seq(S)) /\ Len(more) = n + 1 /\ more[n + 1] = piece
      /\ \A i \in 1..n : more[i] = seqs[i]
    BY LenProperties, AppendProperties
<1> HIDE DEF more
<1>2. PICK f : Grows(f, S, seqs) /\ FlattenSeq(seqs) = f[n]
    BY FlatIs
<1>3. PICK g : Grows(g, S, more) /\ FlattenSeq(more) = g[n + 1]
    <2> more \in Seq(Seq(S)) /\ Len(more) = n + 1
        BY <1>1
    <2> QED BY ZenonT(30), FlatIs
<1> HIDE DEF n
<1>4. /\ f \in [0..n -> Seq(S)] /\ f[0] = <<>>
      /\ \A i \in 1..n : f[i] = f[i - 1] \o seqs[i]
    BY <1>2 DEF Grows, n
<1>5. /\ g[0] = <<>>
      /\ \A i \in 1..(n + 1) : g[i] = g[i - 1] \o more[i]
    BY <1>1, <1>3 DEF Grows
<1> DEFINE Same == {i \in 0..n : g[i] = f[i]}
<1>6. 0 \in Same
    BY <1>1, <1>4, <1>5
<1>7. ASSUME NEW i \in 1..n, i - 1 \in Same PROVE i \in Same
    <2>1. i \in 1..(n + 1) /\ i \in 0..n
        BY <1>1
    <2>2. f[i] = f[i - 1] \o seqs[i]
        BY <1>4
    <2>3. g[i] = g[i - 1] \o more[i]
        BY <1>5, <2>1
    <2>4. more[i] = seqs[i] /\ g[i - 1] = f[i - 1]
        BY <1>1, <1>7
    <2> QED BY <2>1, <2>2, <2>3, <2>4
<1>8. 0..n \subseteq Same
    <2> HIDE DEF Same
    <2> QED BY <1>1, <1>6, <1>7, UpTo
<1>9. g[n] = f[n] /\ f[n] \in Seq(S)
    BY <1>1, <1>4, <1>8
<1>10. g[n + 1] = g[n] \o piece
    <2>1. n + 1 \in 1..(n + 1) /\ (n + 1) - 1 = n
        BY <1>1
    <2> QED BY <1>1, <1>5, <2>1
<1> QED BY <1>2, <1>3, <1>9, <1>10 DEF more

LEMMA FlattenEmpty == FlattenSeq(<<>>) = <<>>
BY EmptySeq DEF FlattenSeq

-----------------------------------------------------------------------------
LEMMA TupleIs ==
    ASSUME NEW n \in Nat, NEW T, NEW f, f = [i \in 1..n |-> f[i]], \A i \in 1..n : f[i] \in T
    PROVE  f \in Seq(T) /\ Len(f) = n
<1>1. f \in [1..n -> T]
    <2>1. [i \in 1..n |-> f[i]] \in [1..n -> T]
        OBVIOUS
    <2> QED BY <2>1
<1>2. f \in Seq(T)
    BY <1>1, SeqDef
<1>3. DOMAIN f = 1..n
    BY <1>1
<1>4. DOMAIN f = 1..Len(f) /\ Len(f) \in Nat
    BY <1>2, LenProperties
<1>5. Len(f) = n
    <2>1. 1..n = 1..Len(f)
        BY <1>3, <1>4
    <2>2. \A k \in Nat, l \in Nat : 1..k = 1..l => k <= l
        OBVIOUS
    <2>3. n <= Len(f) /\ Len(f) <= n
        BY <1>4, <2>1, <2>2
    <2> QED BY <1>4, <2>3
<1> QED BY <1>2, <1>5

(* The tokens joined again, a delimiter before each but the first.         *)
Pieces(tokens, delim) ==
    [k \in 1..Len(tokens) |-> IF k = 1 THEN tokens[k] ELSE <<delim>> \o tokens[k]]
Joined(tokens, delim) == FlattenSeq(Pieces(tokens, delim))
PieceOf(tokens, token, delim) == IF tokens = <<>> THEN token ELSE <<delim>> \o token

LEMMA PiecesAppend ==
    ASSUME NEW Letters, NEW tokens \in Seq(Seq(Letters)), NEW token \in Seq(Letters), NEW delim \in Letters
    PROVE  /\ Pieces(tokens, delim) \in Seq(Seq(Letters))
           /\ PieceOf(tokens, token, delim) \in Seq(Letters)
           /\ Pieces(Append(tokens, token), delim)
                  = Append(Pieces(tokens, delim), PieceOf(tokens, token, delim))
<1> DEFINE T == Seq(Letters)
           more == Append(tokens, token)
           p == Pieces(tokens, delim)
           q == Pieces(more, delim)
           piece == PieceOf(tokens, token, delim)
           r == Append(p, piece)
           n == Len(tokens)
<1>1. /\ n \in Nat /\ more \in Seq(T) /\ Len(more) = n + 1 /\ more[n + 1] = token
      /\ (\A i \in 1..n : more[i] = tokens[i] /\ tokens[i] \in T)
      /\ token \in T /\ (tokens = <<>> <=> n = 0)
    BY LenProperties, AppendProperties, ElementOfSeq, EmptySeq
<1>2. <<delim>> \in T /\ \A t \in T : <<delim>> \o t \in T
    <2>1. <<delim>> \in T
        OBVIOUS
    <2> QED BY <2>1, ConcatProperties
<1>3. piece = IF n = 0 THEN token ELSE <<delim>> \o token
    BY <1>1 DEF PieceOf
<1>4. p = [k \in 1..n |-> IF k = 1 THEN tokens[k] ELSE <<delim>> \o tokens[k]]
    BY DEF Pieces
<1>5. q = [k \in 1..(n + 1) |-> IF k = 1 THEN more[k] ELSE <<delim>> \o more[k]]
    BY <1>1 DEF Pieces
<1> HIDE DEF T, more, p, q, piece, n
<1>6. piece \in T
    BY <1>1, <1>2, <1>3
<1>7. \A k \in 1..n : p[k] \in T
    BY <1>1, <1>2, <1>4
<1>8. p \in Seq(T) /\ Len(p) = n
    <2>1. p = [k \in 1..n |-> p[k]]
        BY <1>4
    <2> QED BY <1>1, <1>7, <2>1, TupleIs
<1>9. /\ r \in Seq(T) /\ Len(r) = n + 1 /\ r[n + 1] = piece
      /\ \A i \in 1..n : r[i] = p[i]
    BY <1>6, <1>8, AppendProperties
<1> HIDE DEF r
<1>10. \A k \in 1..(n + 1) : q[k] = r[k]
    <2> TAKE k \in 1..(n + 1)
    <2>1. q[k] = IF k = 1 THEN more[k] ELSE <<delim>> \o more[k]
        BY <1>5
    <2>2. CASE k = n + 1
        <3>1. k = 1 <=> n = 0
            BY <1>1, <2>2
        <3> QED BY <1>1, <1>3, <1>9, <2>1, <2>2, <3>1
    <2>3. CASE k # n + 1
        <3>1. k \in 1..n
            BY <1>1, <2>3
        <3>2. more[k] = tokens[k] /\ r[k] = p[k]
            BY <1>1, <1>9, <3>1
        <3>3. p[k] = IF k = 1 THEN tokens[k] ELSE <<delim>> \o tokens[k]
            BY <1>4, <3>1
        <3> QED BY <2>1, <3>2, <3>3
    <2> QED BY <2>2, <2>3
<1>11. \A k \in 1..(n + 1) : q[k] \in T
    <2> TAKE k \in 1..(n + 1)
    <2>1. k = n + 1 \/ k \in 1..n
        BY <1>1
    <2>2. r[k] \in T
        BY <1>6, <1>7, <1>9, <2>1
    <2> QED BY <1>10, <2>2
<1>12. q \in Seq(T) /\ Len(q) = n + 1
    <2>1. q = [k \in 1..(n + 1) |-> q[k]]
        BY <1>5
    <2>2. n + 1 \in Nat
        BY <1>1
    <2> HIDE DEF q
    <2> QED BY <1>11, <2>1, <2>2, TupleIs
<1>13. q = r
    BY <1>9, <1>10, <1>12, SeqEqual
<1> QED BY <1>6, <1>8, <1>13 DEF T, more, p, q, piece, r

LEMMA JoinedAppend ==
    ASSUME NEW Letters, NEW tokens \in Seq(Seq(Letters)), NEW token \in Seq(Letters), NEW delim \in Letters
    PROVE  /\ Joined(Append(tokens, token), delim)
                  = Joined(tokens, delim) \o PieceOf(tokens, token, delim)
           /\ Joined(tokens, delim) \in Seq(Letters)
           /\ PieceOf(tokens, token, delim) \in Seq(Letters)
<1> DEFINE p == Pieces(tokens, delim)
           piece == PieceOf(tokens, token, delim)
<1>1. p \in Seq(Seq(Letters)) /\ piece \in Seq(Letters)
    BY PiecesAppend
<1>2. Pieces(Append(tokens, token), delim) = Append(p, piece)
    BY PiecesAppend
<1> HIDE DEF p, piece
<1>3. FlattenSeq(Append(p, piece)) = FlattenSeq(p) \o piece /\ FlattenSeq(p) \in Seq(Letters)
    BY <1>1, FlattenAppend
<1> QED BY <1>1, <1>2, <1>3 DEF Joined, p, piece

LEMMA JoinedEmpty == \A delim : Joined(<<>>, delim) = <<>>
<1> TAKE delim
<1>1. Pieces(<<>>, delim) = <<>>
    BY EmptySeq DEF Pieces
<1> QED BY <1>1, FlattenEmpty DEF Joined

(* What has been read, joined again, is the text.                          *)
Rejoined(s, delim) ==
    Joined(Append(scanned(s, delim).tokens, scanned(s, delim).token), delim) = s

LEMMA CharRejoins ==
    ASSUME NEW Letters, NEW s \in Seq(Letters), NEW char \in Letters, NEW delim \in Letters, Rejoined(s, delim)
    PROVE  Rejoined(Append(s, char), delim)
<1> DEFINE tokens == scanned(s, delim).tokens
           token == scanned(s, delim).token
           after == scanned(Append(s, char), delim)
<1>1. tokens \in Seq(Seq(Letters)) /\ token \in Seq(Letters)
    BY ScanAppend DEF Reads
<1>2. after = after_char(scanned(s, delim), char, delim)
    BY ScanAppend
<1>3. Joined(Append(tokens, token), delim) = s
    BY DEF Rejoined
<1>4. Append(s, char) = s \o <<char>>
    BY AppendIsConcat
<1>5. CASE char = delim
    <2> DEFINE more == Append(tokens, token)
    <2>1. after.tokens = more /\ after.token = <<>>
        BY <1>2, <1>5 DEF after_char
    <2> HIDE DEF tokens, token, after
    <2>2. more \in Seq(Seq(Letters)) /\ more # <<>> /\ <<>> \in Seq(Letters)
        BY <1>1, AppendProperties, EmptySeq
    <2> HIDE DEF more
    <2>3. Joined(Append(more, <<>>), delim) = Joined(more, delim) \o PieceOf(more, <<>>, delim)
        BY <2>2, JoinedAppend
    <2>4. PieceOf(more, <<>>, delim) = <<delim>>
        <3>1. <<delim>> \in Seq(Letters)
            OBVIOUS
        <3>2. <<delim>> \o <<>> = <<delim>>
            BY <3>1, ConcatEmptySeq
        <3> QED BY <2>2, <3>2 DEF PieceOf
    <2>5. Joined(more, delim) = s
        BY <1>3 DEF more
    <2> QED BY <1>4, <1>5, <2>1, <2>3, <2>4, <2>5 DEF Rejoined, after
<1>6. CASE char # delim
    <2> DEFINE longer == Append(token, char)
    <2>1. after.tokens = tokens /\ after.token = longer
        BY <1>2, <1>6 DEF after_char
    <2> HIDE DEF tokens, token, after
    <2>2. longer \in Seq(Letters)
        BY <1>1, AppendProperties
    <2>3. PieceOf(tokens, longer, delim) = Append(PieceOf(tokens, token, delim), char)
        <3>1. <<delim>> \in Seq(Letters)
            OBVIOUS
        <3>2. <<delim>> \o Append(token, char) = Append(<<delim>> \o token, char)
            BY <1>1, <3>1, AppendConcat
        <3> QED BY <3>2 DEF PieceOf
    <2> DEFINE begin == Joined(tokens, delim)
               piece == PieceOf(tokens, token, delim)
    <2>4. /\ begin \in Seq(Letters) /\ piece \in Seq(Letters) /\ s = begin \o piece
          /\ Joined(Append(tokens, longer), delim) = begin \o PieceOf(tokens, longer, delim)
        BY <1>1, <1>3, <2>2, JoinedAppend
    <2> HIDE DEF longer, begin, piece
    <2>5. begin \o Append(piece, char) = Append(begin \o piece, char)
        BY <2>4, AppendConcat
    <2>6. Joined(Append(tokens, longer), delim) = Append(s, char)
        BY <2>3, <2>4, <2>5 DEF piece
    <2> QED BY <2>1, <2>6 DEF Rejoined, after
<1> QED BY <1>5, <1>6

LEMMA ReadRejoins ==
    ASSUME NEW Letters, NEW s \in Seq(Letters), NEW delim \in Letters
    PROVE  Rejoined(s, delim)
<1> DEFINE S == {n \in 0..Len(s) : \A x \in Seq(Letters) : Len(x) = n => Rejoined(x, delim)}
<1>1. Len(s) \in Nat
    BY LenProperties
<1>2. 0 \in S
    <2> SUFFICES ASSUME NEW x \in Seq(Letters), Len(x) = 0 PROVE Rejoined(x, delim)
        BY <1>1
    <2>1. x = <<>> /\ <<>> \in Seq(Letters) /\ <<>> \in Seq(Seq(Letters))
        BY EmptySeq
    <2>2. scanned(x, delim).tokens = <<>> /\ scanned(x, delim).token = <<>>
        BY <2>1, ScanEmpty DEF Nothing
    <2>3. Joined(Append(<<>>, <<>>), delim) = Joined(<<>>, delim) \o PieceOf(<<>>, <<>>, delim)
        BY <2>1, JoinedAppend
    <2>4. Joined(<<>>, delim) = <<>> /\ PieceOf(<<>>, <<>>, delim) = <<>>
        BY JoinedEmpty DEF PieceOf
    <2>5. <<>> \o <<>> = <<>>
        BY <2>1, ConcatEmptySeq
    <2> QED BY <2>1, <2>2, <2>3, <2>4, <2>5 DEF Rejoined
<1>3. ASSUME NEW n \in 1..Len(s), n - 1 \in S PROVE n \in S
    <2> SUFFICES ASSUME NEW x \in Seq(Letters), Len(x) = n PROVE Rejoined(x, delim)
        BY <1>1
    <2>1. x # <<>> /\ n \in Nat /\ n # 0
        BY <1>1, EmptySeq
    <2> DEFINE front == SubSeq(x, 1, Len(x) - 1)
               char == x[Len(x)]
    <2>2. front \in Seq(Letters) /\ Len(front) = n - 1 /\ x = Append(front, char) /\ char \in Letters
        BY <2>1, FrontAndLast
    <2> HIDE DEF front, char
    <2>3. Rejoined(front, delim)
        BY <1>3, <2>2
    <2>4. Rejoined(Append(front, char), delim)
        BY <2>2, <2>3, CharRejoins
    <2> QED BY <2>2, <2>4
<1>4. 0..Len(s) \subseteq S
    <2> HIDE DEF S
    <2> QED BY <1>1, <1>2, <1>3, UpTo
<1>5. Len(s) \in S
    BY <1>1, <1>4
<1> QED BY <1>5

LEMMA SplitRejoins ==
    ASSUME text \in Seq(Chars), NEW delim \in Chars
    PROVE  LET tokens == split(text, delim)
               joined == Joined(tokens, delim)
           IN  \/ text = joined /\ (text = <<>> \/ Last(text) # delim)
               \/ text = joined \o <<delim>>
<1> DEFINE end == scanned(text, delim)
           before == end.tokens
           token == end.token
           begin == Joined(before, delim)
           piece == PieceOf(before, token, delim)
<1>1. before \in Seq(Seq(Chars)) /\ token \in Seq(Chars)
    BY ScanIs, LenProperties DEF Reads
<1>2. Joined(Append(before, token), delim) = text
    BY ReadRejoins DEF Rejoined
<1>3. Plain(token, delim)
    BY ScanIsPlain DEF PlainRead
<1>4. split(text, delim) = IF token = <<>> THEN before ELSE Append(before, token)
    BY DEF split
<1> HIDE DEF before, token
<1>5. text = begin \o piece /\ begin \in Seq(Chars) /\ piece \in Seq(Chars)
    BY <1>1, <1>2, JoinedAppend
<1>6. <<delim>> \in Seq(Chars) /\ Len(<<delim>>) = 1
    OBVIOUS
<1>7. CASE token = <<>>
    <2>1. split(text, delim) = before
        BY <1>4, <1>7
    <2>2. CASE before = <<>>
        <3>1. piece = <<>> /\ begin = <<>>
            BY <1>7, <2>2, JoinedEmpty DEF PieceOf
        <3>2. text = <<>>
            <4>1. <<>> \o <<>> = <<>>
                BY <1>5, <3>1, ConcatEmptySeq
            <4> QED BY <1>5, <3>1, <4>1
        <3> QED BY <2>1, <3>1, <3>2
    <2>3. CASE before # <<>>
        <3>1. piece = <<delim>> \o <<>>
            BY <1>7, <2>3 DEF PieceOf
        <3>2. piece = <<delim>>
            BY <1>6, <3>1, ConcatEmptySeq
        <3> QED BY <1>5, <2>1, <3>2
    <2> QED BY <2>2, <2>3
<1>8. CASE token # <<>>
    <2>1. split(text, delim) = Append(before, token)
        BY <1>4, <1>8
    <2> DEFINE l == Len(token)
               m == Len(piece)
               n == Len(begin)
    <2>2. l \in Nat /\ l # 0 /\ m \in Nat /\ n \in Nat
        BY <1>1, <1>5, <1>8, LenProperties, EmptySeq
    <2>3. m \in 1..m /\ piece[m] = token[l]
        <3>1. CASE before = <<>>
            BY <2>2, <3>1 DEF PieceOf
        <3>2. CASE before # <<>>
            <4>1. piece = <<delim>> \o token
                BY <3>2 DEF PieceOf
            <4>2. /\ Len(<<delim>> \o token) = 1 + l
                  /\ \A i \in 1..(1 + l) : (<<delim>> \o token)[i]
                         = IF i <= 1 THEN <<delim>>[i] ELSE token[i - 1]
                BY <1>1, <1>6, ConcatProperties
            <4> HIDE DEF piece
            <4>3. m = 1 + l
                BY <4>1, <4>2
            <4>4. m \in 1..(1 + l) /\ ~ (m <= 1) /\ m - 1 = l
                BY <2>2, <4>3
            <4>5. (<<delim>> \o token)[m] = token[m - 1]
                BY <4>2, <4>4
            <4> QED BY <2>2, <4>1, <4>3, <4>4, <4>5
        <3> QED BY <3>1, <3>2
    <2>4. token[l] # delim
        <3>1. l \in 1..l
            BY <2>2
        <3> QED BY <1>3, <3>1 DEF Plain
    <2> HIDE DEF l, begin, piece
    <2>5. /\ Len(begin \o piece) = n + m
          /\ \A i \in 1..(n + m) : (begin \o piece)[i] = IF i <= n THEN begin[i] ELSE piece[i - n]
        BY <1>5, ConcatProperties
    <2> HIDE DEF m, n
    <2>6. n + m \in 1..(n + m) /\ ~ (n + m <= n) /\ (n + m) - n = m
        BY <2>2, <2>3
    <2>7. (begin \o piece)[n + m] = piece[(n + m) - n]
        BY <2>5, <2>6
    <2>8. text[Len(text)] = token[l]
        BY <1>5, <2>3, <2>5, <2>6, <2>7
    <2>9. Last(text) # delim
        BY <2>4, <2>8 DEF Last
    <2> QED BY <1>2, <2>1, <2>9
<1> QED BY <1>7, <1>8

LEMMA SplitTextHolds == ASSUME text \in Seq(Chars) PROVE SplitLosesOnlyTheLast
<1> SUFFICES ASSUME NEW delim \in {" ", newline}
             PROVE  LET tokens == split(text, delim)
                        joined == Joined(tokens, delim)
                    IN  /\ \A k \in 1..Len(tokens) : ~ Contains(tokens[k], delim)
                        /\ \/ text = joined /\ (text = <<>> \/ Last(text) # delim)
                           \/ text = joined \o <<delim>>
    BY DEF SplitLosesOnlyTheLast, Joined, Pieces
<1> DEFINE tokens == split(text, delim)
<1>1. delim \in Chars
    BY DEF Chars
<1>2. \A k \in 1..Len(tokens) : Plain(tokens[k], delim)
    BY SplitIsPlain
<1> HIDE DEF tokens
<1>3. \A k \in 1..Len(tokens) : ~ Contains(tokens[k], delim)
    BY <1>2 DEF Plain, Contains
<1>4. \/ text = Joined(tokens, delim) /\ (text = <<>> \/ Last(text) # delim)
      \/ text = Joined(tokens, delim) \o <<delim>>
    BY <1>1, SplitRejoins DEF tokens
<1> QED BY <1>3, <1>4 DEF tokens

(* A text is at most as long as TextNext lets it grow.                     *)
Short == Len(text) <= MaxLen

LEMMA ShortInvariant == TextSpec => [](Short)
<1>1. TextInit => Short
    <2>1. Len(<<>>) = 0
        BY EmptySeq
    <2> QED BY <2>1, MaxLenAssumption DEF TextInit, Short
<1>2. TextInv /\ Short /\ [TextNext]_text_vars => Short'
    <2> SUFFICES ASSUME TextInv, Short, [TextNext]_text_vars
                 PROVE  Short'
        OBVIOUS
    <2>1. text \in Seq(Chars) /\ Len(text) \in Nat /\ MaxLen \in Nat
        BY LenProperties, MaxLenAssumption DEF TextInv
    <2>2. CASE TextNext
        <3>1. PICK c \in alphabet : text' = Append(text, c)
            BY <2>2 DEF TextNext
        <3>2. Len(Append(text, c)) = Len(text) + 1
            BY <2>1
        <3> QED BY <2>1, <2>2, <3>1, <3>2 DEF TextNext, Short
    <2>3. CASE UNCHANGED text_vars
        BY <2>3 DEF text_vars, Short
    <2> QED BY <2>2, <2>3
<1> QED BY <1>1, <1>2, TextInvariant, PTL DEF TextSpec

(* The first two commands of a chunk are tokenized exactly, and reach the  *)
(* handlers they name when more follow: for chunks of any length that a    *)
(* size_t counts.                                                          *)
THEOREM CommandsAreTokenized == TextSpec => []CommandsAreExact
<1>1. TextInv /\ Short => CommandsAreExact
    <2> SUFFICES ASSUME text \in Seq(Chars), Len(text) <= MaxLen PROVE CommandsAreExact
        BY DEF TextInv, Short
    <2>1. Len(text) \in Nat /\ Len(text) < SizeT
        BY LenProperties, MaxLenAssumption, SizeTAssumption DEF PositionsFit
    <2> QED BY <2>1, TwoCommandsHold, FirstTwoHold DEF CommandsAreExact
<1> QED BY <1>1, TextInvariant, ShortInvariant, PTL

(* Cutting a text at its first colon, in tokens, at its white space or at  *)
(* its last slash keeps every character that is to be kept: for texts of   *)
(* any length that a size_t and a uint32_t count.                          *)
THEOREM TextsAreCutExactly == TextSpec => []CuttingKeepsTheRest
<1>1. TextInv /\ Short => CuttingKeepsTheRest
    <2> SUFFICES ASSUME text \in Seq(Chars), Len(text) <= MaxLen PROVE CuttingKeepsTheRest
        BY DEF TextInv, Short
    <2>1. Len(text) \in Nat /\ Len(text) < SizeT /\ Len(text) < Int32
        BY LenProperties, MaxLenAssumption, SizeTAssumption DEF PositionsFit, Int32
    <2> QED BY <2>1, SplitHolds, SplitTextHolds, TrimHolds, FileNameHolds DEF CuttingKeepsTheRest
<1> QED BY <1>1, TextInvariant, ShortInvariant, PTL

-----------------------------------------------------------------------------
(* The searches in memory.                                                 *)

(* A loop that ends, or does not, is a function: from wherever it is, what *)
(* it returns at the place where it ends, if there is one.                 *)
Loops(f, S, Stops, value, next) ==
    f = [s \in S |-> IF s \in Stops THEN value[s] ELSE f[next[s]]]

LEMMA LoopIs ==
    ASSUME NEW S, NEW Stops, NEW value, NEW next, \A s \in S : s \notin Stops => next[s] \in S
    PROVE  \E f : Loops(f, S, Stops, value, next)
<1> DEFINE Path(p, n, s, e) ==
               /\ p \in [0..n -> S] /\ p[0] = s /\ p[n] = e
               /\ \A i \in 1..n : p[i - 1] \notin Stops /\ p[i] = next[p[i - 1]]
           Ends(s) == {e \in S : e \in Stops /\ \E n \in Nat : \E p : Path(p, n, s, e)}
           One(T) == CHOOSE e : e \in T
           f == [s \in S |-> value[One(Ends(s))]]
<1>1. ASSUME NEW s \in S, s \in Stops PROVE One(Ends(s)) = s
    <2>1. s \in Ends(s)
        <3> DEFINE p == [i \in 0..0 |-> s]
        <3>1. Path(p, 0, s, s)
            OBVIOUS
        <3> HIDE DEF p, Path
        <3> QED BY <1>1, <3>1
    <2>2. ASSUME NEW e \in Ends(s) PROVE e = s
        <3>1. PICK n \in Nat : \E p : Path(p, n, s, e)
            OBVIOUS
        <3>2. PICK p : Path(p, n, s, e)
            BY <3>1
        <3>3. n = 0
            <4> SUFFICES ASSUME n # 0 PROVE FALSE
                OBVIOUS
            <4>1. 1 \in 1..n /\ 1 - 1 = 0
                OBVIOUS
            <4>2. p[1 - 1] \notin Stops
                BY <3>2, <4>1
            <4> QED BY <1>1, <3>2, <4>1, <4>2
        <3> QED BY <3>2, <3>3
    <2> HIDE DEF Ends
    <2>3. Ends(s) = {s}
        BY <2>1, <2>2
    <2> QED BY <2>3
<1>2. ASSUME NEW s \in S, s \notin Stops PROVE Ends(s) = Ends(next[s])
    <2> DEFINE t == next[s]
    <2>1. t \in S
        BY <1>2
    <2>2. ASSUME NEW e \in S, e \in Stops, NEW n \in Nat, NEW p, Path(p, n, s, e)
          PROVE  \E m \in Nat : \E q : Path(q, m, t, e)
        <3>1. n # 0
            BY <1>2, <2>2
        <3> DEFINE m == n - 1
                   q == [i \in 0..m |-> p[i + 1]]
        <3>2. m \in Nat /\ m + 1 = n /\ 0 \in 0..m /\ m \in 0..m /\ 1 \in 1..n /\ 1 - 1 = 0
            BY <3>1
        <3>3. q \in [0..m -> S]
            <4>1. \A i \in 0..m : i + 1 \in 0..n
                BY <3>2
            <4> QED BY <2>2, <4>1
        <3>4. q[0] = t
            <4>1. p[1] = next[p[1 - 1]]
                BY <2>2, <3>2
            <4> QED BY <2>2, <3>2, <4>1
        <3>5. q[m] = e
            BY <2>2, <3>2
        <3>6. \A i \in 1..m : q[i - 1] \notin Stops /\ q[i] = next[q[i - 1]]
            <4> TAKE i \in 1..m
            <4>1. i + 1 \in 1..n /\ (i + 1) - 1 = i /\ i - 1 \in 0..m /\ i \in 0..m /\ (i - 1) + 1 = i
                BY <3>2
            <4>2. p[(i + 1) - 1] \notin Stops /\ p[i + 1] = next[p[(i + 1) - 1]]
                BY <2>2, <4>1
            <4>3. q[i] = p[i + 1] /\ q[i - 1] = p[i]
                BY <4>1
            <4> HIDE DEF q
            <4> QED BY <4>1, <4>2, <4>3
        <3> HIDE DEF q, t
        <3>7. Path(q, m, t, e)
            BY <3>3, <3>4, <3>5, <3>6
        <3> HIDE DEF Path, m
        <3> QED BY <3>2, <3>7
    <2>3. ASSUME NEW e \in S, e \in Stops, NEW n \in Nat, NEW p, Path(p, n, t, e)
          PROVE  \E m \in Nat : \E q : Path(q, m, s, e)
        <3> DEFINE m == n + 1
                   q == [i \in 0..m |-> IF i = 0 THEN s ELSE p[i - 1]]
        <3>1. \A i \in 1..m : i - 1 \in 0..n /\ i \in 0..m /\ i # 0 /\ i - 1 \in 0..m
            OBVIOUS
        <3>2. q \in [0..m -> S]
            <4>1. \A i \in 0..m : i # 0 => i - 1 \in 0..n
                OBVIOUS
            <4> QED BY <2>3, <4>1
        <3>3. q[0] = s /\ q[m] = e
            <4>1. m \in 0..m /\ 0 \in 0..m /\ m # 0 /\ m - 1 = n
                OBVIOUS
            <4> QED BY <2>3, <4>1
        <3>4. \A i \in 1..m : q[i - 1] \notin Stops /\ q[i] = next[q[i - 1]]
            <4> TAKE i \in 1..m
            <4>1. q[i] = p[i - 1]
                BY <3>1
            <4>2. CASE i = 1
                <5>1. q[i - 1] = s /\ q[i] = p[0]
                    BY <3>3, <4>1, <4>2
                <5> HIDE DEF q
                <5> QED BY <1>2, <2>3, <5>1
            <4>3. CASE i # 1
                <5>1. i - 1 \in 1..n /\ i - 1 # 0 /\ i - 1 \in 0..m
                    BY <4>3
                <5>2. q[i - 1] = p[(i - 1) - 1]
                    BY <5>1
                <5> HIDE DEF q
                <5> QED BY <2>3, <4>1, <5>1, <5>2
            <4> QED BY <4>2, <4>3
        <3> HIDE DEF q
        <3>5. Path(q, m, s, e)
            BY <3>2, <3>3, <3>4
        <3>6. m \in Nat
            OBVIOUS
        <3> HIDE DEF Path, m
        <3> QED BY <3>5, <3>6
    <2> HIDE DEF Path, t
    <2>4. Ends(s) = Ends(t)
        BY <2>2, <2>3
    <2> QED BY <2>4 DEF t
<1>3. \A s \in S : f[s] = IF s \in Stops THEN value[s] ELSE f[next[s]]
    <2> HIDE DEF Ends, One
    <2> TAKE s \in S
    <2>1. CASE s \in Stops
        BY <1>1, <2>1
    <2>2. CASE s \notin Stops
        <3>1. next[s] \in S /\ Ends(s) = Ends(next[s])
            BY <1>2, <2>2
        <3> QED BY <2>2, <3>1
    <2> QED BY <2>1, <2>2
<1>4. f = [s \in S |-> f[s]]
    OBVIOUS
<1> HIDE DEF f
<1>5. f = [s \in S |-> IF s \in Stops THEN value[s] ELSE f[next[s]]]
    BY <1>3, <1>4
<1> QED BY <1>5 DEF Loops

(* What a pass reads is the chunk, and what the buffer held behind it.     *)
LEMMA ChunkIsRead ==
    ASSUME NEW B, NEW memory \in Seq(B), NEW pass \in Passes(memory), pass.addr + pass.size <= Len(memory)
    PROVE  LET buffer == read_chunk(memory, pass)
           IN  /\ buffer \in Seq(Range(memory)) /\ Len(buffer) >= pass.size
               /\ \A i \in 0..(pass.size - 1) : buffer[i + 1] = memory[pass.addr + i + 1]
<1> DEFINE R == Range(memory)
           c == pass.addr
           n == pass.size
           old == pass.old
           new == SubSeq(memory, c + 1, c + n)
           rest == SubSeq(old, n + 1, Len(old))
<1>1. c \in Nat /\ n \in Nat /\ old \in Seq(R) /\ c + n <= Len(memory) /\ Len(memory) \in Nat
    BY LenProperties DEF Passes
<1>2. memory \in Seq(R)
    <2>1. memory \in [1..Len(memory) -> B]
        BY LenProperties
    <2>2. \A i \in 1..Len(memory) : memory[i] \in R
        BY <2>1 DEF Range
    <2> QED BY <2>1, <2>2, <1>1, SeqDef
<1> HIDE DEF c, n, old, R
<1>3. new \in Seq(R) /\ Len(new) = n /\ \A i \in 1..n : new[i] = memory[c + i]
    <2>1. /\ new \in Seq(R)
          /\ Len(new) = IF c + 1 <= c + n THEN c + n - (c + 1) + 1 ELSE 0
          /\ \A i \in 1..(c + n - (c + 1) + 1) : new[i] = memory[c + 1 + i - 1]
        BY <1>1, <1>2, SubSeqProperties
    <2> HIDE DEF new
    <2>2. c + n - (c + 1) + 1 = n /\ \A i \in 1..n : c + 1 + i - 1 = c + i
        BY <1>1
    <2> QED BY <1>1, <2>1, <2>2
<1>4. rest \in Seq(R)
    BY <1>1, SubSeqProperties
<1> HIDE DEF new, rest
<1>5. /\ new \o rest \in Seq(R) /\ Len(new \o rest) >= n
      /\ \A i \in 1..n : (new \o rest)[i] = new[i]
    <2>1. /\ new \o rest \in Seq(R) /\ Len(new \o rest) = Len(new) + Len(rest)
          /\ \A i \in 1..Len(new) + Len(rest) :
                (new \o rest)[i] = IF i <= Len(new) THEN new[i] ELSE rest[i - Len(new)]
        BY <1>3, <1>4, ConcatProperties
    <2>2. Len(rest) \in Nat
        BY <1>4, LenProperties
    <2> QED BY <1>1, <1>3, <2>1, <2>2
<1>6. \A i \in 0..(n - 1) : i + 1 \in 1..n /\ c + (i + 1) = c + i + 1
    BY <1>1
<1>7. read_chunk(memory, pass) = new \o rest
    BY DEF read_chunk, new, rest, c, n, old
<1>8. \A i \in 0..(n - 1) : read_chunk(memory, pass)[i + 1] = memory[c + i + 1]
    BY <1>3, <1>5, <1>6, <1>7
<1> QED BY <1>5, <1>7, <1>8 DEF R, c, n

LEMMA HitsAreFinite ==
    ASSUME NEW buffer, NEW heap_byte, NEW size \in Nat, NEW bytes
    PROVE  LET S == hits(buffer, heap_byte, size, bytes)
           IN  S \subseteq 0..(size - 1) /\ IsFiniteSet(S) /\ Cardinality(S) \in Nat
<1> DEFINE S == hits(buffer, heap_byte, size, bytes)
<1>1. S \in SUBSET (0..(size - 1))
    BY DEF hits
<1> HIDE DEF S
<1>2. IsFiniteSet(0..(size - 1))
    BY FS_Interval
<1>3. IsFiniteSet(S)
    BY <1>1, <1>2, FS_Subset
<1> QED BY <1>1, <1>3, FS_CardinalityType DEF S

(* The passes of search_bytes, from any of them on.                        *)
SearchOn(memory, heap_byte, start_addr, end_addr, bytes, nth, search, pass) ==
    LET buffer == read_chunk(memory, pass)
        found_here == hits(buffer, heap_byte, pass.size, bytes)
    IN  IF pass.addr < start_addr \/ pass.addr > end_addr THEN NotFound
        ELSE IF pass.addr + pass.size > Len(memory) THEN NotFound
        ELSE IF pass.size = 0 THEN Wild
        ELSE IF nth - pass.found < Cardinality(found_here)
             THEN pass.addr + Nth(found_here, nth - pass.found)
             ELSE search[next_pass(pass, end_addr, buffer, Cardinality(found_here))]
FirstPass(chunk, start_addr) == [addr |-> start_addr % DWord, size |-> chunk, found |-> 0, old |-> <<>>]

LEMMA NextIsAPass ==
    ASSUME NEW memory, NEW pass \in Passes(memory), NEW end_addr \in Nat, pass.addr <= end_addr,
           NEW buffer \in Seq(Range(memory)), NEW found_here \in Nat
    PROVE  next_pass(pass, end_addr, buffer, found_here) \in Passes(memory)
<1> DEFINE size == IF pass.addr + pass.size > end_addr THEN end_addr - pass.addr ELSE pass.size
<1>1. pass.addr \in Nat /\ pass.size \in Nat /\ pass.found \in Nat
    BY DEF Passes
<1>2. size \in Nat
    BY <1>1
<1> HIDE DEF size
<1>3. (pass.addr + size) % DWord \in 0..(DWord - 1)
    BY DWordAssumption, <1>1, <1>2
<1>4. pass.found + found_here \in Nat
    BY <1>1
<1> QED BY <1>2, <1>3, <1>4 DEF next_pass, Passes, size

LEMMA SearchIs ==
    ASSUME NEW B, NEW memory \in Seq(B), NEW heap_byte, NEW chunk, NEW start_addr, NEW end_addr \in Nat,
           NEW bytes, NEW nth
    PROVE  \E search :
               /\ search_bytes(memory, heap_byte, chunk, start_addr, end_addr, bytes, nth)
                      = search[FirstPass(chunk, start_addr)]
               /\ \A pass \in Passes(memory) : search[pass] =
                      SearchOn(memory, heap_byte, start_addr, end_addr, bytes, nth, search, pass)
<1> DEFINE P == Passes(memory)
           On(f, pass) == SearchOn(memory, heap_byte, start_addr, end_addr, bytes, nth, f, pass)
           here(pass) == hits(read_chunk(memory, pass), heap_byte, pass.size, bytes)
           Goes(pass) == /\ ~ (pass.addr < start_addr \/ pass.addr > end_addr)
                         /\ ~ (pass.addr + pass.size > Len(memory)) /\ pass.size # 0
                         /\ ~ (nth - pass.found < Cardinality(here(pass)))
           Stops == {pass \in P : ~ Goes(pass)}
           none == [pass \in P |-> 0]
           value == [pass \in P |-> On(none, pass)]
           next == [pass \in P |-> next_pass(pass, end_addr, read_chunk(memory, pass), Cardinality(here(pass)))]
<1>1. \A pass \in P : pass \notin Stops => next[pass] \in P
    <2> SUFFICES ASSUME NEW pass \in P, Goes(pass) PROVE next[pass] \in P
        OBVIOUS
    <2>1. pass.addr \in Nat /\ pass.size \in Nat /\ Len(memory) \in Nat
        BY LenProperties DEF Passes
    <2>2. pass.addr <= end_addr /\ pass.addr + pass.size <= Len(memory)
        BY <2>1
    <2>3. read_chunk(memory, pass) \in Seq(Range(memory))
        BY <2>2, ChunkIsRead
    <2>4. Cardinality(here(pass)) \in Nat
        BY <2>1, HitsAreFinite
    <2> HIDE DEF here
    <2>5. next_pass(pass, end_addr, read_chunk(memory, pass), Cardinality(here(pass))) \in P
        BY <2>2, <2>3, <2>4, NextIsAPass
    <2> QED BY <2>5
<1>2. PICK g : g = [pass \in P |-> IF pass \in Stops THEN value[pass] ELSE g[next[pass]]]
    <2> HIDE DEF P, Stops, value, next
    <2>1. \E f : Loops(f, P, Stops, value, next)
        BY <1>1, LoopIs
    <2> QED BY <2>1 DEF Loops
<1>3. \A f : \A pass \in P : On(f, pass) = IF pass \in Stops THEN value[pass] ELSE f[next[pass]]
    <2> TAKE f
    <2> TAKE pass \in P
    <2>1. CASE Goes(pass)
        <3>1. pass \notin Stops /\ next[pass] = next_pass(pass, end_addr, read_chunk(memory, pass), Cardinality(here(pass)))
            BY <2>1
        <3>2. On(f, pass) = f[next_pass(pass, end_addr, read_chunk(memory, pass), Cardinality(here(pass)))]
            BY <2>1 DEF SearchOn
        <3> HIDE DEF Stops, next, On
        <3> QED BY <3>1, <3>2
    <2>2. CASE ~ Goes(pass)
        <3>1. pass \in Stops /\ value[pass] = On(none, pass)
            BY <2>2
        <3>2. On(f, pass) = On(none, pass)
            BY <2>2 DEF SearchOn
        <3> HIDE DEF Stops, value, On
        <3> QED BY <3>1, <3>2
    <2> QED BY <2>1, <2>2
<1> DEFINE search == CHOOSE f : f = [pass \in P |-> On(f, pass)]
<1>4. search_bytes(memory, heap_byte, chunk, start_addr, end_addr, bytes, nth) = search[FirstPass(chunk, start_addr)]
    BY DEF search_bytes, SearchOn, FirstPass
<1>5. search = [pass \in P |-> On(search, pass)]
    <2>1. \A pass \in P : On(g, pass) = g[pass]
        <3> HIDE DEF P, Stops, value, next, On
        <3> QED BY <1>2, <1>3
    <2>2. g = [pass \in P |-> g[pass]]
        <3> HIDE DEF P, Stops, value, next, On
        <3> QED BY <1>2
    <2> HIDE DEF P, On
    <2>3. g = [pass \in P |-> On(g, pass)]
        BY <2>1, <2>2
    <2> QED BY <2>3
<1> HIDE DEF search
<1>6. \A pass \in P : search[pass] = On(search, pass)
    <2> HIDE DEF P, On
    <2> QED BY <1>5
<1> QED BY <1>4, <1>6

(* An address is the nth of a set when n of the set are before it.         *)
LEMMA NthIs ==
    ASSUME NEW S \in SUBSET Nat, IsFiniteSet(S), NEW a \in S
    PROVE  LET nth == Cardinality({b \in S : b < a})
           IN  Nth(S, nth) = a /\ nth \in Nat /\ nth < Cardinality(S)
<1> DEFINE Before(x) == {b \in S : b < x}
           nth == Cardinality(Before(a))
<1>1. \A x : Before(x) \in SUBSET S
    OBVIOUS
<1>2. \A x : IsFiniteSet(Before(x)) /\ Cardinality(Before(x)) \in Nat
    <2> TAKE x
    <2>1. IsFiniteSet(Before(x))
        BY <1>1, FS_Subset
    <2> QED BY <2>1, FS_CardinalityType
<1>3. ASSUME NEW x \in S, NEW y \in S, x < y
      PROVE  Cardinality(Before(x)) < Cardinality(Before(y))
    <2>1. x \in Nat /\ y \in Nat /\ \A b \in S : b \in Nat /\ (b < x => b < y)
        BY <1>3
    <2>2. x \in Before(y)
        BY <1>3
    <2>3. x \notin Before(x)
        BY <2>1
    <2>4. \A b \in Before(x) : b \in Before(y)
        BY <2>1
    <2>5. Before(x) \in SUBSET Before(y) /\ x \in Before(y) /\ x \notin Before(x)
        BY <2>2, <2>3, <2>4
    <2>6. Before(x) # Before(y)
        BY <2>5
    <2>7. IsFiniteSet(Before(y)) /\ Cardinality(Before(y)) \in Nat /\ Cardinality(Before(x)) \in Nat
        BY <1>2
    <2> HIDE DEF Before
    <2>8. Cardinality(Before(x)) <= Cardinality(Before(y))
        BY <2>5, <2>7, FS_Subset
    <2>9. Cardinality(Before(y)) # Cardinality(Before(x))
        BY <2>5, <2>6, <2>7, FS_Subset
    <2> QED BY <2>7, <2>8, <2>9
<1>4. nth \in Nat /\ nth < Cardinality(S)
    <2>1. Before(a) \in SUBSET S /\ a \notin Before(a)
        OBVIOUS
    <2>2. Before(a) # S
        BY <2>1
    <2>3. nth \in Nat /\ Cardinality(S) \in Nat
        BY <1>2, FS_CardinalityType
    <2> HIDE DEF Before
    <2>4. Cardinality(Before(a)) <= Cardinality(S)
        BY <2>1, FS_Subset
    <2>5. Cardinality(S) # Cardinality(Before(a))
        BY <2>1, <2>2, FS_Subset
    <2> QED BY <2>3, <2>4, <2>5
<1>5. \A x \in S : Cardinality(Before(x)) = nth => x = a
    <2> TAKE x \in S
    <2> HAVE Cardinality(Before(x)) = nth
    <2>1. x \in Nat /\ a \in Nat /\ nth \in Nat
        BY <1>4
    <2> HIDE DEF Before
    <2>2. x < a => Cardinality(Before(x)) < nth
        BY <1>3
    <2>3. a < x => nth < Cardinality(Before(x))
        BY <1>3
    <2> QED BY <2>1, <2>2, <2>3
<1>6. Nth(S, nth) = CHOOSE x \in S : Cardinality(Before(x)) = nth
    BY DEF Nth
<1>7. \E x \in S : Cardinality(Before(x)) = nth
    OBVIOUS
<1> HIDE DEF nth, Before
<1>8. Nth(S, nth) = a
    BY <1>5, <1>6, <1>7
<1> QED BY <1>4, <1>8 DEF nth, Before

(* The same holds of a set that looks the same before the address, moved.  *)
LEMMA MovedIs ==
    ASSUME NEW S, IsFiniteSet(S), NEW T \in SUBSET Nat, NEW d \in Nat,
           \A i \in Nat : i \in T <=> d + i \in S, S \subseteq {d + i : i \in Nat}
    PROVE  IsFiniteSet(T) /\ Cardinality(T) = Cardinality(S)
<1> DEFINE g == [x \in S |-> x - d]
<1>1. \A x \in S : x \in Nat /\ x - d \in Nat /\ d + (x - d) = x
    OBVIOUS
<1>2. g \in [S -> T]
    BY <1>1
<1>3. \A x \in S, y \in S : g[x] = g[y] => x = y
    BY <1>1
<1>4. \A i \in T : \E x \in S : g[x] = i
    <2> TAKE i \in T
    <2>1. d + i \in S /\ (d + i) - d = i
        OBVIOUS
    <2> WITNESS d + i \in S
    <2> QED BY <2>1
<1> HIDE DEF g
<1>5. ExistsBijection(S, T)
    <2>1. g \in Bijection(S, T)
        BY <1>2, <1>3, <1>4 DEF Bijection, Injection, Surjection, IsInjective
    <2> QED BY <2>1 DEF ExistsBijection
<1> QED BY <1>5, FS_Bijection

(* Where the bytes are, among the addresses from one to another.           *)
Occurs(memory, bytes, a) == \A j \in 1..Len(bytes) : memory[a + j] = bytes[j]
At(memory, bytes, from, to) == {a \in from..to : Occurs(memory, bytes, a)}
Number(memory, bytes, from, addr) == Cardinality(At(memory, bytes, from, addr - 1))

LEMMA AtIsFinite ==
    ASSUME NEW memory, NEW bytes, NEW from \in Nat, NEW to \in Int
    PROVE  LET S == At(memory, bytes, from, to)
           IN  S \in SUBSET Nat /\ IsFiniteSet(S) /\ Cardinality(S) \in Nat
<1> DEFINE S == At(memory, bytes, from, to)
<1>1. S \in SUBSET (from..to)
    BY DEF At
<1>2. from..to \in SUBSET Nat /\ IsFiniteSet(from..to)
    BY FS_Interval
<1> HIDE DEF S
<1>3. IsFiniteSet(S)
    BY <1>1, <1>2, FS_Subset
<1> QED BY <1>1, <1>2, <1>3, FS_CardinalityType DEF S

(* The plain scan of readable memory finds an occurrence by its number.    *)
LEMMA InternalFinds ==
    ASSUME NEW memory, Len(memory) \in Nat, NEW bytes, Len(bytes) \in Nat, NEW start \in Nat, NEW end \in Nat,
           end + Len(bytes) <= Len(memory), NEW addr \in start..end, Occurs(memory, bytes, addr)
    PROVE  search_bytes_internal(memory, start, end, bytes, Number(memory, bytes, start, addr)) = addr
<1> DEFINE readable(a) == a < Len(memory)
           matches(a, n) == \A j \in 1..n : readable(a + j - 1) /\ memory[a + j] = bytes[j]
           found  == {a \in start..end : matches(a, Len(bytes))}
           faults == {a \in start..end :
                         \E n \in 0..(Len(bytes) - 1) : matches(a, n) /\ ~ readable(a + n)}
           nth == Number(memory, bytes, start, addr)
           reached(a) == Cardinality({b \in found : b < a}) <= nth
<1>1. \A a \in start..end : \A n \in 0..(Len(bytes) - 1) : readable(a + n)
    OBVIOUS
<1>2. \A a \in start..end : \A j \in 1..Len(bytes) : readable(a + j - 1)
    OBVIOUS
<1>3. faults = {}
    <2> HIDE DEF readable, matches
    <2> QED BY <1>1
<1>4. found = At(memory, bytes, start, end)
    <2>1. \A a \in start..end : matches(a, Len(bytes)) <=> Occurs(memory, bytes, a)
        <3> HIDE DEF readable
        <3> QED BY <1>2 DEF Occurs
    <2> HIDE DEF matches
    <2> QED BY <2>1 DEF At
<1>5. search_bytes_internal(memory, start, end, bytes, nth) =
          IF \E a \in faults : reached(a) THEN Wild
          ELSE IF nth < Cardinality(found) THEN Nth(found, nth) ELSE NotFound
    BY DEF search_bytes_internal
<1> HIDE DEF faults, found, reached
<1>6. found \in SUBSET Nat /\ IsFiniteSet(found) /\ addr \in found
    BY <1>4, AtIsFinite DEF At
<1>7. {b \in found : b < addr} = At(memory, bytes, start, addr - 1)
    <2>1. \A b : b \in start..end /\ b < addr <=> b \in start..(addr - 1)
        OBVIOUS
    <2> QED BY <1>4, <2>1 DEF At
<1>8. nth = Cardinality({b \in found : b < addr})
    BY <1>7 DEF Number
<1> HIDE DEF nth
<1>9. Nth(found, nth) = addr /\ nth < Cardinality(found)
    BY <1>6, <1>8, NthIs
<1>10. search_bytes_internal(memory, start, end, bytes, nth) = addr
    BY <1>3, <1>5, <1>9
<1> QED BY <1>10 DEF nth

(* The hits of a pass that are whole in its chunk are where the bytes are. *)
LEMMA HitIs ==
    ASSUME NEW B, NEW memory \in Seq(B), NEW pass \in Passes(memory), pass.addr + pass.size <= Len(memory),
           NEW heap_byte, NEW bytes, Len(bytes) \in Nat,
           NEW i \in 0..(pass.size - 1), i + Len(bytes) <= pass.size
    PROVE  i \in hits(read_chunk(memory, pass), heap_byte, pass.size, bytes)
               <=> Occurs(memory, bytes, pass.addr + i)
<1> DEFINE buffer == read_chunk(memory, pass)
           n == pass.size
           c == pass.addr
           memory_chunk(k) == IF k < Len(buffer) THEN buffer[k + 1] ELSE heap_byte
<1>1. n \in Nat /\ c \in Nat
    BY DEF Passes
<1>2. Len(buffer) \in Nat /\ Len(buffer) >= n /\ \A k \in 0..(n - 1) : buffer[k + 1] = memory[c + k + 1]
    BY ChunkIsRead, LenProperties
<1>3. i \in hits(buffer, heap_byte, n, bytes) <=>
          \A j \in 1..Len(bytes) : memory_chunk(i + j - 1) = bytes[j]
    BY DEF hits
<1> HIDE DEF buffer, n, c
<1>4. i \in Nat /\ i + Len(bytes) <= n
    BY DEF n
<1>5. \A j \in 1..Len(bytes) : memory_chunk(i + j - 1) = memory[(c + i) + j]
    <2> TAKE j \in 1..Len(bytes)
    <2>1. i + j - 1 \in 0..(n - 1) /\ i + j - 1 < Len(buffer) /\ c + (i + j - 1) + 1 = (c + i) + j
        BY <1>1, <1>2, <1>4
    <2>2. memory_chunk(i + j - 1) = buffer[(i + j - 1) + 1]
        BY <2>1
    <2>3. buffer[(i + j - 1) + 1] = memory[c + (i + j - 1) + 1]
        BY <1>2, <2>1
    <2> QED BY <2>1, <2>2, <2>3
<1> HIDE DEF memory_chunk
<1>6. i \in hits(buffer, heap_byte, n, bytes) <=> Occurs(memory, bytes, c + i)
    BY <1>3, <1>5 DEF Occurs
<1> QED BY <1>6 DEF buffer, n, c

LEMMA FitsInDWord == \A n \in 0..(DWord - 1) : n % DWord = n
    BY DWordAssumption

(* The search finds an occurrence that is whole in its first chunk.        *)
LEMMA FirstChunkFinds ==
    ASSUME NEW B, NEW memory \in Seq(B), NEW heap_byte, NEW chunk \in Nat, NEW bytes, Len(bytes) \in Nat \ {0},
           NEW start \in 0..(DWord - 1), NEW end \in Nat, NEW addr \in start..end,
           start + chunk <= Len(memory), addr + Len(bytes) <= start + chunk, Occurs(memory, bytes, addr)
    PROVE  search_bytes(memory, heap_byte, chunk, start, end, bytes, Number(memory, bytes, start, addr)) = addr
<1> DEFINE before == At(memory, bytes, start, addr - 1)
           nth == Number(memory, bytes, start, addr)
           pass == FirstPass(chunk, start)
           S == hits(read_chunk(memory, pass), heap_byte, chunk, bytes)
           i == addr - start
           T == {k \in S : k < i}
<1>1. /\ start \in Nat /\ end \in Nat /\ addr \in Nat /\ chunk \in Nat /\ Len(bytes) \in Nat /\ Len(memory) \in Nat
      /\ start % DWord = start /\ start <= addr /\ addr <= end /\ Len(bytes) >= 1
    BY DWordAssumption, LenProperties
<1>2. pass \in Passes(memory) /\ pass.addr = start /\ pass.size = chunk /\ pass.found = 0
    <2>1. <<>> \in Seq(Range(memory))
        BY EmptySeq
    <2>2. pass = [addr |-> start, size |-> chunk, found |-> 0, old |-> <<>>]
        BY <1>1 DEF FirstPass
    <2> HIDE DEF pass
    <2> QED BY <1>1, <2>1, <2>2 DEF Passes
<1> HIDE DEF pass, nth, before
<1>3. PICK search :
          /\ search_bytes(memory, heap_byte, chunk, start, end, bytes, nth) = search[pass]
          /\ \A p \in Passes(memory) : search[p] =
                 SearchOn(memory, heap_byte, start, end, bytes, nth, search, p)
    BY <1>1, SearchIs DEF pass
<1>4. i \in Nat /\ start + i = addr /\ i \in 0..(chunk - 1)
    BY <1>1
<1>5. S \in SUBSET Nat /\ IsFiniteSet(S)
    <2>1. S \subseteq 0..(chunk - 1) /\ IsFiniteSet(S)
        BY <1>1, HitsAreFinite
    <2> HIDE DEF S
    <2> QED BY <1>1, <2>1
<1>6. ASSUME NEW k \in 0..i
      PROVE  k \in S <=> Occurs(memory, bytes, start + k)
    <2>1. k \in 0..(chunk - 1) /\ k + Len(bytes) <= chunk
        BY <1>1, <1>4
    <2> QED BY <1>1, <1>2, <2>1, HitIs
<1>7. i \in S
    <2>1. i \in 0..i
        BY <1>4
    <2> QED BY <1>4, <1>6, <2>1
<1>8. before \in SUBSET Nat /\ IsFiniteSet(before)
    <2>1. addr - 1 \in Int
        BY <1>1
    <2> QED BY <1>1, <2>1, AtIsFinite DEF before
<1> HIDE DEF S, i
<1>9. Cardinality(T) = nth
    <2>1. \A k \in Nat : k \in T <=> start + k \in before
        <3> TAKE k \in Nat
        <3>1. k < i <=> start + k \in start..(addr - 1)
            BY <1>1, <1>4
        <3>2. k < i => k \in 0..i
            BY <1>4
        <3> QED BY <1>6, <3>1, <3>2 DEF At, before
    <2>2. before \subseteq {start + k : k \in Nat}
        <3>1. \A a \in before : a - start \in Nat /\ start + (a - start) = a
            BY <1>1 DEF At, before
        <3> QED BY <3>1
    <2>3. T \in SUBSET Nat
        BY <1>5
    <2> HIDE DEF T
    <2> QED BY <1>1, <1>8, <2>1, <2>2, <2>3, MovedIs DEF nth, before, Number
<1>10. Nth(S, nth) = i /\ nth \in Nat /\ nth < Cardinality(S)
    BY <1>5, <1>7, <1>9, NthIs
<1>11. nth - 0 = nth
    BY <1>10
<1> HIDE DEF T
<1>12. search[pass] = start + i
    <2>1. hits(read_chunk(memory, pass), heap_byte, pass.size, bytes) = S
        BY <1>2 DEF S
    <2>2. ~ (pass.addr < start \/ pass.addr > end) /\ ~ (pass.addr + pass.size > Len(memory)) /\ pass.size # 0
        BY <1>1, <1>2, <1>4
    <2>3. search[pass] = SearchOn(memory, heap_byte, start, end, bytes, nth, search, pass)
        BY <1>2, <1>3
    <2>4. SearchOn(memory, heap_byte, start, end, bytes, nth, search, pass) = pass.addr + Nth(S, nth - pass.found)
        BY <1>2, <1>10, <1>11, <2>1, <2>2 DEF SearchOn
    <2> QED BY <1>2, <1>10, <1>11, <2>3, <2>4
<1> QED BY <1>3, <1>4, <1>12 DEF nth

(* The search for a single byte goes on, chunk by chunk, to its first      *)
(* occurrence, when all that it reads is readable.                         *)
LEMMA ChunksFind ==
    ASSUME NEW B, NEW memory \in Seq(B), NEW heap_byte, NEW chunk \in Nat \ {0}, NEW bytes, Len(bytes) = 1,
           NEW start \in 0..(DWord - 1), NEW end \in 0..(DWord - 1), NEW addr \in start..end,
           end + chunk <= Len(memory), Occurs(memory, bytes, addr),
           \A a \in start..(addr - 1) : ~ Occurs(memory, bytes, a)
    PROVE  search_bytes(memory, heap_byte, chunk, start, end, bytes, 0) = addr
<1>1. /\ start \in Nat /\ end \in Nat /\ addr \in Nat /\ chunk \in Nat /\ Len(memory) \in Nat
      /\ start % DWord = start /\ start <= addr /\ addr <= end /\ chunk >= 1 /\ end < DWord
    BY DWordAssumption, LenProperties
<1>2. PICK search :
          /\ search_bytes(memory, heap_byte, chunk, start, end, bytes, 0) = search[FirstPass(chunk, start)]
          /\ \A p \in Passes(memory) : search[p] =
                 SearchOn(memory, heap_byte, start, end, bytes, 0, search, p)
    BY <1>1, SearchIs
<1> DEFINE Here(p, d) == p.addr + d = addr /\ p.size = chunk /\ p.found = 0
           Finds(d) == \A p \in Passes(memory) : Here(p, d) /\ start <= p.addr => search[p] = addr
           Done == {m \in 0..addr : \A d \in 0..m : Finds(d)}
<1>3. ASSUME NEW d \in 0..addr, \A e \in 0..(d - 1) : Finds(e) PROVE Finds(d)
    <2> SUFFICES ASSUME NEW p \in Passes(memory), Here(p, d), start <= p.addr PROVE search[p] = addr
        OBVIOUS
    <2> DEFINE S == hits(read_chunk(memory, p), heap_byte, p.size, bytes)
               buffer == read_chunk(memory, p)
    <2>1. p.addr \in Nat /\ p.size = chunk /\ p.found = 0 /\ p.addr + d = addr /\ d \in Nat
        BY DEF Passes
    <2>2. ~ (p.addr < start \/ p.addr > end) /\ ~ (p.addr + p.size > Len(memory)) /\ p.size # 0
          /\ p.addr + p.size <= Len(memory)
        BY <1>1, <2>1
    <2>3. S \in SUBSET Nat /\ IsFiniteSet(S) /\ Cardinality(S) \in Nat /\ S \subseteq 0..(chunk - 1)
        BY <1>1, <2>1, HitsAreFinite
    <2>4. ASSUME NEW i \in 0..(chunk - 1) PROVE i \in S <=> Occurs(memory, bytes, p.addr + i)
        <3>1. i \in 0..(p.size - 1) /\ i + Len(bytes) <= p.size /\ Len(bytes) \in Nat
            BY <1>1, <2>1
        <3> QED BY <2>2, <3>1, HitIs
    <2>5. search[p] = SearchOn(memory, heap_byte, start, end, bytes, 0, search, p)
        BY <1>2
    <2>6. search[p] = IF 0 - p.found < Cardinality(S) THEN p.addr + Nth(S, 0 - p.found)
                      ELSE search[next_pass(p, end, buffer, Cardinality(S))]
        BY <2>2, <2>5 DEF SearchOn
    <2> HIDE DEF S
    <2>7. \A i \in 0..(chunk - 1) : i < d => i \notin S
        <3> TAKE i \in 0..(chunk - 1)
        <3> HAVE i < d
        <3>1. p.addr + i \in start..(addr - 1)
            BY <1>1, <2>1
        <3> QED BY <2>4, <3>1
    <2>8. CASE d < chunk
        <3>1. d \in S
            <4>1. d \in 0..(chunk - 1)
                BY <1>1, <2>1, <2>8
            <4> QED BY <2>1, <2>4, <4>1
        <3>2. {b \in S : b < d} = {}
            BY <2>3, <2>7
        <3>3. Cardinality({b \in S : b < d}) = 0
            BY <3>2, FS_EmptySet
        <3>4. Nth(S, 0) = d /\ 0 < Cardinality(S)
            BY <2>3, <3>1, <3>3, NthIs
        <3>5. 0 - p.found = 0
            BY <2>1
        <3> QED BY <2>1, <2>6, <3>4, <3>5
    <2>9. CASE ~ (d < chunk)
        <3>1. S = {}
            <4>1. \A i \in 0..(chunk - 1) : i < d
                BY <1>1, <2>1, <2>9
            <4> QED BY <2>3, <2>7, <4>1
        <3>2. Cardinality(S) = 0
            BY <3>1, FS_EmptySet
        <3> DEFINE q == next_pass(p, end, buffer, 0)
        <3>3. search[p] = search[q]
            BY <2>1, <2>6, <3>2
        <3>4. q \in Passes(memory)
            <4>1. p.addr <= end /\ buffer \in Seq(Range(memory)) /\ 0 \in Nat
                BY <1>1, <2>1, <2>2, ChunkIsRead
            <4> HIDE DEF buffer
            <4> QED BY <1>1, <4>1, NextIsAPass
        <3>5. q.addr = p.addr + chunk /\ q.size = chunk /\ q.found = 0
            <4>1. p.addr + chunk \in Nat /\ p.addr + chunk <= end /\ p.addr + p.size = p.addr + chunk
                BY <1>1, <2>1, <2>9
            <4>2. p.addr + chunk \in 0..(DWord - 1)
                BY DWordAssumption, <1>1, <4>1
            <4>3. (p.addr + chunk) % DWord = p.addr + chunk
                BY <4>2, FitsInDWord
            <4>4. ~ (p.addr + p.size > end)
                BY <1>1, <4>1
            <4> HIDE DEF buffer
            <4> QED BY <2>1, <4>3, <4>4 DEF next_pass
        <3> HIDE DEF q
        <3>6. d - chunk \in 0..(d - 1) /\ q.addr + (d - chunk) = addr /\ start <= q.addr
            BY <1>1, <2>1, <2>9, <3>5
        <3>7. Finds(d - chunk)
            BY <1>3, <3>6
        <3> QED BY <3>3, <3>4, <3>5, <3>6, <3>7
    <2> QED BY <2>8, <2>9
<1>4. 0..addr \subseteq Done
    <2> HIDE DEF Finds
    <2>1. 0 \in Done
        <3>1. 0 \in 0..addr /\ \A e \in 0..(0 - 1) : Finds(e)
            BY <1>1
        <3>2. Finds(0)
            BY <1>3, <3>1
        <3>3. \A d \in 0..0 : d = 0
            OBVIOUS
        <3> QED BY <3>1, <3>2, <3>3
    <2>2. ASSUME NEW m \in 1..addr, m - 1 \in Done PROVE m \in Done
        <3>1. m \in 0..addr /\ \A e \in 0..(m - 1) : Finds(e)
            BY <2>2
        <3>2. Finds(m)
            BY <1>3, <3>1
        <3>3. \A d \in 0..m : d = m \/ d \in 0..(m - 1)
            OBVIOUS
        <3> QED BY <3>1, <3>2, <3>3
    <2> HIDE DEF Done
    <2> QED BY <1>1, <2>1, <2>2, UpTo
<1>5. Finds(addr - start)
    <2>1. addr - start \in 0..addr /\ addr - start \in 0..(addr - start)
        BY <1>1
    <2> HIDE DEF Finds
    <2> QED BY <1>4, <2>1
<1> DEFINE pass == FirstPass(chunk, start)
<1>6. pass \in Passes(memory) /\ pass.addr = start /\ pass.size = chunk /\ pass.found = 0
    <2>1. <<>> \in Seq(Range(memory))
        BY EmptySeq
    <2>2. pass = [addr |-> start, size |-> chunk, found |-> 0, old |-> <<>>]
        BY <1>1 DEF FirstPass
    <2> HIDE DEF pass
    <2> QED BY <1>1, <2>1, <2>2 DEF Passes
<1> HIDE DEF pass
<1>7. Here(pass, addr - start) /\ start <= pass.addr
    BY <1>1, <1>6
<1>8. search[pass] = addr
    <2> HIDE DEF Here
    <2> QED BY <1>5, <1>6, <1>7
<1> QED BY <1>2, <1>8 DEF pass

(* An excerpt of a text occurs where it was taken from.                    *)
Excerpt(s, a, n) == SubSeq(s, a + 1, a + n)
ExcerptsAt(s, from, addr, n, bytes) == {a \in from..(addr - 1) : Excerpt(s, a, n) = bytes}

LEMMA PartOccurs ==
    ASSUME NEW B, NEW s \in Seq(B), NEW n \in Nat, NEW a \in Nat, NEW b \in Nat, a + n <= Len(s), b + n <= Len(s),
           NEW bytes, bytes = Excerpt(s, b, n)
    PROVE  /\ Len(bytes) = n /\ Occurs(s, bytes, b)
           /\ Excerpt(s, a, n) = bytes <=> Occurs(s, bytes, a)
<1>1. ASSUME NEW c \in Nat, c + n <= Len(s)
      PROVE  /\ Excerpt(s, c, n) \in Seq(B) /\ Len(Excerpt(s, c, n)) = n
             /\ \A j \in 1..n : Excerpt(s, c, n)[j] = s[c + j]
    <2> DEFINE part == SubSeq(s, c + 1, c + n)
    <2>1. Len(s) \in Nat
        BY LenProperties
    <2>2. /\ part \in Seq(B)
          /\ Len(part) = IF c + 1 <= c + n THEN c + n - (c + 1) + 1 ELSE 0
          /\ \A j \in 1..(c + n - (c + 1) + 1) : part[j] = s[c + 1 + j - 1]
        BY <1>1, <2>1, SubSeqProperties
    <2> HIDE DEF part
    <2>3. c + n - (c + 1) + 1 = n /\ \A j \in 1..n : c + 1 + j - 1 = c + j
        OBVIOUS
    <2> QED BY <2>2, <2>3 DEF part, Excerpt
<1> DEFINE part == Excerpt(s, a, n)
<1>2. bytes \in Seq(B) /\ Len(bytes) = n /\ \A j \in 1..n : bytes[j] = s[b + j]
    BY <1>1
<1>3. part \in Seq(B) /\ Len(part) = n /\ \A j \in 1..n : part[j] = s[a + j]
    BY <1>1
<1> HIDE DEF part
<1>4. Occurs(s, bytes, b)
    BY <1>2 DEF Occurs
<1>5. part = bytes <=> Occurs(s, bytes, a)
    <2>1. ASSUME part = bytes PROVE Occurs(s, bytes, a)
        BY <1>3, <2>1 DEF Occurs
    <2>2. ASSUME Occurs(s, bytes, a) PROVE part = bytes
        <3>1. \A j \in 1..n : part[j] = bytes[j]
            BY <1>2, <1>3, <2>2 DEF Occurs
        <3> QED BY <1>2, <1>3, <3>1, SeqEqual
    <2> QED BY <2>1, <2>2
<1> QED BY <1>2, <1>4, <1>5 DEF part

LEMMA SearchesMeet ==
    ASSUME text \in Seq(Chars), NEW start \in Nat, NEW chunk \in Nat \ {0}, NEW length \in Nat \ {0}, NEW heap_byte,
           NEW addr \in start..(Len(text) - length), NEW end \in addr..(Len(text) - length), end < DWord,
           NEW bytes, bytes = Excerpt(text, addr, length),
           NEW nth, nth = Cardinality(ExcerptsAt(text, start, addr, length, bytes)),
           \/ addr + length <= start + chunk /\ start + chunk <= Len(text)
           \/ length = 1 /\ nth = 0 /\ end + chunk <= Len(text)
    PROVE  /\ search_bytes(text, heap_byte, chunk, start, end, bytes, nth) = addr
           /\ search_bytes_internal(text, start, end, bytes, nth) = addr
<1> DEFINE before == ExcerptsAt(text, start, addr, length, bytes)
<1>1. /\ Len(text) \in Nat /\ start \in Nat /\ chunk \in Nat \ {0} /\ length \in Nat \ {0} /\ addr \in Nat /\ end \in Nat
      /\ addr \in start..end /\ end + length <= Len(text) /\ addr + length <= Len(text) /\ addr - 1 \in Int
      /\ start \in 0..(DWord - 1) /\ end \in 0..(DWord - 1)
    BY DWordAssumption, LenProperties
<1>2. Len(bytes) = length /\ Occurs(text, bytes, addr)
    <2>1. length \in Nat /\ addr \in Nat /\ addr + length <= Len(text)
        BY <1>1
    <2> QED BY <2>1, PartOccurs
<1>3. \A a \in start..(addr - 1) : Excerpt(text, a, length) = bytes <=> Occurs(text, bytes, a)
    <2> TAKE a \in start..(addr - 1)
    <2>1. a \in Nat /\ a + length <= Len(text)
        BY <1>1
    <2> QED BY <1>1, <2>1, PartOccurs
<1>4. before = At(text, bytes, start, addr - 1)
    BY <1>3 DEF At, ExcerptsAt
<1>5. nth = Cardinality(before) /\ nth = Number(text, bytes, start, addr)
    BY <1>4 DEF Number
<1> HIDE DEF before
<1>6. search_bytes_internal(text, start, end, bytes, nth) = addr
    BY <1>1, <1>2, <1>5, InternalFinds
<1>7. ASSUME addr + length <= start + chunk, start + chunk <= Len(text)
      PROVE  search_bytes(text, heap_byte, chunk, start, end, bytes, nth) = addr
    <2>1. search_bytes(text, heap_byte, chunk, start, end, bytes, Number(text, bytes, start, addr)) = addr
        BY <1>1, <1>2, <1>7, FirstChunkFinds
    <2> QED BY <1>5, <2>1
<1>8. ASSUME length = 1, nth = 0, end + chunk <= Len(text)
      PROVE  search_bytes(text, heap_byte, chunk, start, end, bytes, nth) = addr
    <2>1. before = {}
        <3>1. IsFiniteSet(before)
            BY <1>1, <1>4, AtIsFinite
        <3>2. Cardinality(before) = 0
            BY <1>5, <1>8
        <3> QED BY <3>1, <3>2, FS_EmptySet
    <2>2. \A a \in start..(addr - 1) : ~ Occurs(text, bytes, a)
        BY <1>4, <2>1 DEF At
    <2>3. search_bytes(text, heap_byte, chunk, start, end, bytes, 0) = addr
        BY <1>1, <1>2, <1>8, <2>2, ChunksFind
    <2> QED BY <1>8, <2>3
<1> QED BY <1>6, <1>7, <1>8

LEMMA SearchesHold == ASSUME text \in Seq(Chars) PROVE SearchesAgree
<1> DEFINE Agree(start, chunk, length, heap_byte, addr, end, bytes, nth) ==
               end < DWord
               /\ \/ addr + length <= start + chunk /\ start + chunk <= Len(text)
                  \/ length = 1 /\ nth = 0 /\ end + chunk <= Len(text)
               => /\ search_bytes(text, heap_byte, chunk, start, end, bytes, nth) = addr
                  /\ search_bytes_internal(text, start, end, bytes, nth) = addr
<1>1. \A start \in {0, 1}, chunk \in {2, 3}, length \in {1, 2}, heap_byte \in Bytes :
      \A addr \in start..(Len(text) - length) : \A end \in addr..(Len(text) - length) :
          Agree(start, chunk, length, heap_byte, addr, end, Excerpt(text, addr, length),
                Cardinality(ExcerptsAt(text, start, addr, length, Excerpt(text, addr, length))))
    <2> TAKE start \in {0, 1}, chunk \in {2, 3}, length \in {1, 2}, heap_byte \in Bytes
    <2> TAKE addr \in start..(Len(text) - length)
    <2> TAKE end \in addr..(Len(text) - length)
    <2> DEFINE bytes == Excerpt(text, addr, length)
               nth == Cardinality(ExcerptsAt(text, start, addr, length, bytes))
    <2>1. bytes = Excerpt(text, addr, length) /\ nth = Cardinality(ExcerptsAt(text, start, addr, length, bytes))
        OBVIOUS
    <2> HIDE DEF bytes, nth
    <2>2. Agree(start, chunk, length, heap_byte, addr, end, bytes, nth)
        BY SMTT(30), <2>1, SearchesMeet
    <2> QED BY <2>2 DEF bytes, nth
<1>2. SearchesAgree <=> (alphabet = Bytes =>
      \A start \in {0, 1}, chunk \in {2, 3}, length \in {1, 2}, heap_byte \in Bytes :
      \A addr \in start..(Len(text) - length) : \A end \in addr..(Len(text) - length) :
          Agree(start, chunk, length, heap_byte, addr, end, Excerpt(text, addr, length),
                Cardinality(ExcerptsAt(text, start, addr, length, Excerpt(text, addr, length)))))
    BY Zenon DEF SearchesAgree, Excerpt, ExcerptsAt
<1> HIDE DEF Agree
<1> QED BY <1>1, <1>2

LEMMA FunctionHolds == ASSUME text \in Seq(Chars) PROVE RealFunctionIsFound
<1> SUFFICES ASSUME text # <<>>, text[1] = "jmp", NEW rel \in 0..(Len(text) - OpcodeSize - 1),
                    \A a \in rel..((OpcodeSize + rel) - 1) : text[a + 1] = "int3",
                    text[(OpcodeSize + rel) + 1] # "int3"
             PROVE  LET function == OpcodeSize + rel
                        size == get_function_size(text, 0, rel)
                    IN  /\ get_function_real_address(text, 0, rel) = function
                        /\ size = Wild \/ (text[function + size] = "ret"
                              /\ ~ Contains(SubSeq(text, function + 1, function + size - 1), "ret"))
    BY DEF RealFunctionIsFound
<1> DEFINE function == OpcodeSize + rel
           size == get_function_size(text, 0, rel)
           code == {a \in rel..(Len(text) - 1) : text[a + 1] # "int3"}
           returns == {a \in function..(Len(text) - 1) : text[a + 1] = "ret"}
<1>1. Len(text) \in Nat /\ rel \in Nat /\ function \in Nat /\ function # 0 /\ rel <= function /\ function <= Len(text) - 1
    BY LenProperties, OpcodeAssumption
<1>2. \A a \in rel..(function - 1) : text[a + 1] = "int3"
    OBVIOUS
<1>3. text[function + 1] # "int3"
    OBVIOUS
<1> HIDE DEF function
<1>4. Min(code) = function /\ code # {}
    <2>1. function \in code
        BY <1>1, <1>3
    <2>2. \A a \in code : function <= a
        <3> TAKE a \in code
        <3>1. a \in Nat /\ ~ (a \in rel..(function - 1)) /\ rel <= a
            BY <1>1, <1>2
        <3> QED BY <1>1, <3>1
    <2>3. code \in SUBSET Nat
        BY <1>1
    <2> HIDE DEF code
    <2> QED BY <2>1, <2>2, <2>3, MinOf
<1>5. get_function_real_address(text, 0, rel) = function
    <2>1. 0 + 1 = 1 /\ 0 + rel = rel
        BY <1>1
    <2> QED BY <1>4, <2>1 DEF get_function_real_address, skipped
<1>6. ASSUME size # Wild
      PROVE  text[function + size] = "ret" /\ ~ Contains(SubSeq(text, function + 1, function + size - 1), "ret")
    <2>1. size = IF returns = {} THEN Wild ELSE Min(returns) - function + 1
        BY <1>1, <1>5 DEF get_function_size
    <2>2. returns # {} /\ size = Min(returns) - function + 1
        BY <1>6, <2>1
    <2>3. returns \in SUBSET Nat
        BY <1>1
    <2> HIDE DEF size
    <2>4. Min(returns) \in returns /\ \A a \in returns : Min(returns) <= a
        <3> HIDE DEF returns
        <3> QED BY <2>2, <2>3, MinIs
    <2> DEFINE r == Min(returns)
    <2>5. r \in Nat /\ function <= r /\ r <= Len(text) - 1 /\ text[r + 1] = "ret"
        BY <1>1, <2>4
    <2>6. \A a \in function..(r - 1) : text[a + 1] # "ret"
        <3> TAKE a \in function..(r - 1)
        <3>1. a \in function..(Len(text) - 1) /\ ~ (r <= a)
            BY <1>1, <2>5
        <3> HIDE DEF r
        <3> QED BY <2>4, <3>1 DEF r
    <2> HIDE DEF r
    <2>7. size = r - function + 1
        BY <2>2 DEF r
    <2>8. function + size = r + 1 /\ function + size - 1 = r
        BY <1>1, <2>5, <2>7
    <2>9. ~ Contains(SubSeq(text, function + 1, r), "ret")
        <3> DEFINE part == SubSeq(text, function + 1, r)
        <3>1. /\ part \in Seq(Chars)
              /\ Len(part) = IF function + 1 <= r THEN r - (function + 1) + 1 ELSE 0
              /\ \A j \in 1..(r - (function + 1) + 1) : part[j] = text[function + 1 + j - 1]
            BY <1>1, <2>5, SubSeqProperties
        <3> HIDE DEF part
        <3>2. \A j \in 1..Len(part) : part[j] # "ret"
            <4> TAKE j \in 1..Len(part)
            <4>1. function + 1 <= r
                BY <1>1, <2>5, <3>1
            <4>2. j \in 1..(r - (function + 1) + 1) /\ (function + j) - 1 \in function..(r - 1)
                  /\ function + 1 + j - 1 = ((function + j) - 1) + 1
                BY <1>1, <2>5, <3>1, <4>1
            <4> QED BY <2>6, <3>1, <4>2
        <3> QED BY <3>2 DEF Contains, part
    <2> QED BY <2>5, <2>8, <2>9
<1> QED BY <1>5, <1>6 DEF function

(* The two searches find the same occurrence, and the search for a         *)
(* function its first byte, under the conditions that SearchesAgree and    *)
(* RealFunctionIsFound name: in memories of any length.                    *)
THEOREM SearchesFind == TextSpec => []SearchesAreExact
<1>1. TextInv => SearchesAreExact
    BY SearchesHold, FunctionHolds DEF TextInv, SearchesAreExact
<1> QED BY <1>1, TextInvariant, PTL

=============================================================================
