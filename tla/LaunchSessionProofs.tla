------------------------- MODULE LaunchSessionProofs -------------------------
(***************************************************************************)
(* Proofs about LaunchSession, a captured terminal, and the replay buffer  *)
(* that its output fills: for any output, size of reads, queue and limit   *)
(* of the buffer, however the launch fails, a fallback is clean, the abort *)
(* is the last line, and a replay is the end of what the command wrote.    *)
(***************************************************************************)
EXTENDS LaunchSession, SequenceTheorems, WellFoundedInduction, TLAPS

---------------------------------------------------------------------------
(* A set of naturals that is not empty has a least element.                *)
LEMMA LeastNat ==
    ASSUME NEW T, T \subseteq Nat, T # {}
    PROVE  \E x \in T : \A y \in T : x <= y
<1>1. PICK x \in T : \A y \in T : ~(<<y, x>> \in OpToRel(<, Nat))
  BY WFMin, NatLessThanWellFounded
<1>2. \A y \in T : ~(y < x)
  BY <1>1 DEF OpToRel
<1> QED BY <1>2

(* f[i] is the result of applying g to s i times.                          *)
Iterates(f, S, s, g, n) == f \in [0..n -> S] /\ f[0] = s /\ \A i \in 1..n : f[i] = g[f[i - 1]]

(* The function that applies g over and over exists.                       *)
LEMMA IterationExists ==
    ASSUME NEW S, NEW s \in S, NEW g \in [S -> S], NEW n \in Nat
    PROVE  \E f : Iterates(f, S, s, g, n)
<1> DEFINE Has(m) == \E f \in [0..m -> S] :
                        /\ f[0] = s
                        /\ \A i \in 1..m : f[i] = g[f[i - 1]]
           T == {m \in Nat : ~Has(m)}
<1>1. Has(0)
  <2> DEFINE f == [i \in 0..0 |-> s]
  <2>1. f \in [0..0 -> S] /\ f[0] = s /\ \A i \in 1..0 : f[i] = g[f[i - 1]] OBVIOUS
  <2> HIDE DEF f
  <2> QED BY <2>1
<1>2. ASSUME NEW m \in Nat, Has(m) PROVE Has(m + 1)
  <2>1. PICK f \in [0..m -> S] : f[0] = s /\ \A i \in 1..m : f[i] = g[f[i - 1]] BY <1>2
  <2> DEFINE h == [i \in 0..m + 1 |-> IF i <= m THEN f[i] ELSE g[f[m]]]
  <2>2. h \in [0..m + 1 -> S] OBVIOUS
  <2>3. h[0] = s BY <2>1
  <2>4. ASSUME NEW i \in 1..m + 1 PROVE h[i] = g[h[i - 1]]
    <3>1. CASE i <= m
      <4>1. i \in 1..m /\ i \in 0..m + 1 /\ i - 1 \in 0..m + 1 BY <3>1
      <4> QED BY <2>1, <3>1, <4>1
    <3>2. CASE i = m + 1
      <4>1. h[i] = g[f[m]] BY <3>2
      <4>2. h[i - 1] = f[m] BY <3>2
      <4> QED BY <4>1, <4>2
    <3> QED BY <3>1, <3>2
  <2> HIDE DEF h
  <2> QED BY <2>2, <2>3, <2>4
<1>3. Has(n)
  <2> SUFFICES ASSUME ~Has(n) PROVE FALSE OBVIOUS
  <2> HIDE DEF Has
  <2>1. PICK m \in T : \A k \in T : m <= k BY LeastNat
  <2>2. m # 0 BY <1>1, <2>1
  <2>3. m - 1 \in Nat /\ Has(m - 1) BY <2>1, <2>2
  <2>4. Has(m - 1 + 1) BY <1>2, <2>3
  <2> QED BY <2>1, <2>4
<1> QED BY <1>3 DEF Iterates

---------------------------------------------------------------------------
(* The replay buffer: chunks of consecutive bytes of the stream.           *)
Bytes(first, last) == [i \in 1 .. (last + 1 - first) |-> first + i - 1]

(* e[i] is the last byte of chunk i, e[0] the one before the first chunk.  *)
EndsAt(b, e) ==
    /\ e \in [0..Len(b) -> Nat]
    /\ \A i \in 1..Len(b) : e[i - 1] < e[i] /\ b[i] = Bytes(e[i - 1] + 1, e[i])

Chunked(b, before, last) ==
    /\ b \in Seq(Seq(Nat))
    /\ \E e : EndsAt(b, e) /\ e[0] = before /\ e[Len(b)] = last

CAP == VT100_BUFFER_BYTES
BufferInv ==
    /\ total \in Nat
    /\ terminal_buffer_len = IF total <= CAP THEN total ELSE CAP
    /\ Chunked(terminal_buffer, total - terminal_buffer_len, total)

LEMMA BytesType ==
    ASSUME NEW p \in Nat, NEW q \in Nat, p <= q
    PROVE  /\ Bytes(p + 1, q) \in Seq(Nat) /\ Len(Bytes(p + 1, q)) = q - p
           /\ \A i \in 1..(q - p) : Bytes(p + 1, q)[i] = p + i
<1>1. Bytes(p + 1, q) = [i \in 1..(q - p) |-> p + i]
  BY DEF Bytes
<1>2. q - p \in Nat OBVIOUS
<1>3. [i \in 1..(q - p) |-> p + i] \in Seq(Nat)
  BY <1>2, IsASeq
<1> QED BY <1>1, <1>2, <1>3

(* The bytes before q and those after it.                                  *)
LEMMA BytesConcat ==
    ASSUME NEW p \in Nat, NEW q \in Nat, NEW r \in Nat, p <= q, q <= r
    PROVE  Bytes(p + 1, q) \o Bytes(q + 1, r) = Bytes(p + 1, r)
<1> DEFINE s == Bytes(p + 1, q)  t == Bytes(q + 1, r)  u == Bytes(p + 1, r)
<1>1. s \in Seq(Nat) /\ Len(s) = q - p /\ \A i \in 1..(q - p) : s[i] = p + i BY BytesType
<1>2. t \in Seq(Nat) /\ Len(t) = r - q /\ \A i \in 1..(r - q) : t[i] = q + i BY BytesType
<1>3. u \in Seq(Nat) /\ Len(u) = r - p /\ \A i \in 1..(r - p) : u[i] = p + i BY BytesType
<1> HIDE DEF s, t, u
<1>4. s \o t \in Seq(Nat) /\ Len(s \o t) = r - p
  <2>1. s \o t \in Seq(Nat) /\ Len(s \o t) = Len(s) + Len(t) BY <1>1, <1>2, ConcatProperties
  <2> QED BY <1>1, <1>2, <2>1
<1>5. ASSUME NEW i \in 1..(r - p) PROVE (s \o t)[i] = u[i]
  <2>1. i \in 1 .. Len(s) + Len(t) BY <1>1, <1>2
  <2>2. (s \o t)[i] = IF i <= Len(s) THEN s[i] ELSE t[i - Len(s)]
    BY <1>1, <1>2, <2>1, ConcatProperties
  <2>3. CASE i <= q - p BY <1>1, <1>3, <2>2, <2>3
  <2>4. CASE ~(i <= q - p)
    <3>1. i - (q - p) \in 1..(r - q) BY <2>4
    <3> QED BY <1>1, <1>2, <1>3, <2>2, <2>4, <3>1
  <2> QED BY <2>3, <2>4
<1>6. s \o t = u
  BY <1>3, <1>4, <1>5, SeqEqual
<1> QED BY <1>6 DEF s, t, u

(* The last bytes of a chunk.                                              *)
LEMMA BytesCut ==
    ASSUME NEW p \in Nat, NEW q \in Nat, NEW n \in Nat, n < q - p
    PROVE  SubSeq(Bytes(p + 1, q), n + 1, q - p) = Bytes(p + n + 1, q)
<1> DEFINE s == Bytes(p + 1, q)  t == SubSeq(s, n + 1, q - p)  m == p + n  u == Bytes(m + 1, q)
<1>1. s \in Seq(Nat) /\ Len(s) = q - p /\ \A i \in 1..(q - p) : s[i] = p + i BY BytesType
<1>2. u \in Seq(Nat) /\ Len(u) = q - m /\ \A i \in 1..(q - m) : u[i] = m + i
  <2>1. m \in Nat /\ m <= q OBVIOUS
  <2> QED BY <2>1, BytesType
<1>3. u = Bytes(p + n + 1, q) OBVIOUS
<1> HIDE DEF s, u
<1>4. /\ t \in Seq(Nat) /\ Len(t) = q - p - n
      /\ \A i \in 1..(q - p - n) : t[i] = s[n + 1 + i - 1]
  BY <1>1, SubSeqProperties
<1> HIDE DEF t
<1>5. ASSUME NEW i \in 1..(q - m) PROVE t[i] = u[i]
  <2>1. i \in 1..(q - p - n) /\ n + 1 + i - 1 \in 1..(q - p) /\ n + 1 + i - 1 = n + i OBVIOUS
  <2>2. t[i] = p + (n + i) BY <1>1, <1>4, <2>1
  <2>3. u[i] = m + i BY <1>2
  <2> QED BY <2>2, <2>3
<1>6. t = u
  <2>1. Len(t) = Len(u) /\ Len(t) = q - m BY <1>2, <1>4
  <2> QED BY <1>2, <1>4, <1>5, <2>1, SeqEqual
<1> QED BY <1>3, <1>6 DEF s, t

(* A round of the trimming loop, on chunks that end at last.               *)
Trimmable(b, len, last) == len \in 0..last /\ Chunked(b, last - len, last)

LEMMA ChunkedLength ==
    ASSUME NEW b \in Seq(Seq(Nat)), NEW e, EndsAt(b, e)
    PROVE  /\ b = <<>> => e[0] = e[Len(b)]
           /\ b # <<>> =>
                /\ e[0] \in Nat /\ e[1] \in Nat /\ e[0] < e[1]
                /\ Head(b) = Bytes(e[0] + 1, e[1]) /\ Len(Head(b)) = e[1] - e[0]
<1>1. Len(b) \in Nat BY LenProperties
<1>2. CASE b = <<>> BY <1>2
<1>3. CASE b # <<>>
  <2>1. 1 \in 1..Len(b) /\ Head(b) = b[1] BY <1>3, EmptySeq, LenProperties
  <2>2. e[0] \in Nat /\ e[1] \in Nat
    <3>1. 0 \in 0..Len(b) /\ 1 \in 0..Len(b) BY <1>1, <2>1
    <3>2. e \in [0..Len(b) -> Nat] BY DEF EndsAt
    <3> QED BY <3>1, <3>2
  <2>3. e[1 - 1] < e[1] /\ b[1] = Bytes(e[1 - 1] + 1, e[1]) BY <2>1 DEF EndsAt
  <2>4. e[0] < e[1] /\ b[1] = Bytes(e[0] + 1, e[1]) BY <2>3
  <2>5. Len(b[1]) = e[1] - e[0] BY <2>2, <2>4, BytesType
  <2> QED BY <1>3, <2>1, <2>2, <2>4, <2>5
<1> QED BY <1>2, <1>3

LEMMA TrimRoundStep ==
    ASSUME NEW last \in Nat, NEW b, NEW len, Trimmable(b, len, last), len > CAP
    PROVE  \E c, m : /\ TrimRound(<<b, len>>) = <<c, m>>
                     /\ Trimmable(c, m, last) /\ m >= CAP
                     /\ m = CAP \/ Len(c) = Len(b) - 1
<1> DEFINE over == len - CAP
<1>0. CAP \in Nat \ {0} /\ over \in Nat \ {0}
  BY BufferAssumption DEF CAP, Trimmable
<1>1. len \in Nat /\ len <= last /\ b \in Seq(Seq(Nat)) /\ Len(b) \in Nat
  BY LenProperties DEF Trimmable, Chunked
<1>2. PICK e : EndsAt(b, e) /\ e[0] = last - len /\ e[Len(b)] = last
  BY DEF Trimmable, Chunked
<1>3. b # <<>> BY <1>0, <1>1, <1>2, ChunkedLength
<1>4. /\ e[0] \in Nat /\ e[1] \in Nat /\ e[0] < e[1]
      /\ Head(b) = Bytes(e[0] + 1, e[1]) /\ Len(Head(b)) = e[1] - e[0]
  BY <1>1, <1>2, <1>3, ChunkedLength
<1>5. e \in [0..Len(b) -> Nat] /\ Len(b) # 0
      /\ \A i \in 1..Len(b) : e[i - 1] < e[i] /\ b[i] = Bytes(e[i - 1] + 1, e[i])
  BY <1>1, <1>2, <1>3, EmptySeq DEF EndsAt
<1>6. CASE Len(Head(b)) <= over
  <2> DEFINE c == Tail(b)  m == len - Len(Head(b))  h == [i \in 0..Len(b) - 1 |-> e[i + 1]]
  <2>1. TrimRound(<<b, len>>) = <<c, m>>
    <3>1. ~(len <= VT100_BUFFER_BYTES) /\ Len(Head(b)) <= len - VT100_BUFFER_BYTES
      BY <1>0, <1>1, <1>6 DEF CAP
    <3> QED BY <1>3, <3>1 DEF TrimRound
  <2>2. c \in Seq(Seq(Nat)) /\ Len(c) = Len(b) - 1 /\ \A i \in 1..Len(c) : c[i] = b[i + 1]
    BY <1>1, <1>3, HeadTailProperties
  <2>3. m \in 0..last /\ m >= CAP /\ m = last - e[1]
    <3>1. m = len - (e[1] - e[0]) /\ e[1] - e[0] <= len - CAP BY <1>4, <1>6
    <3>2. e[0] = last - len BY <1>2
    <3> DEFINE p == e[0]  q == e[1]
    <3>3. p \in Nat /\ q \in Nat /\ p < q /\ m = len - (q - p) /\ q - p <= len - CAP /\ p = last - len
      BY <1>4, <3>1, <3>2
    <3> HIDE DEF m, p, q
    <3>4. m = last - q /\ m >= CAP BY <1>0, <1>1, <3>3
    <3>5. m \in 0..last BY <1>0, <1>1, <3>3, <3>4
    <3> QED BY <3>4, <3>5 DEF q
  <2> HIDE DEF c, m
  <2>4. EndsAt(c, h)
    <3>1. h \in [0..Len(c) -> Nat] BY <1>1, <1>5, <2>2
    <3>2. ASSUME NEW i \in 1..Len(c) PROVE h[i - 1] < h[i] /\ c[i] = Bytes(h[i - 1] + 1, h[i])
      <4>1. i + 1 \in 1..Len(b) /\ i + 1 - 1 = i /\ i \in 0..Len(b) - 1
            /\ i - 1 \in 0..Len(b) - 1 /\ i - 1 + 1 = i
        BY <1>1, <1>5, <2>2
      <4>2. h[i] = e[i + 1] /\ h[i - 1] = e[i] BY <4>1
      <4>3. e[i + 1 - 1] < e[i + 1] /\ b[i + 1] = Bytes(e[i + 1 - 1] + 1, e[i + 1]) BY <1>5, <4>1
      <4>4. e[i] < e[i + 1] /\ b[i + 1] = Bytes(e[i] + 1, e[i + 1]) BY <4>1, <4>3
      <4> HIDE DEF h
      <4> QED BY <2>2, <4>2, <4>4
    <3> HIDE DEF h
    <3> QED BY <3>1, <3>2 DEF EndsAt
  <2>5. h[0] = last - m /\ h[Len(c)] = last
    <3>1. 0 \in 0..Len(b) - 1 /\ Len(c) \in 0..Len(b) - 1 /\ Len(c) + 1 = Len(b) BY <1>1, <1>5, <2>2
    <3>2. h[0] = e[1] /\ h[Len(c)] = e[Len(b)] BY <3>1
    <3> QED BY <1>1, <1>2, <1>4, <2>3, <3>2
  <2> HIDE DEF h
  <2>6. Trimmable(c, m, last) BY <2>2, <2>3, <2>4, <2>5 DEF Trimmable, Chunked
  <2> QED BY <2>1, <2>2, <2>3, <2>6
<1>7. CASE ~(Len(Head(b)) <= over)
  <2> DEFINE cut == SubSeq(Head(b), over + 1, Len(Head(b)))
             c == [b EXCEPT ![1] = cut]  h == [e EXCEPT ![0] = last - CAP]
  <2>1. TrimRound(<<b, len>>) = <<c, CAP>>
    <3>1. len - over = CAP BY <1>0, <1>1
    <3>2. ~(len <= VT100_BUFFER_BYTES) /\ ~(Len(Head(b)) <= len - VT100_BUFFER_BYTES)
      BY <1>0, <1>1, <1>7 DEF CAP
    <3>3. TrimRound(<<b, len>>) =
            <<[b EXCEPT ![1] = SubSeq(Head(b), len - VT100_BUFFER_BYTES + 1, Len(Head(b)))],
              len - (len - VT100_BUFFER_BYTES)>>
      BY <1>3, <3>2 DEF TrimRound
    <3>4. TrimRound(<<b, len>>) = <<c, len - over>>
      BY <3>3 DEF CAP
    <3> QED BY <3>1, <3>4
  <2>2. last - CAP \in Nat /\ last - CAP = e[0] + over /\ last - CAP < e[1] /\ e[0] < last - CAP
    BY <1>0, <1>1, <1>2, <1>4, <1>7
  <2>3. cut = Bytes(last - CAP + 1, e[1])
    <3>1. over < e[1] - e[0] /\ over \in Nat BY <1>0, <1>4, <1>7
    <3>2. SubSeq(Bytes(e[0] + 1, e[1]), over + 1, e[1] - e[0]) = Bytes(e[0] + over + 1, e[1])
      BY <1>4, <3>1, BytesCut
    <3> QED BY <1>4, <2>2, <3>2
  <2>4. cut \in Seq(Nat)
    <3> DEFINE p == last - CAP
    <3>1. p \in Nat /\ p <= e[1] BY <1>4, <2>2
    <3> HIDE DEF p
    <3>2. Bytes(p + 1, e[1]) \in Seq(Nat) BY <1>4, <3>1, BytesType
    <3> QED BY <2>3, <3>2 DEF p
  <2> HIDE DEF cut
  <2>5. c \in Seq(Seq(Nat)) /\ Len(c) = Len(b) /\ c[1] = cut
        /\ \A i \in 2..Len(b) : c[i] = b[i]
    <3>1. 1 \in 1..Len(b) BY <1>1, <1>5
    <3> QED BY <1>1, <2>4, <3>1, ExceptSeq
  <2> HIDE DEF c
  <2>6. EndsAt(c, h)
    <3>1. h \in [0..Len(c) -> Nat] BY <1>5, <2>2, <2>5
    <3>2. h[0] = last - CAP /\ \A i \in 1..Len(b) : h[i] = e[i] BY <1>1, <1>5
    <3> HIDE DEF h
    <3>3. ASSUME NEW i \in 1..Len(c) PROVE h[i - 1] < h[i] /\ c[i] = Bytes(h[i - 1] + 1, h[i])
      <4>1. CASE i = 1
        <5>1. h[i - 1] = last - CAP /\ h[i] = e[1] /\ c[i] = cut BY <1>1, <2>5, <3>2, <4>1
        <5> QED BY <2>2, <2>3, <5>1
      <4>2. CASE i # 1
        <5>1. i \in 2..Len(b) /\ i - 1 \in 1..Len(b) /\ i \in 1..Len(b) BY <1>1, <2>5, <4>2
        <5>2. h[i] = e[i] /\ h[i - 1] = e[i - 1] /\ c[i] = b[i] BY <2>5, <3>2, <5>1
        <5> QED BY <1>5, <5>1, <5>2
      <4> QED BY <4>1, <4>2
    <3> QED BY <3>1, <3>3 DEF EndsAt
  <2>7. h[0] = last - CAP /\ h[Len(c)] = last
    BY <1>1, <1>2, <1>5, <2>5
  <2>8. CAP \in 0..last BY <1>0, <1>1
  <2> HIDE DEF h
  <2>9. Trimmable(c, CAP, last) BY <2>5, <2>6, <2>7, <2>8 DEF Trimmable, Chunked
  <2> QED BY <1>0, <2>1, <2>9
<1> QED BY <1>6, <1>7

(* What the loop leaves: the last bytes, CAP of them if there are more.    *)
LEMMA TrimKeeps ==
    ASSUME NEW last \in Nat, NEW b, NEW len, Trimmable(b, len, last)
    PROVE  \E c, m : /\ trim(b, len) = <<c, m>> /\ Trimmable(c, m, last)
                     /\ m = IF len <= CAP THEN len ELSE CAP
<1> DEFINE N == Len(b) + 1
           S == {x \in Seq(Seq(Nat)) \X Nat : Trimmable(x[1], x[2], last)}
           s == <<b, len>>
           g == [x \in S |-> TrimRound(x)]
           F(h) == [n \in 0..N |-> IF n = 0 THEN s ELSE TrimRound(h[n - 1])]
           after == CHOOSE h : h = F(h)
<1>0. CAP \in Nat \ {0} BY BufferAssumption DEF CAP
<1>1. b \in Seq(Seq(Nat)) /\ len \in Nat /\ N \in Nat
  BY LenProperties DEF Trimmable, Chunked
<1>2. s \in S BY <1>1
<1>3. ASSUME NEW x \in S, x[2] > CAP
      PROVE  /\ TrimRound(x) \in S /\ TrimRound(x)[2] >= CAP
             /\ TrimRound(x)[2] = CAP \/ Len(TrimRound(x)[1]) = Len(x[1]) - 1
  <2>1. x = <<x[1], x[2]>> /\ Trimmable(x[1], x[2], last) BY <1>3
  <2>2. PICK c, m : /\ TrimRound(x) = <<c, m>>
                    /\ Trimmable(c, m, last) /\ m >= CAP
                    /\ m = CAP \/ Len(c) = Len(x[1]) - 1
    BY <1>3, <2>1, TrimRoundStep
  <2>3. <<c, m>> \in Seq(Seq(Nat)) \X Nat BY <2>2 DEF Trimmable, Chunked
  <2> QED BY <2>2, <2>3
<1>4. ASSUME NEW x \in S, ~(x[2] > CAP) PROVE TrimRound(x) = x
  BY <1>0, <1>4 DEF TrimRound, CAP
<1>5. g \in [S -> S] BY <1>3, <1>4
<1>6. after = F(after)
  <2> HIDE DEF s, S, N
  <2>1. PICK f \in [0..N -> S] : f[0] = s /\ \A i \in 1..N : f[i] = g[f[i - 1]]
    <3>1. N \in Nat /\ s \in S /\ g \in [S -> S] BY <1>1, <1>2, <1>5
    <3> HIDE DEF g, F, after
    <3>2. PICK f : Iterates(f, S, s, g, N) BY <3>1, IterationExists
    <3> QED BY <3>2 DEF Iterates
  <2>2. ASSUME NEW i \in 0..N PROVE f[i] = F(f)[i]
    <3>1. CASE i = 0 BY <2>1, <3>1
    <3>2. CASE i # 0
      <4>1. i - 1 \in 0..N BY <1>1, <3>2
      <4>2. f[i - 1] \in S BY <2>1, <4>1
      <4>3. f[i] = g[f[i - 1]] BY <1>1, <2>1, <3>2
      <4> QED BY <3>2, <4>2, <4>3
    <3> QED BY <3>1, <3>2
  <2>3. f = F(f) BY <2>1, <2>2
  <2> HIDE DEF F
  <2> QED BY <2>3
<1>7. trim(b, len) = after[N] BY DEF trim
<1> HIDE DEF after
<1>8. after[0] = s /\ \A i \in 1..N : after[i] = TrimRound(after[i - 1])
  <2>1. \A i \in 0..N : after[i] = F(after)[i] BY <1>6
  <2> HIDE DEF s
  <2> QED BY <1>1, <2>1
<1> HIDE DEF g, F, S
<1> DEFINE Good(i) == /\ after[i] \in S
                      /\ len <= CAP => after[i] = s
                      /\ len > CAP => /\ after[i][2] >= CAP
                                      /\ after[i][2] = CAP \/ Len(after[i][1]) <= Len(b) - i
           T == {i \in 0..N : ~Good(i)}
<1>9. Good(0)
  <2>1. after[0][1] = b /\ after[0][2] = len BY <1>8
  <2> QED BY <1>0, <1>1, <1>2, <1>8, <2>1
<1>10. ASSUME NEW i \in 1..N, Good(i - 1) PROVE Good(i)
  <2> DEFINE x == after[i - 1]
  <2>1. x \in S /\ after[i] = TrimRound(x) BY <1>8, <1>10
  <2>2. CASE len <= CAP
    <3>1. x = s /\ ~(x[2] > CAP) BY <1>0, <1>1, <1>10, <2>2
    <3> QED BY <1>0, <1>1, <1>4, <2>1, <2>2, <3>1
  <2>3. CASE len > CAP
    <3>1. x[2] >= CAP /\ (x[2] = CAP \/ Len(x[1]) <= Len(b) - (i - 1)) BY <1>10, <2>3
    <3> HIDE DEF x
    <3>2. x[2] \in Nat /\ x[1] \in Seq(Seq(Nat)) BY <2>1 DEF S
    <3>3. CASE x[2] = CAP
      <4>1. after[i] = x BY <1>0, <1>4, <2>1, <3>3
      <4> QED BY <1>0, <1>1, <2>1, <2>3, <3>3, <4>1
    <3>4. CASE x[2] # CAP
      <4>1. x[2] > CAP BY <1>0, <3>1, <3>2, <3>4
      <4>2. /\ after[i] \in S /\ after[i][2] >= CAP
            /\ after[i][2] = CAP \/ Len(after[i][1]) = Len(x[1]) - 1
        BY <1>3, <2>1, <4>1
      <4>3. Len(x[1]) \in Nat /\ Len(x[1]) <= Len(b) - (i - 1) BY <3>1, <3>2, <3>4, LenProperties
      <4>4. Len(b) \in Nat /\ i \in Nat BY <1>1, LenProperties
      <4>5. Len(x[1]) - 1 <= Len(b) - i BY <4>3, <4>4
      <4>6. after[i][2] = CAP \/ Len(after[i][1]) <= Len(b) - i BY <4>2, <4>5
      <4>7. ~(len <= CAP) BY <1>0, <1>1, <2>3
      <4> QED BY <4>2, <4>6, <4>7
    <3> QED BY <3>3, <3>4
  <2> QED BY <1>0, <1>1, <2>2, <2>3
<1>11. Good(N)
  <2> SUFFICES ASSUME ~Good(N) PROVE FALSE OBVIOUS
  <2> HIDE DEF Good, N
  <2>1. N \in T /\ T \subseteq Nat BY <1>1
  <2>2. PICK m \in T : \A k \in T : m <= k
    <3> HIDE DEF T
    <3> QED BY <2>1, LeastNat
  <2>3. m \in 1..N /\ m - 1 \in 0..N BY <1>1, <1>9, <2>2
  <2>4. ~(m - 1 \in T) BY <2>2, <2>3
  <2>5. Good(m - 1) BY <2>3, <2>4
  <2> QED BY <1>10, <2>2, <2>3, <2>5
<1>12. after[N] \in S /\ after[N] = <<after[N][1], after[N][2]>> /\ Trimmable(after[N][1], after[N][2], last)
  BY <1>11 DEF S
<1>13. after[N][2] = IF len <= CAP THEN len ELSE CAP
  <2>1. CASE len <= CAP BY <1>11, <2>1
  <2>2. CASE ~(len <= CAP)
    <3>1. len > CAP BY <1>0, <1>1, <2>2
    <3>2. after[N][2] = CAP \/ Len(after[N][1]) <= Len(b) - N BY <1>11, <3>1
    <3>3. Len(b) - N = -1 BY <1>1, LenProperties
    <3>4. Len(after[N][1]) \in Nat BY <1>12, LenProperties DEF S
    <3> HIDE DEF N
    <3> QED BY <2>2, <3>2, <3>3, <3>4
  <2> QED BY <2>1, <2>2
<1> QED BY <1>7, <1>12, <1>13

(* The ends of chunks only grow.                                           *)
LEMMA EndsGrow ==
    ASSUME NEW b \in Seq(Seq(Nat)), NEW e, EndsAt(b, e), NEW n \in 0..Len(b)
    PROVE  e[0] \in Nat /\ e[n] \in Nat /\ e[0] <= e[n]
<1> DEFINE T == {m \in 0..Len(b) : ~(e[0] <= e[m])}
<1>1. Len(b) \in Nat BY LenProperties
<1>2. \A m \in 0..Len(b) : e[m] \in Nat BY DEF EndsAt
<1>3. T = {}
  <2> SUFFICES ASSUME T # {} PROVE FALSE OBVIOUS
  <2>1. T \subseteq Nat BY <1>1
  <2>2. PICK m \in T : \A k \in T : m <= k
    <3> HIDE DEF T
    <3> QED BY <2>1, LeastNat
  <2>3. m # 0 BY <1>1, <1>2, <2>2
  <2>4. m \in 1..Len(b) /\ m - 1 \in 0..Len(b) /\ m \in 0..Len(b) /\ 0 \in 0..Len(b) BY <1>1, <2>2, <2>3
  <2>5. e[m - 1] < e[m] BY <2>4 DEF EndsAt
  <2>6. ~(m - 1 \in T) BY <2>2, <2>4
  <2>7. e[0] <= e[m - 1] BY <2>4, <2>6
  <2>8. e[0] \in Nat /\ e[m] \in Nat /\ e[m - 1] \in Nat BY <1>2, <2>4
  <2> QED BY <2>2, <2>5, <2>7, <2>8
<1> QED BY <1>1, <1>2, <1>3

(* FlattenSeq puts the chunks together again.                              *)
LEMMA FlattenIsBytes ==
    ASSUME NEW b \in Seq(Seq(Nat)), NEW e, EndsAt(b, e)
    PROVE  FlattenSeq(b) = Bytes(e[0] + 1, e[Len(b)])
<1>1. Len(b) \in Nat BY LenProperties
<1>2. CASE b = <<>>
  <2>1. Len(b) = 0 /\ FlattenSeq(b) = <<>> BY <1>2 DEF FlattenSeq
  <2>2. 0 \in 0..Len(b) BY <1>1
  <2>3. e[0] \in Nat BY <2>2 DEF EndsAt
  <2>4. Bytes(e[0] + 1, e[0]) \in Seq(Nat) /\ Len(Bytes(e[0] + 1, e[0])) = e[0] - e[0]
    BY <2>3, BytesType
  <2>5. Bytes(e[0] + 1, e[0]) = <<>> BY <2>3, <2>4, EmptySeq
  <2> QED BY <2>1, <2>5
<1>3. CASE b # <<>>
  <2> DEFINE n == Len(b)
             F(h) == [i \in 1..n |-> IF i = 1 THEN b[i] ELSE h[i - 1] \o b[i]]
             flatten == CHOOSE h : h = F(h)
             w == [i \in 1..n |-> Bytes(e[0] + 1, e[i])]
  <2>1. n \in Nat \ {0} BY <1>1, <1>3, EmptySeq
  <2>2. ASSUME NEW i \in 1..n
        PROVE  e[0] \in Nat /\ e[i] \in Nat /\ e[i - 1] \in Nat /\ e[0] <= e[i - 1] /\ e[i - 1] < e[i]
               /\ b[i] = Bytes(e[i - 1] + 1, e[i])
    <3>1. i \in 0..Len(b) /\ i - 1 \in 0..Len(b) BY <2>1
    <3>2. e[i - 1] < e[i] /\ b[i] = Bytes(e[i - 1] + 1, e[i]) BY DEF EndsAt
    <3>3. e[0] \in Nat /\ e[i] \in Nat /\ e[i - 1] \in Nat /\ e[0] <= e[i - 1] BY <3>1, EndsGrow
    <3> QED BY <3>2, <3>3
  <2>3. ASSUME NEW i \in 1..n, i # 1
        PROVE  Bytes(e[0] + 1, e[i - 1]) \o b[i] = Bytes(e[0] + 1, e[i])
    <3> DEFINE p == e[0]  q == e[i - 1]  r == e[i]
    <3>1. p \in Nat /\ q \in Nat /\ r \in Nat /\ p <= q /\ q <= r /\ b[i] = Bytes(q + 1, r)
      BY <2>2
    <3> HIDE DEF p, q, r
    <3>2. Bytes(p + 1, q) \o Bytes(q + 1, r) = Bytes(p + 1, r) BY <3>1, BytesConcat
    <3> QED BY <3>1, <3>2 DEF p, q, r
  <2>4. b[1] = Bytes(e[0] + 1, e[1])
    <3>1. 1 \in 1..n BY <2>1
    <3>2. b[1] = Bytes(e[1 - 1] + 1, e[1]) BY <2>2, <3>1
    <3> QED BY <3>2
  <2>5. flatten = F(flatten)
    <3>1. ASSUME NEW i \in 1..n PROVE w[i] = F(w)[i]
      <4>1. CASE i = 1 BY <2>4, <4>1
      <4>2. CASE i # 1
        <5>1. i - 1 \in 1..n BY <2>1, <4>2
        <5>2. w[i - 1] = Bytes(e[0] + 1, e[i - 1]) BY <5>1
        <5> HIDE DEF n
        <5> QED BY <2>3, <4>2, <5>2
      <4> QED BY <4>1, <4>2
    <3>2. w = F(w) BY <3>1
    <3> HIDE DEF F, w
    <3> QED BY <3>2
  <2>6. FlattenSeq(b) = flatten[n] BY <2>1 DEF FlattenSeq
  <2> HIDE DEF flatten
  <2>7. \A i \in 1..n : flatten[i] = IF i = 1 THEN b[1] ELSE flatten[i - 1] \o b[i]
    <3>1. \A i \in 1..n : flatten[i] = F(flatten)[i] BY <2>5
    <3> QED BY <3>1
  <2> HIDE DEF F, w
  <2> DEFINE T == {i \in 1..n : flatten[i] # Bytes(e[0] + 1, e[i])}
  <2>8. T = {}
    <3> SUFFICES ASSUME T # {} PROVE FALSE OBVIOUS
    <3>1. T \subseteq Nat BY <1>1
    <3>2. PICK m \in T : \A k \in T : m <= k
      <4> HIDE DEF T
      <4> QED BY <3>1, LeastNat
    <3>3. m \in 1..n /\ m # 1
      <4>1. 1 \in 1..n BY <2>1
      <4>2. flatten[1] = b[1] BY <2>7, <4>1
      <4> QED BY <2>4, <3>2, <4>2
    <3>4. m - 1 \in 1..n /\ ~(m - 1 \in T) BY <2>1, <3>2, <3>3
    <3>5. flatten[m - 1] = Bytes(e[0] + 1, e[m - 1]) BY <3>4
    <3>6. flatten[m] = flatten[m - 1] \o b[m] BY <2>7, <3>3
    <3> QED BY <2>3, <3>2, <3>3, <3>5, <3>6
  <2>9. flatten[n] = Bytes(e[0] + 1, e[n]) BY <2>1, <2>8
  <2> QED BY <2>6, <2>9
<1> QED BY <1>2, <1>3

(* A chunk of the stream is appended.                                      *)
LEMMA AppendKeeps ==
    ASSUME BufferInv, NEW last \in Nat, total < last, append_terminal_bytes(total + 1, last)
    PROVE  BufferInv' /\ total' = last
<1> DEFINE bytes == Bytes(total + 1, last)  m == last - total  b == terminal_buffer
           len == terminal_buffer_len
<1>0. CAP \in Nat \ {0} BY BufferAssumption DEF CAP
<1>1. total \in Nat /\ len = (IF total <= CAP THEN total ELSE CAP) /\ len \in 0..total
      /\ Chunked(b, total - len, total)
  BY <1>0 DEF BufferInv
<1>2. m \in Nat \ {0} /\ total' = last /\ last + 1 - (total + 1) = m
  BY <1>1 DEF append_terminal_bytes
<1>3. bytes \in Seq(Nat) /\ Len(bytes) = m BY <1>1, <1>2, BytesType
<1>4. terminal_buffer' = appended(bytes)[1] /\ terminal_buffer_len' = appended(bytes)[2]
  BY DEF append_terminal_bytes, Bytes
<1> HIDE DEF bytes
<1>5. CASE m >= CAP
  <2> DEFINE p == last - CAP  cut == SubSeq(bytes, m - CAP + 1, m)  c == <<cut>>
             e == [i \in 0..1 |-> IF i = 0 THEN p ELSE last]
  <2>1. p \in Nat /\ p < last /\ p = total + (m - CAP) /\ m - CAP \in Nat /\ m - CAP < last - total
    BY <1>0, <1>1, <1>2, <1>5
  <2>2. appended(bytes) = <<c, CAP>> BY <1>3, <1>5 DEF appended, CAP
  <2>3. cut = Bytes(p + 1, last)
    <3> DEFINE d == m - CAP
    <3>1. d \in Nat /\ d < last - total BY <2>1
    <3> HIDE DEF d
    <3>2. SubSeq(Bytes(total + 1, last), d + 1, last - total) = Bytes(total + d + 1, last)
      BY <1>1, <3>1, BytesCut
    <3> QED BY <2>1, <3>2 DEF d, bytes
  <2>4. cut \in Seq(Nat)
    <3> HIDE DEF p, cut
    <3> QED BY <2>1, <2>3, BytesType
  <2> HIDE DEF cut
  <2>5. c \in Seq(Seq(Nat)) /\ Len(c) = 1 /\ c[1] = cut BY <2>4
  <2>6. e \in [0..1 -> Nat] /\ e[0] = p /\ e[1] = last BY <2>1
  <2> HIDE DEF c, e
  <2>7. EndsAt(c, e)
    <3>1. e \in [0..Len(c) -> Nat] BY <2>5, <2>6
    <3>2. ASSUME NEW i \in 1..Len(c) PROVE e[i - 1] < e[i] /\ c[i] = Bytes(e[i - 1] + 1, e[i])
      <4>1. i = 1 /\ i - 1 = 0 BY <2>5
      <4>2. e[i - 1] = p /\ e[i] = last /\ c[i] = cut BY <2>5, <2>6, <4>1
      <4> HIDE DEF p
      <4> QED BY <2>1, <2>3, <4>2
    <3> QED BY <3>1, <3>2 DEF EndsAt
  <2>8. Chunked(c, last - CAP, last) BY <2>5, <2>6, <2>7 DEF Chunked
  <2>9. CAP = (IF last <= CAP THEN last ELSE CAP) BY <1>0, <1>1, <1>2, <1>5
  <2>10. terminal_buffer' = c /\ terminal_buffer_len' = CAP BY <1>4, <2>2
  <2> QED BY <1>2, <2>8, <2>9, <2>10 DEF BufferInv, CAP
<1>6. CASE ~(m >= CAP)
  <2> DEFINE c == Append(b, bytes)  k == len + m
  <2>1. appended(bytes) = trim(c, k) BY <1>3, <1>6 DEF appended, CAP
  <2>2. PICK e : EndsAt(b, e) /\ e[0] = total - len /\ e[Len(b)] = total BY <1>1 DEF Chunked
  <2>3. b \in Seq(Seq(Nat)) /\ Len(b) \in Nat BY <1>1, LenProperties DEF Chunked
  <2>4. /\ c \in Seq(Seq(Nat)) /\ Len(c) = Len(b) + 1
        /\ \A i \in 1..Len(b) : c[i] = b[i] 
        /\ c[Len(b) + 1] = bytes
    BY <1>3, <2>3, AppendProperties
  <2> DEFINE h == [i \in 0..Len(b) + 1 |-> IF i <= Len(b) THEN e[i] ELSE last]
  <2> HIDE DEF c
  <2>5. EndsAt(c, h)
    <3>1. e \in [0..Len(b) -> Nat] BY <2>2 DEF EndsAt
    <3>2. h \in [0..Len(c) -> Nat] BY <2>3, <2>4, <3>1
    <3>3. (\A i \in 0..Len(b) : h[i] = e[i]) /\ h[Len(b) + 1] = last BY <2>3
    <3> HIDE DEF h
    <3>4. ASSUME NEW i \in 1..Len(c) PROVE h[i - 1] < h[i] /\ c[i] = Bytes(h[i - 1] + 1, h[i])
      <4>1. CASE i <= Len(b)
        <5>1. i \in 1..Len(b) /\ i \in 0..Len(b) /\ i - 1 \in 0..Len(b) BY <2>3, <2>4, <4>1
        <5>2. e[i - 1] < e[i] /\ b[i] = Bytes(e[i - 1] + 1, e[i]) BY <2>2, <5>1 DEF EndsAt
        <5> QED BY <2>4, <3>3, <5>1, <5>2
      <4>2. CASE ~(i <= Len(b))
        <5>1. i = Len(b) + 1 /\ i - 1 = Len(b) /\ Len(b) \in 0..Len(b) BY <2>3, <2>4, <4>2
        <5>2. h[i] = last /\ h[i - 1] = total /\ c[i] = bytes BY <2>2, <2>4, <3>3, <5>1
        <5> QED BY <5>2 DEF bytes
      <4> QED BY <4>1, <4>2
    <3> QED BY <3>2, <3>4 DEF EndsAt
  <2>6. h[0] = total - len /\ h[Len(c)] = last
    <3>1. 0 \in 0..Len(b) + 1 /\ 0 <= Len(b) /\ Len(b) + 1 \in 0..Len(b) + 1 /\ ~(Len(b) + 1 <= Len(b))
      BY <2>3
    <3>2. h[0] = e[0] /\ h[Len(b) + 1] = last BY <3>1
    <3> QED BY <2>2, <2>4, <3>2
  <2>7. k \in 0..last /\ last - k = total - len
    <3>1. total \in Nat /\ len \in 0..total /\ total < last BY <1>1
    <3> HIDE DEF len
    <3> QED BY <3>1
  <2> HIDE DEF h, k
  <2>8. Trimmable(c, k, last) BY <2>4, <2>5, <2>6, <2>7 DEF Trimmable, Chunked
  <2>9. PICK d, j : /\ trim(c, k) = <<d, j>> /\ Trimmable(d, j, last)
                    /\ j = IF k <= CAP THEN k ELSE CAP
    BY <2>8, TrimKeeps
  <2>10. terminal_buffer' = d /\ terminal_buffer_len' = j BY <1>4, <2>1, <2>9
  <2>11. j = IF last <= CAP THEN last ELSE CAP
    BY <1>0, <1>1, <1>2, <2>9 DEF k
  <2> QED BY <1>2, <2>9, <2>10, <2>11 DEF BufferInv, Trimmable
<1> QED BY <1>2, <1>5, <1>6

LEMMA BufferInvImplies ==
    ASSUME BufferInv
    PROVE  ReplayIsTail /\ CountIsExact
<1> DEFINE b == terminal_buffer  len == terminal_buffer_len  p == total - len
<1>0. CAP \in Nat \ {0} BY BufferAssumption DEF CAP
<1>1. total \in Nat /\ len = (IF total <= CAP THEN total ELSE CAP) /\ len \in 0..total
      /\ Chunked(b, p, total)
  BY <1>0 DEF BufferInv
<1>2. p \in Nat /\ p <= total /\ total - p = len BY <1>1
<1> HIDE DEF p
<1>3. PICK e : EndsAt(b, e) /\ e[0] = p /\ e[Len(b)] = total BY <1>1 DEF Chunked
<1>4. b \in Seq(Seq(Nat)) BY <1>1 DEF Chunked
<1>5. terminal_snapshot = Bytes(p + 1, total) BY <1>3, <1>4, FlattenIsBytes DEF terminal_snapshot
<1>6. Len(Bytes(p + 1, total)) = len BY <1>1, <1>2, BytesType
<1>7. ASSUME NEW i \in DOMAIN b PROVE b[i] # <<>>
  <2>1. Len(b) \in Nat /\ i \in 1..Len(b) BY <1>4, LenProperties
  <2>2. e[i - 1] < e[i] /\ b[i] = Bytes(e[i - 1] + 1, e[i]) BY <1>3, <2>1 DEF EndsAt
  <2>3. i - 1 \in 0..Len(b) /\ i \in 0..Len(b) BY <2>1
  <2>4. e[i - 1] \in Nat /\ e[i] \in Nat BY <1>3, <2>3 DEF EndsAt
  <2>5. Len(b[i]) = e[i] - e[i - 1] BY <2>2, <2>4, BytesType
  <2>6. Len(b[i]) # 0 BY <2>2, <2>4, <2>5
  <2> QED BY <2>6
<1>8. CountIsExact BY <1>5, <1>6, <1>7 DEF CountIsExact
<1>9. ReplayIsTail
  <2>1. Bytes(p + 1, total) = [i \in 1..len |-> total - len + i]
    BY <1>1, <1>2 DEF Bytes, p
  <2> QED BY <1>1, <1>5, <2>1 DEF ReplayIsTail, CAP
<1> QED BY <1>8, <1>9

---------------------------------------------------------------------------
(* The inductive invariant, by the place of the main thread.               *)
UserPaths == {<<"user">>, <<"bin", "user">>}
ShimPaths == {<<"runtime", "bin", "user">>, <<"bin", "runtime", "user">>}
Early == {"ensure", "enter", "spawn", "register"}
Late == {"waits", "join", "abort", "done"}

PhaseInv ==
    /\ pc \in Early \cup Late \cup {"passthrough"}
    /\ child \in {"none", "runs", "ended"} /\ stdin \in {"off", "reads", "ended"}
    /\ pump \in {"off", "reads", "sends", "ended", "failed"}
    /\ pc \in {"ensure", "enter"} =>
          env.path \in UserPaths /\ env.vars = {} /\ runtimeDir = FALSE
    /\ pc \in {"spawn", "register", "waits", "join", "abort"} => env.path \in ShimPaths
    /\ pc \in {"ensure", "enter", "spawn"} =>
          session = {} /\ child = "none" /\ console = "own" /\ watch = "off"
    /\ pc \in Early \cup {"passthrough"} => stdin = "off" /\ pump = "off"
    /\ pc \in {"abort", "done"} => PumpDone
    /\ pc = "passthrough" =>
          /\ session = {} /\ child # "runs" /\ console = "own" /\ watch = "off"
          /\ env.vars = {} /\ runtimeDir = FALSE
          /\ env.path \in UserPaths \cup {<<"runtime", "user">>}

(* The lines on their way: e[i] is the last byte sent with the first i.    *)
LineType == [kind : {"register", "stream", "abort"}, first : Nat, last : Nat]
Carries(q, e) ==
    /\ e \in [0..Len(q) -> Nat]
    /\ \A i \in 1..Len(q) :
         IF q[i].kind = "stream"
         THEN e[i - 1] < e[i] /\ q[i].first = e[i - 1] + 1 /\ q[i].last = e[i]
         ELSE e[i] = e[i - 1]

(* The last byte handed over for sending.                                  *)
Sent == IF pump = "sends" THEN chunk[1] - 1 ELSE piped

LinkInv ==
    /\ req \in Seq(LineType) /\ piped \in Nat /\ known \in {"no", "yes", "aborted"}
    /\ conn # "up" => req = <<>>
    /\ conn = "up" => stream
    /\ pc \in Early =>
          req = <<>> /\ known = "no" /\ total = 0 /\ piped = 0 /\ stream
    /\ pc = "ensure" => conn = "none"
    /\ pc = "passthrough" => conn = "none"
    /\ pump = "sends" =>
          chunk[1] \in Nat \ {0} /\ chunk[2] \in Nat /\ chunk[1] <= chunk[2] /\ chunk[2] = piped
    /\ \A i \in 1..Len(req) :
          /\ req[i].kind = "register" => i = 1 /\ known = "no"
          /\ req[i].kind = "abort" => i = Len(req) /\ pc = "done"
    /\ known = "no" /\ conn = "up" /\ pc \in Late => req # <<>> /\ req[1].kind = "register"
    /\ known = "aborted" => req = <<>> /\ pc = "done"
    /\ \E e : Carries(req, e) /\ e[0] = total /\ (conn = "up" /\ pc # "done" => e[Len(req)] = Sent)

LaunchIInv == PhaseInv /\ LinkInv /\ BufferInv

---------------------------------------------------------------------------
(* PATH with the directories of the shims, and what is left of it.         *)
LEMMA Paths ==
    /\ \A p \in UserPaths : ShimmedPath(p) \in ShimPaths
    /\ \A e : e.path \in ShimPaths =>
          /\ Restored(e).path \in UserPaths \cup {<<"runtime", "user">>}
          /\ Restored(e).vars = {}
<1>1. ShimmedPath(<<"user">>) = <<"bin", "runtime", "user">>
  <2> DEFINE p == <<"user">>
  <2>1. DOMAIN p = 1..1 /\ p[1] = "user" OBVIOUS
  <2> HIDE DEF p
  <2>2. "bin" \notin ToSet(p) BY <2>1 DEF ToSet
  <2>3. ShimmedPath(p) = <<"bin", "runtime">> \o p BY <2>2 DEF ShimmedPath
  <2> QED BY <2>3 DEF p
<1>2. ShimmedPath(<<"bin", "user">>) = <<"runtime", "bin", "user">>
  <2> DEFINE p == <<"bin", "user">>
  <2>1. 1 \in DOMAIN p /\ p[1] = "bin" OBVIOUS
  <2> HIDE DEF p
  <2>2. "bin" \in ToSet(p) BY <2>1 DEF ToSet
  <2>3. ShimmedPath(p) = <<"runtime">> \o p BY <2>2 DEF ShimmedPath
  <2> QED BY <2>3 DEF p
<1>3. ASSUME NEW e, e.path \in ShimPaths
      PROVE  /\ Restored(e).path \in UserPaths \cup {<<"runtime", "user">>}
             /\ Restored(e).vars = {}
  <2>1. CASE e.path = <<"runtime", "bin", "user">>
    <3>1. Head(e.path) = "runtime" /\ Tail(e.path) = <<"bin", "user">> BY <2>1
    <3> QED BY <3>1 DEF Restored, UserPaths
  <2>2. CASE e.path = <<"bin", "runtime", "user">>
    <3>1. Head(e.path) # "runtime" BY <2>2
    <3> QED BY <3>1 DEF Restored
  <2> QED BY <1>3, <2>1, <2>2 DEF ShimPaths
<1> QED BY <1>1, <1>2, <1>3 DEF UserPaths, ShimPaths

LEMMA PhaseInit == LaunchInit => PhaseInv
BY DEF LaunchInit, PhaseInv, PumpDone, UserPaths, Early, Late

LEMMA FailsPhase ==
    ASSUME pc \in {"spawn", "register"}, PhaseInv, LaunchFails({})
    PROVE  /\ pc' = "passthrough" /\ session' = {} /\ console' = "own" /\ watch' = "off"
           /\ env'.vars = {} /\ runtimeDir' = FALSE
           /\ env'.path \in UserPaths \cup {<<"runtime", "user">>}
BY Paths DEF PhaseInv, LaunchFails, RestoresConsole, LeavesEnv

LEMMA PhaseNext ==
    ASSUME PhaseInv, [LaunchNext]_launchVars
    PROVE  PhaseInv'
<1> USE DEF PhaseInv, PumpDone, Early, Late, scope, ends, pumps, link, sizes
<1>1. CASE Connects BY <1>1 DEF Connects
<1>2. CASE EntersEnv
  <2>1. CASE pc' = "spawn"
    <3>1. env'.path \in ShimPaths BY <1>2, <2>1, Paths DEF EntersEnv
    <3> QED BY <1>2, <2>1, <3>1 DEF EntersEnv
  <2>2. CASE pc' = "passthrough" BY <1>2, <2>2 DEF EntersEnv
  <2> QED BY <1>2, <2>1, <2>2 DEF EntersEnv
<1>3. CASE SpawnFails
  <2>1. PICK n \in DOMAIN SpawnSteps : LaunchFails(Opened(n) \ Closed(n)) BY <1>3 DEF SpawnFails
  <2>2. n \in 1..5 BY DEF SpawnSteps
  <2>3. Opened(n) \ Closed(n) = {}
    <3>1. CASE n = 1 BY <3>1 DEF Opened
    <3>2. CASE n = 2 BY <3>2 DEF Opened, Closed
    <3>3. CASE n = 3 BY <3>3 DEF Opened, Closed, Pipes
    <3>4. CASE n = 4 BY <3>4 DEF Opened, Closed, Pipes
    <3>5. CASE n = 5 BY <3>5 DEF Opened, Closed, Pipes
    <3> QED BY <2>2, <3>1, <3>2, <3>3, <3>4, <3>5
  <2>4. /\ pc' = "passthrough" /\ session' = {} /\ console' = "own" /\ watch' = "off"
        /\ env'.vars = {} /\ runtimeDir' = FALSE
        /\ env'.path \in UserPaths \cup {<<"runtime", "user">>}
    BY <1>3, <2>1, <2>3, FailsPhase DEF SpawnFails
  <2> QED BY <1>3, <2>4 DEF SpawnFails
<1>4. CASE Spawns BY <1>4 DEF Spawns
<1>5. CASE Registers
  <2>1. CASE pc' = "waits" BY <1>5, <2>1 DEF Registers, LaunchFails
  <2>2. CASE LaunchFails({})
    <3>1. /\ pc' = "passthrough" /\ session' = {} /\ console' = "own" /\ watch' = "off"
          /\ env'.vars = {} /\ runtimeDir' = FALSE
          /\ env'.path \in UserPaths \cup {<<"runtime", "user">>}
      BY <1>5, <2>2, FailsPhase DEF Registers
    <3> QED BY <1>5, <3>1 DEF Registers
  <2> QED BY <1>5, <2>1, <2>2 DEF Registers
<1>6. CASE ChildWaited BY <1>6 DEF ChildWaited
<1>7. CASE Joins BY <1>7 DEF Joins
<1>8. CASE Aborts BY <1>8 DEF Aborts
<1>9. CASE PumpReads BY <1>9 DEF PumpReads
<1>10. CASE PumpSends BY <1>10 DEF PumpSends
<1>11. CASE StdinEnds BY <1>11 DEF StdinEnds
<1>12. CASE Drains BY <1>12 DEF Drains
<1>13. CASE Resizes BY <1>13 DEF Resizes
<1>14. CASE DaemonHandles BY <1>14 DEF DaemonHandles
<1>15. CASE DaemonAnswers BY <1>15 DEF DaemonAnswers
<1>16. CASE DaemonEnds BY <1>16 DEF DaemonEnds
<1>17. CASE ChildWrites BY <1>17 DEF ChildWrites
<1>18. CASE ChildEnds BY <1>18 DEF ChildEnds
<1>19. CASE OthersEnd BY <1>19 DEF OthersEnd
<1>20. CASE HostCloses BY <1>20 DEF HostCloses
<1>21. CASE UserResizes BY <1>21 DEF UserResizes
<1>22. CASE UNCHANGED launchVars BY <1>22 DEF launchVars
<1> QED
  BY <1>1, <1>2, <1>3, <1>4, <1>5, <1>6, <1>7, <1>8, <1>9, <1>10, <1>11, <1>12, <1>13, <1>14,
     <1>15, <1>16, <1>17, <1>18, <1>19, <1>20, <1>21, <1>22 DEF LaunchNext, Main

---------------------------------------------------------------------------
(* A line joins the queue, the first line leaves it.                       *)
LEMMA CarriesAppend ==
    ASSUME NEW q \in Seq(LineType), NEW e, Carries(q, e), NEW line \in LineType, NEW m \in Nat,
           IF line.kind = "stream"
           THEN e[Len(q)] < m /\ line.first = e[Len(q)] + 1 /\ line.last = m
           ELSE m = e[Len(q)]
    PROVE  \E f : Carries(Append(q, line), f) /\ f[0] = e[0] /\ f[Len(Append(q, line))] = m
<1> DEFINE r == Append(q, line)  f == [i \in 0..Len(q) + 1 |-> IF i <= Len(q) THEN e[i] ELSE m]
<1>1. Len(q) \in Nat BY LenProperties
<1>2. /\ r \in Seq(LineType) /\ Len(r) = Len(q) + 1
      /\ \A i \in 1..Len(q) : r[i] = q[i]
      /\ r[Len(q) + 1] = line
  BY AppendProperties
<1>3. e \in [0..Len(q) -> Nat] BY DEF Carries
<1>4. f \in [0..Len(r) -> Nat] BY <1>1, <1>2, <1>3
<1>5. (\A i \in 0..Len(q) : f[i] = e[i]) /\ f[Len(q) + 1] = m BY <1>1
<1> HIDE DEF r, f
<1>6. ASSUME NEW i \in 1..Len(r)
      PROVE  IF r[i].kind = "stream"
             THEN f[i - 1] < f[i] /\ r[i].first = f[i - 1] + 1 /\ r[i].last = f[i]
             ELSE f[i] = f[i - 1]
  <2>1. CASE i <= Len(q)
    <3>1. i \in 1..Len(q) /\ i \in 0..Len(q) /\ i - 1 \in 0..Len(q) BY <1>1, <1>2, <2>1
    <3>2. r[i] = q[i] /\ f[i] = e[i] /\ f[i - 1] = e[i - 1] BY <1>2, <1>5, <3>1
    <3> QED BY <3>1, <3>2 DEF Carries
  <2>2. CASE ~(i <= Len(q))
    <3>1. i = Len(q) + 1 /\ i - 1 = Len(q) /\ Len(q) \in 0..Len(q) BY <1>1, <1>2, <2>2
    <3>2. r[i] = line /\ f[i] = m /\ f[i - 1] = e[Len(q)] BY <1>2, <1>5, <3>1
    <3> QED BY <3>2
  <2> QED BY <2>1, <2>2
<1>7. f[0] = e[0] /\ f[Len(r)] = m BY <1>1, <1>2, <1>5
<1> QED BY <1>4, <1>6, <1>7 DEF Carries, r

LEMMA CarriesTail ==
    ASSUME NEW q \in Seq(LineType), q # <<>>, NEW e, Carries(q, e)
    PROVE  /\ \E f : Carries(Tail(q), f) /\ f[0] = e[1] /\ f[Len(Tail(q))] = e[Len(q)]
           /\ e[0] \in Nat /\ e[1] \in Nat /\ Head(q) = q[1] /\ Len(q) >= 1
           /\ IF q[1].kind = "stream"
              THEN e[0] < e[1] /\ q[1].first = e[0] + 1 /\ q[1].last = e[1]
              ELSE e[1] = e[0]
<1> DEFINE r == Tail(q)  f == [i \in 0..Len(q) - 1 |-> e[i + 1]]
<1>1. Len(q) \in Nat /\ Len(q) >= 1 BY LenProperties, EmptySeq
<1>2. r \in Seq(LineType) /\ Len(r) = Len(q) - 1 /\ \A i \in 1..Len(r) : r[i] = q[i + 1]
  BY HeadTailProperties
<1>3. e \in [0..Len(q) -> Nat] BY DEF Carries
<1>4. f \in [0..Len(r) -> Nat] BY <1>1, <1>2, <1>3
<1>5. \A i \in 0..Len(r) : f[i] = e[i + 1] BY <1>1, <1>2
<1> HIDE DEF r, f
<1>6. ASSUME NEW i \in 1..Len(r)
      PROVE  IF r[i].kind = "stream"
             THEN f[i - 1] < f[i] /\ r[i].first = f[i - 1] + 1 /\ r[i].last = f[i]
             ELSE f[i] = f[i - 1]
  <2>1. i + 1 \in 1..Len(q) /\ i \in 0..Len(r) /\ i - 1 \in 0..Len(r) /\ i + 1 - 1 = i /\ i - 1 + 1 = i
    BY <1>1, <1>2
  <2>2. r[i] = q[i + 1] /\ f[i] = e[i + 1] /\ f[i - 1] = e[i] BY <1>2, <1>5, <2>1
  <2>3. IF q[i + 1].kind = "stream"
        THEN e[i] < e[i + 1] /\ q[i + 1].first = e[i] + 1 /\ q[i + 1].last = e[i + 1]
        ELSE e[i + 1] = e[i]
    BY <2>1 DEF Carries
  <2> QED BY <2>2, <2>3
<1>7. f[0] = e[1] /\ f[Len(r)] = e[Len(q)]
  <2>1. 0 \in 0..Len(r) /\ Len(r) \in 0..Len(r) /\ Len(r) + 1 = Len(q) BY <1>1, <1>2
  <2>2. f[0] = e[0 + 1] /\ f[Len(r)] = e[Len(r) + 1] BY <1>5, <2>1
  <2> QED BY <2>1, <2>2
<1>8. /\ e[0] \in Nat /\ e[1] \in Nat /\ Head(q) = q[1]
      /\ IF q[1].kind = "stream"
         THEN e[0] < e[1] /\ q[1].first = e[0] + 1 /\ q[1].last = e[1]
         ELSE e[1] = e[0]
  <2>1. 0 \in 0..Len(q) /\ 1 \in 0..Len(q) /\ 1 \in 1..Len(q) /\ 1 - 1 = 0 BY <1>1
  <2>2. IF q[1].kind = "stream"
        THEN e[1 - 1] < e[1] /\ q[1].first = e[1 - 1] + 1 /\ q[1].last = e[1]
        ELSE e[1] = e[1 - 1]
    BY <2>1 DEF Carries
  <2> QED BY <1>3, <2>1, <2>2
<1> QED BY <1>1, <1>4, <1>6, <1>7, <1>8 DEF Carries, r

LEMMA CarriesNothing ==
    ASSUME NEW m \in Nat
    PROVE  \E e : Carries(<<>>, e) /\ e[0] = m /\ e[Len(<<>>)] = m
<1> DEFINE e == [i \in 0..0 |-> m]  q == <<>>
<1>1. e \in [0..0 -> Nat] /\ e[0] = m OBVIOUS
<1>2. Len(q) = 0 OBVIOUS
<1> HIDE DEF e, q
<1>3. Carries(q, e) BY <1>1, <1>2 DEF Carries
<1> QED BY <1>1, <1>2, <1>3 DEF q

---------------------------------------------------------------------------
LEMMA LinkInit == LaunchInit => LinkInv /\ BufferInv
<1> SUFFICES ASSUME LaunchInit PROVE LinkInv /\ BufferInv OBVIOUS
<1>1. PICK e : Carries(<<>>, e) /\ e[0] = 0 /\ e[Len(<<>>)] = 0 BY CarriesNothing
<1>2. LinkInv BY <1>1 DEF LaunchInit, LinkInv, Early, Late, Sent, BufferInit
<1>3. BufferInv
  <2> DEFINE b == <<>>  e0 == [i \in 0..0 |-> 0]
  <2>1. b \in Seq(Seq(Nat)) /\ Len(b) = 0 /\ e0 \in [0..0 -> Nat] /\ e0[0] = 0 OBVIOUS
  <2>2. terminal_buffer = b /\ terminal_buffer_len = 0 /\ total = 0 BY DEF LaunchInit, BufferInit
  <2> HIDE DEF b, e0
  <2>3. EndsAt(b, e0) BY <2>1 DEF EndsAt
  <2>4. Chunked(b, 0, 0) BY <2>1, <2>3 DEF Chunked
  <2>5. CAP \in Nat BY BufferAssumption DEF CAP
  <2> QED BY <2>2, <2>4, <2>5 DEF BufferInv
<1> QED BY <1>2, <1>3

(* A step that sends and takes nothing.                                    *)
LEMMA LinkSame ==
    ASSUME LinkInv, UNCHANGED <<conn, req, known, total, piped, pump, chunk, stream>>,
           pc' \in Early => pc' = pc \/ (pc \in Early /\ pc' # "ensure"),
           pc' = "passthrough" => pc = "passthrough",
           pc' \in Late => pc \in Late,
           pc = "done" => pc' = "done"
    PROVE  LinkInv'
BY DEF LinkInv, Sent, Early, Late

LEMMA LinkNext ==
    ASSUME LaunchIInv, [LaunchNext]_launchVars
    PROVE  LinkInv' /\ BufferInv'
<1> USE DEF bufferVars
<1>0. PICK e : Carries(req, e) /\ e[0] = total /\ (conn = "up" /\ pc # "done" => e[Len(req)] = Sent)
  BY DEF LaunchIInv, LinkInv
<1>1. ASSUME UNCHANGED bufferVars PROVE BufferInv'
  BY <1>1 DEF LaunchIInv, BufferInv, Chunked, EndsAt
<1>2. CASE Connects
  <2>1. LinkInv' BY <1>0, <1>2 DEF LaunchIInv, PhaseInv, LinkInv, Connects, Early, Late, Sent, pumps
  <2> QED BY <1>1, <1>2, <2>1 DEF Connects
<1>3. CASE EntersEnv
  <2>1. LinkInv' BY <1>0, <1>3 DEF LaunchIInv, PhaseInv, LinkInv, EntersEnv, Early, Late, Sent, pumps
  <2> QED BY <1>1, <1>3, <2>1 DEF EntersEnv
<1>4. CASE SpawnFails
  <2>1. LinkInv' BY <1>0, <1>4 DEF LaunchIInv, PhaseInv, LinkInv, SpawnFails, LaunchFails, Early, Late, Sent, pumps
  <2> QED BY <1>1, <1>4, <2>1 DEF SpawnFails
<1>5. CASE Spawns
  <2>1. LinkInv' BY <1>5, LinkSame DEF LaunchIInv, Spawns, Early, Late, link, pumps
  <2> QED BY <1>1, <1>5, <2>1 DEF Spawns, link
<1>6. CASE Registers
  <2>1. UNCHANGED <<bufferVars, piped, chunk, stream, known>> BY <1>6 DEF Registers
  <2>2. CASE pc' = "waits"
    <3> DEFINE line == Line("register", <<1, 0>>)
    <3>1. /\ conn = "up" /\ conn' = "up" /\ req' = Append(req, line) /\ pump' = "reads" /\ pc = "register"
      BY <1>6, <2>2 DEF Registers, Sends, LaunchFails
    <3>2. line \in LineType /\ line.kind = "register" BY DEF Line, LineType
    <3> HIDE DEF line
    <3>3. req = <<>> /\ known = "no" /\ total = 0 /\ piped = 0 /\ stream
      BY <3>1 DEF LaunchIInv, LinkInv, Early
    <3>4. Sent = 0 /\ e[Len(req)] = 0 BY <1>0, <3>1, <3>3 DEF LaunchIInv, PhaseInv, Sent, Early
    <3>5. req \in Seq(LineType) BY DEF LaunchIInv, LinkInv
    <3>6. PICK f : Carries(Append(req, line), f) /\ f[0] = e[0] /\ f[Len(Append(req, line))] = 0
      BY <1>0, <3>2, <3>4, <3>5, CarriesAppend
    <3>7. Len(req') = 1 /\ req'[1] = line /\ req' \in Seq(LineType) /\ req' # <<>>
      BY <3>1, <3>2, <3>3, <3>5
    <3>8. Carries(req', f) /\ f[0] = total' /\ f[Len(req')] = Sent'
      BY <1>0, <2>1, <3>1, <3>3, <3>6 DEF Sent
    <3> QED BY <1>1, <2>1, <2>2, <3>1, <3>2, <3>3, <3>7, <3>8 DEF LinkInv, Early, Late
  <2>3. CASE pc' # "waits"
    <3>1. conn = "broken" /\ LaunchFails({}) /\ UNCHANGED <<req, pump>> BY <1>6, <2>3 DEF Registers
    <3>2. LinkInv'
      BY <1>0, <1>6, <2>1, <3>1 DEF Registers, LaunchIInv, PhaseInv, LinkInv, LaunchFails, Early, Late, Sent
    <3> QED BY <1>1, <2>1, <3>2
  <2> QED BY <2>2, <2>3
<1>7. CASE ChildWaited
  <2>1. LinkInv' BY <1>7, LinkSame DEF LaunchIInv, ChildWaited, Early, Late, link, pumps
  <2> QED BY <1>1, <1>7, <2>1 DEF ChildWaited, link
<1>8. CASE Joins
  <2>1. LinkInv' BY <1>8, LinkSame DEF LaunchIInv, Joins, Early, Late, link, pumps
  <2> QED BY <1>1, <1>8, <2>1 DEF Joins, link
<1>9. CASE Aborts
  <2>1. UNCHANGED <<bufferVars, piped, chunk, stream, known, conn, pump>> /\ pc = "abort" /\ pc' = "done"
    BY <1>9 DEF Aborts, pumps
  <2>2. CASE UNCHANGED req
    <3>1. LinkInv' BY <2>1, <2>2, LinkSame DEF LaunchIInv, Early, Late
    <3> QED BY <1>1, <2>1, <3>1
  <2>3. CASE Sends(Line("abort", <<1, 0>>))
    <3> DEFINE line == Line("abort", <<1, 0>>)
    <3>1. conn = "up" /\ req' = Append(req, line) BY <2>3 DEF Sends
    <3>2. line \in LineType /\ line.kind = "abort" BY DEF Line, LineType
    <3> HIDE DEF line
    <3>3. req \in Seq(LineType) /\ Len(req) \in Nat BY LenProperties DEF LaunchIInv, LinkInv
    <3>4. e[Len(req)] \in Nat BY <1>0, <3>3 DEF Carries
    <3>5. PICK f : Carries(Append(req, line), f) /\ f[0] = e[0]
      BY <1>0, <3>2, <3>3, <3>4, CarriesAppend
    <3>6. /\ Len(req') = Len(req) + 1 /\ req' \in Seq(LineType)
          /\ (\A i \in 1..Len(req) : req'[i] = req[i]) /\ req'[Len(req) + 1] = line
      BY <3>1, <3>2, <3>3, AppendProperties
    <3>7. ASSUME NEW i \in 1..Len(req')
          PROVE  /\ req'[i].kind = "register" => i = 1 /\ known = "no"
                 /\ req'[i].kind = "abort" => i = Len(req')
      <4>1. CASE i \in 1..Len(req)
        BY <2>1, <3>6, <4>1 DEF LaunchIInv, LinkInv
      <4>2. CASE i \notin 1..Len(req)
        <5>1. i = Len(req) + 1 BY <3>3, <3>6, <4>2
        <5> QED BY <3>2, <3>6, <5>1
      <4> QED BY <4>1, <4>2
    <3>8. known = "no" => req' # <<>> /\ req'[1].kind = "register"
      <4> SUFFICES ASSUME known = "no" PROVE req' # <<>> /\ req'[1].kind = "register" OBVIOUS
      <4>1. req # <<>> /\ req[1].kind = "register" BY <2>1, <3>1 DEF LaunchIInv, LinkInv, Late
      <4>2. 1 \in 1..Len(req) BY <3>3, <4>1, EmptySeq
      <4> QED BY <3>3, <3>6, <4>1, <4>2, EmptySeq
    <3>9. known # "aborted" BY <2>1 DEF LaunchIInv, LinkInv
    <3>10. Carries(req', f) /\ f[0] = total' BY <1>0, <2>1, <3>1, <3>5
    <3>11. LinkInv'
      BY <2>1, <3>1, <3>6, <3>7, <3>8, <3>9, <3>10
         DEF LaunchIInv, PhaseInv, LinkInv, Early, Late
    <3> QED BY <1>1, <2>1, <3>11
  <2> QED BY <1>9, <2>2, <2>3 DEF Aborts
<1>10. CASE PumpReads
  <2>1. UNCHANGED <<pc, bufferVars, stream, known, conn, req>> /\ pump = "reads"
    BY <1>10 DEF PumpReads, link
  <2>2. pc \notin Early \cup {"passthrough"} BY <2>1 DEF LaunchIInv, PhaseInv
  <2>3. pc # "done" BY <2>1 DEF LaunchIInv, PhaseInv, PumpDone
  <2>4. CASE pump' \in {"ended", "failed"} /\ UNCHANGED <<chunk, piped>>
    <3>1. Sent' = Sent BY <2>1, <2>4 DEF Sent
    <3>2. LinkInv' BY <1>0, <2>1, <2>2, <2>4, <3>1 DEF LaunchIInv, LinkInv
    <3> QED BY <1>1, <2>1, <3>2
  <2>5. CASE \E n \in 1..ReadMax :
               /\ piped + n <= written
               /\ chunk' = <<piped + 1, piped + n>> /\ piped' = piped + n
               /\ pump' = IF stream THEN "sends" ELSE "reads"
    <3>1. PICK n \in 1..ReadMax :
               /\ chunk' = <<piped + 1, piped + n>> /\ piped' = piped + n
               /\ pump' = IF stream THEN "sends" ELSE "reads"
      BY <2>5
    <3>2. piped \in Nat /\ n \in Nat \ {0} BY LaunchAssumption DEF LaunchIInv, LinkInv
    <3>3. chunk'[1] = piped + 1 /\ chunk'[2] = piped + n /\ piped' \in Nat BY <3>1, <3>2
    <3>4. stream => pump' = "sends" BY <3>1
    <3>5. conn = "up" => Sent' = Sent
      <4> SUFFICES ASSUME conn = "up" PROVE Sent' = Sent OBVIOUS
      <4>1. stream BY DEF LaunchIInv, LinkInv
      <4>2. Sent = piped /\ Sent' = piped BY <2>1, <3>2, <3>3, <3>4, <4>1 DEF Sent
      <4> QED BY <4>2
    <3>6. LinkInv'
      BY <1>0, <2>1, <2>2, <3>1, <3>2, <3>3, <3>5 DEF LaunchIInv, LinkInv
    <3> QED BY <1>1, <2>1, <3>6
  <2> QED BY <1>10, <2>4, <2>5 DEF PumpReads
<1>11. CASE PumpSends
  <2>1. /\ UNCHANGED <<pc, bufferVars, known, conn, piped, chunk>> /\ pump = "sends" /\ pump' = "reads"
    BY <1>11 DEF PumpSends
  <2>2. pc \notin Early \cup {"passthrough"} /\ pc \in Late /\ pc # "done"
    BY <2>1 DEF LaunchIInv, PhaseInv, PumpDone
  <2>3. CASE conn = "broken" /\ stream' = FALSE /\ UNCHANGED req
    <3>1. LinkInv' BY <1>0, <2>1, <2>2, <2>3 DEF LaunchIInv, LinkInv
    <3> QED BY <1>1, <2>1, <3>1
  <2>4. CASE Sends(Line("stream", chunk)) /\ UNCHANGED stream
    <3> DEFINE line == Line("stream", chunk)
    <3>1. conn = "up" /\ req' = Append(req, line) BY <2>4 DEF Sends
    <3>2. /\ chunk[1] \in Nat \ {0} /\ chunk[2] \in Nat /\ chunk[1] <= chunk[2] /\ chunk[2] = piped
          /\ e[Len(req)] = chunk[1] - 1
      BY <1>0, <2>1, <2>2, <3>1 DEF LaunchIInv, LinkInv, Sent
    <3>3. /\ line \in LineType /\ line.kind = "stream"
          /\ line.first = e[Len(req)] + 1 /\ line.last = piped /\ e[Len(req)] < piped
      BY <3>2 DEF Line, LineType
    <3> HIDE DEF line
    <3>4. req \in Seq(LineType) /\ Len(req) \in Nat /\ piped \in Nat
      BY LenProperties DEF LaunchIInv, LinkInv
    <3>5. PICK f : Carries(Append(req, line), f) /\ f[0] = e[0] /\ f[Len(Append(req, line))] = piped
      BY <1>0, <3>3, <3>4, CarriesAppend
    <3>6. /\ Len(req') = Len(req) + 1 /\ req' \in Seq(LineType)
          /\ (\A i \in 1..Len(req) : req'[i] = req[i]) /\ req'[Len(req) + 1] = line
      BY <3>1, <3>3, <3>4, AppendProperties
    <3>7. ASSUME NEW i \in 1..Len(req')
          PROVE  req'[i].kind # "abort" /\ (req'[i].kind = "register" => i = 1 /\ known = "no")
      <4>1. CASE i \in 1..Len(req)
        BY <2>2, <3>6, <4>1 DEF LaunchIInv, LinkInv
      <4>2. CASE i \notin 1..Len(req)
        <5>1. i = Len(req) + 1 BY <3>4, <3>6, <4>2
        <5> QED BY <3>3, <3>6, <5>1
      <4> QED BY <4>1, <4>2
    <3>8. known = "no" => req' # <<>> /\ req'[1].kind = "register"
      <4> SUFFICES ASSUME known = "no" PROVE req' # <<>> /\ req'[1].kind = "register" OBVIOUS
      <4>1. req # <<>> /\ req[1].kind = "register" BY <2>2, <3>1 DEF LaunchIInv, LinkInv
      <4>2. 1 \in 1..Len(req) BY <3>4, <4>1, EmptySeq
      <4> QED BY <3>4, <3>6, <4>1, <4>2, EmptySeq
    <3>9. known # "aborted" BY <2>2 DEF LaunchIInv, LinkInv
    <3>10. Carries(req', f) /\ f[0] = total' /\ f[Len(req')] = Sent'
      BY <1>0, <2>1, <3>1, <3>5 DEF Sent
    <3>11. LinkInv'
      BY <2>1, <2>2, <2>4, <3>1, <3>4, <3>6, <3>7, <3>8, <3>9, <3>10
         DEF LaunchIInv, LinkInv
    <3> QED BY <1>1, <2>1, <3>11
  <2> QED BY <1>11, <2>3, <2>4 DEF PumpSends
<1>12. CASE DaemonHandles
  <2>1. /\ UNCHANGED <<pc, conn, piped, pump, chunk, stream>>
        /\ conn = "up" /\ req # <<>> /\ req' = Tail(req)
    BY <1>12 DEF DaemonHandles, pumps
  <2>2. req \in Seq(LineType) /\ Len(req) \in Nat BY LenProperties DEF LaunchIInv, LinkInv
  <2>3. /\ e[0] \in Nat /\ e[1] \in Nat /\ Head(req) = req[1] /\ Len(req) >= 1
        /\ IF req[1].kind = "stream"
           THEN e[0] < e[1] /\ req[1].first = e[0] + 1 /\ req[1].last = e[1]
           ELSE e[1] = e[0]
    BY <1>0, <2>1, <2>2, CarriesTail
  <2>4. PICK f : Carries(Tail(req), f) /\ f[0] = e[1] /\ f[Len(Tail(req))] = e[Len(req)]
    BY <1>0, <2>1, <2>2, CarriesTail
  <2>5. req' \in Seq(LineType) /\ Len(req') = Len(req) - 1 /\ \A i \in 1..Len(req') : req'[i] = req[i + 1]
    BY <2>1, <2>2, HeadTailProperties
  <2>6. pc \in Late
    BY <2>1 DEF LaunchIInv, PhaseInv, LinkInv
  <2>7. req[1].kind \in {"register", "stream", "abort"}
    <3>1. 1 \in 1..Len(req) BY <2>2, <2>3
    <3>2. req[1] \in LineType BY <2>2, <3>1, ElementOfSeq
    <3> QED BY <3>2 DEF LineType
  <2>8. known \in {"no", "aborted"} => req[1].kind = "register"
    BY <2>1, <2>6 DEF LaunchIInv, LinkInv
  <2>9. known = "aborted" => FALSE BY <2>1 DEF LaunchIInv, LinkInv
  <2>10. total' = e[1] /\ BufferInv'
    <3>1. CASE req[1].kind = "stream"
      <4>1. known # "no" BY <2>8, <3>1
      <4>2. known \in {"no", "yes", "aborted"} BY DEF LaunchIInv, LinkInv
      <4>3. append_terminal_bytes(req[1].first, req[1].last)
        BY <1>12, <2>3, <2>9, <3>1, <4>1, <4>2 DEF DaemonHandles
      <4>4. append_terminal_bytes(total + 1, e[1]) /\ total < e[1]
        BY <1>0, <2>3, <3>1, <4>3
      <4> QED BY <2>3, <4>4, AppendKeeps DEF LaunchIInv
    <3>2. CASE req[1].kind # "stream"
      <4>1. UNCHANGED bufferVars BY <1>12, <2>3, <3>2 DEF DaemonHandles
      <4> QED BY <1>0, <1>1, <2>3, <3>2, <4>1
    <3> QED BY <3>1, <3>2
  <2>11. /\ req[1].kind = "register" => known' = "yes"
         /\ req[1].kind = "abort" => known' = "aborted" /\ Len(req') = 0 /\ pc = "done"
         /\ req[1].kind = "stream" => known' = known
    <3>1. known' = CASE req[1].kind = "register" -> "yes"
                     [] req[1].kind = "abort" -> "aborted" [] OTHER -> known
      BY <1>12, <2>3 DEF DaemonHandles
    <3>2. req[1].kind = "abort" => Len(req) = 1 /\ pc = "done"
      <4>1. 1 \in 1..Len(req) BY <2>2, <2>3
      <4> QED BY <4>1 DEF LaunchIInv, LinkInv
    <3> QED BY <2>5, <3>1, <3>2
  <2>12. known' # "no" /\ (known' = "aborted" => req' = <<>> /\ pc = "done") /\ known' \in {"no", "yes", "aborted"}
    BY <2>5, <2>7, <2>8, <2>9, <2>11, EmptySeq DEF LaunchIInv, LinkInv
  <2>13. ASSUME NEW i \in 1..Len(req')
         PROVE  req'[i].kind # "register" /\ (req'[i].kind = "abort" => i = Len(req') /\ pc = "done")
    <3>1. i + 1 \in 1..Len(req) /\ i + 1 # 1 BY <2>2, <2>5
    <3>2. /\ req[i + 1].kind = "register" => i + 1 = 1
          /\ req[i + 1].kind = "abort" => i + 1 = Len(req) /\ pc = "done"
      BY <3>1 DEF LaunchIInv, LinkInv
    <3> QED BY <2>2, <2>5, <3>1, <3>2
  <2>14. Carries(req', f) /\ f[0] = total' /\ (pc # "done" => f[Len(req')] = Sent')
    BY <1>0, <2>1, <2>4, <2>10 DEF Sent
  <2>15. LinkInv'
    BY <2>1, <2>5, <2>6, <2>12, <2>13, <2>14 DEF LaunchIInv, LinkInv, Early, Late
  <2> QED BY <2>10, <2>15
<1>13. CASE DaemonEnds
  <2>1. LinkInv'
    <3>1. PICK f : Carries(<<>>, f) /\ f[0] = total
      BY CarriesNothing DEF LaunchIInv, BufferInv
    <3> QED BY <1>13, <3>1 DEF DaemonEnds, LaunchIInv, LinkInv, PhaseInv, Early, Late, pumps
  <2> QED BY <1>1, <1>13, <2>1 DEF DaemonEnds
<1>14. ASSUME UNCHANGED <<pc, conn, req, known, bufferVars, piped, pump, chunk, stream>>
       PROVE  LinkInv' /\ BufferInv'
  BY <1>1, <1>14, LinkSame DEF LaunchIInv
<1>15. CASE StdinEnds BY <1>14, <1>15 DEF StdinEnds, link
<1>16. CASE Drains BY <1>14, <1>16 DEF Drains, pumps
<1>17. CASE Resizes BY <1>14, <1>17 DEF Resizes, link, pumps
<1>18. CASE DaemonAnswers BY <1>14, <1>18 DEF DaemonAnswers, pumps
<1>19. CASE ChildWrites BY <1>14, <1>19 DEF ChildWrites, link, pumps
<1>20. CASE ChildEnds BY <1>14, <1>20 DEF ChildEnds, link, pumps
<1>21. CASE OthersEnd BY <1>14, <1>21 DEF OthersEnd, link, pumps
<1>22. CASE HostCloses BY <1>14, <1>22 DEF HostCloses, link, pumps
<1>23. CASE UserResizes BY <1>14, <1>23 DEF UserResizes, link, pumps
<1>24. CASE UNCHANGED launchVars BY <1>14, <1>24 DEF launchVars, link, pumps
<1> QED
  BY <1>2, <1>3, <1>4, <1>5, <1>6, <1>7, <1>8, <1>9, <1>10, <1>11, <1>12, <1>13,
     <1>15, <1>16, <1>17, <1>18, <1>19, <1>20, <1>21, <1>22, <1>23, <1>24 DEF LaunchNext, Main

---------------------------------------------------------------------------
LEMMA LaunchIInvInit == LaunchInit => LaunchIInv
BY PhaseInit, LinkInit DEF LaunchIInv

LEMMA LaunchIInvNext == LaunchIInv /\ [LaunchNext]_launchVars => LaunchIInv'
BY PhaseNext, LinkNext DEF LaunchIInv

(* The inductive invariant holds: what is between the command, the pump,   *)
(* the connection and the daemon's buffer is accounted for byte by byte.   *)
THEOREM LaunchIInvHolds == LaunchSpec => []LaunchIInv
<1>1. LaunchInit => LaunchIInv BY LaunchIInvInit
<1>2. LaunchIInv /\ [LaunchNext]_launchVars => LaunchIInv' BY LaunchIInvNext
<1> QED BY <1>1, <1>2, PTL DEF LaunchSpec

LEMMA LaunchIInvImplies ==
    LaunchIInv => FallbackIsClean /\ AbortIsLast /\ ReplayIsTail /\ CountIsExact
<1> SUFFICES ASSUME LaunchIInv
             PROVE  FallbackIsClean /\ AbortIsLast /\ ReplayIsTail /\ CountIsExact
    OBVIOUS
<1>1. FallbackIsClean
  <2> SUFFICES ASSUME pc = "passthrough" PROVE FallbackIsClean BY DEF FallbackIsClean
  <2>1. /\ session = {} /\ child # "runs" /\ console = "own" /\ watch = "off" /\ stdin = "off"
        /\ env.vars = {} /\ runtimeDir = FALSE
        /\ env.path \in UserPaths \cup {<<"runtime", "user">>}
    BY DEF LaunchIInv, PhaseInv
  <2>2. <<"runtime", "user">> = <<"runtime">> \o <<"user">> OBVIOUS
  <2>3. \E path \in {<<"user">>, <<"bin", "user">>} :
           env.path = path \/ (~runtimeDir /\ env.path = <<"runtime">> \o path)
    BY <2>1, <2>2 DEF UserPaths
  <2> QED BY <2>1, <2>3 DEF FallbackIsClean
<1>2. AbortIsLast
  <2>1. pc = "done" => PumpDone BY DEF LaunchIInv, PhaseInv
  <2>2. req \in Seq(LineType) BY DEF LaunchIInv, LinkInv
  <2>3. DOMAIN req = 1..Len(req) BY <2>2, LenProperties
  <2>4. \A i \in DOMAIN req : req[i].kind = "abort" => i = Len(req) /\ PumpDone
    BY <2>1, <2>3 DEF LaunchIInv, LinkInv
  <2>5. known = "aborted" => req = <<>> /\ PumpDone BY <2>1 DEF LaunchIInv, LinkInv
  <2> QED BY <2>4, <2>5 DEF AbortIsLast, PumpDone
<1>3. ReplayIsTail /\ CountIsExact BY BufferInvImplies DEF LaunchIInv
<1> QED BY <1>1, <1>2, <1>3

(* A failed launch leaves the terminal as it was: each step that can fail  *)
(* finds closed what it opened, and PATH finds what it found before.       *)
THEOREM FallbackIsCleanHolds == LaunchSpec => []FallbackIsClean
<1>1. LaunchIInv => FallbackIsClean BY LaunchIInvImplies
<1> QED BY <1>1, LaunchIInvHolds, PTL

(* The abort is the last line the daemon gets: it is sent by the thread    *)
(* that has joined the pump, and nothing is behind it in the queue.        *)
THEOREM AbortIsLastHolds == LaunchSpec => []AbortIsLast
<1>1. LaunchIInv => AbortIsLast BY LaunchIInvImplies
<1> QED BY <1>1, LaunchIInvHolds, PTL

(* The replay is the end of the stream: for every limit, however the       *)
(* output was cut into chunks by the reads of the pump.                    *)
THEOREM ReplayIsTailHolds == LaunchSpec => []ReplayIsTail
<1>1. LaunchIInv => ReplayIsTail BY LaunchIInvImplies
<1> QED BY <1>1, LaunchIInvHolds, PTL

(* The byte count is that of the chunks, and no chunk is empty.            *)
THEOREM CountIsExactHolds == LaunchSpec => []CountIsExact
<1>1. LaunchIInv => CountIsExact BY LaunchIInvImplies
<1> QED BY <1>1, LaunchIInvHolds, PTL

=============================================================================
