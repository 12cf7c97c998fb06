------------------------ MODULE AgentDiscoveryProofs ------------------------
(***************************************************************************)
(* Proofs about AgentDiscovery, the passive discovery poller: for any      *)
(* transcripts, agents, lines and titles, whatever is written, torn, lost  *)
(* or emptied between its steps.                                           *)
(***************************************************************************)
EXTENDS AgentDiscovery, FiniteSetTheorems, SequenceTheorems, WellFoundedInduction, TLAPS

---------------------------------------------------------------------------
(* A set of naturals that is not empty has a least element.                *)
LEMMA LeastNat ==
    ASSUME NEW T, T \subseteq Nat, T # {}
    PROVE  \E x \in T : \A y \in T : x <= y
<1>1. PICK x \in T : \A y \in T : ~(<<y, x>> \in OpToRel(<, Nat))
  BY WFMin, NatLessThanWellFounded
<1>2. \A y \in T : ~(y < x)
  BY <1>1 DEF OpToRel
<1> QED BY <1>2

LEMMA MaxIs ==
    ASSUME NEW n \in Nat, NEW T \in SUBSET (1..n), T # {}
    PROVE  Max(T) \in T /\ \A y \in T : y <= Max(T)
<1> DEFINE U == {m \in 0..n : n - m \in T}
<1>1. PICK x : x \in T BY T # {}
<1>2. n - x \in U /\ U \subseteq Nat BY <1>1
<1>3. PICK m \in U : \A k \in U : m <= k
  <2> HIDE DEF U
  <2> QED BY <1>2, LeastNat
<1>4. n - m \in T /\ m \in 0..n BY <1>3
<1>5. ASSUME NEW y \in T PROVE n - m >= y
  <2>1. n - y \in U /\ y \in 1..n /\ n - y \in Nat BY DEF U
  <2>2. m <= n - y BY <1>3, <2>1
  <2> QED BY <1>4, <2>1, <2>2
<1>6. \E z \in T : \A y \in T : z >= y BY <1>4, <1>5
<1>7. Max(T) \in T /\ \A y \in T : Max(T) >= y BY <1>6 DEF Max
<1> QED BY <1>7

(* f[i] is what i applications of g make of s.                             *)
Iterates(f, S, s, g, n) ==
    f \in [0..n -> S] /\ f[0] = s /\ \A i \in 1..n : f[i] = g[<<i, f[i - 1]>>]

LEMMA IterationExists ==
    ASSUME NEW S, NEW s \in S, NEW n \in Nat, NEW g \in [(1..n) \X S -> S]
    PROVE  \E f : Iterates(f, S, s, g, n)
<1> DEFINE Has(m) == \E f \in [0..m -> S] :
                        /\ f[0] = s
                        /\ \A i \in 1..m : f[i] = g[<<i, f[i - 1]>>]
           T == {m \in 0..n : ~Has(m)}
<1>1. Has(0)
  <2> DEFINE f == [i \in 0..0 |-> s]
  <2>1. f \in [0..0 -> S] /\ f[0] = s /\ \A i \in 1..0 : f[i] = g[<<i, f[i - 1]>>] OBVIOUS
  <2> HIDE DEF f
  <2> QED BY <2>1
<1>2. ASSUME NEW m \in Nat, m < n, Has(m) PROVE Has(m + 1)
  <2>1. PICK f \in [0..m -> S] : f[0] = s /\ \A i \in 1..m : f[i] = g[<<i, f[i - 1]>>] BY <1>2
  <2> DEFINE x == g[<<m + 1, f[m]>>]  h == [i \in 0..m + 1 |-> IF i <= m THEN f[i] ELSE x]
  <2>2. x \in S
    <3>1. m + 1 \in 1..n /\ f[m] \in S BY <1>2, <2>1
    <3>2. <<m + 1, f[m]>> \in (1..n) \X S BY <3>1
    <3> QED BY <3>2
  <2> HIDE DEF x
  <2>3. h \in [0..m + 1 -> S] BY <2>2
  <2>4. (\A i \in 0..m : h[i] = f[i]) /\ h[m + 1] = x BY <1>2
  <2> HIDE DEF h
  <2>5. ASSUME NEW i \in 1..m + 1 PROVE h[i] = g[<<i, h[i - 1]>>]
    <3>1. CASE i <= m
      <4>1. i \in 1..m /\ i \in 0..m /\ i - 1 \in 0..m BY <3>1
      <4>2. h[i] = f[i] /\ h[i - 1] = f[i - 1] BY <2>4, <4>1
      <4>3. f[i] = g[<<i, f[i - 1]>>] BY <2>1, <4>1
      <4> QED BY <4>2, <4>3
    <3>2. CASE i = m + 1
      <4>1. i - 1 = m /\ m \in 0..m BY <1>2, <3>2
      <4>2. h[i] = x /\ h[i - 1] = f[m] BY <2>4, <3>2, <4>1
      <4> QED BY <3>2, <4>2 DEF x
    <3> QED BY <3>1, <3>2
  <2>6. h[0] = s BY <2>1, <2>4
  <2> QED BY <2>3, <2>5, <2>6
<1>3. Has(n)
  <2> SUFFICES ASSUME ~Has(n) PROVE FALSE OBVIOUS
  <2> HIDE DEF Has
  <2>1. n \in T /\ T \subseteq Nat OBVIOUS
  <2>2. PICK m \in T : \A k \in T : m <= k
    <3> HIDE DEF T
    <3> QED BY <2>1, LeastNat
  <2>3. m # 0 BY <1>1, <2>2
  <2>4. m - 1 \in 0..n /\ m - 1 < n /\ m - 1 \in Nat /\ ~(m - 1 \in T) BY <2>2, <2>3
  <2>5. Has(m - 1) BY <2>4
  <2>6. Has(m - 1 + 1) BY <1>2, <2>4, <2>5
  <2> QED BY <2>2, <2>6
<1> QED BY <1>3 DEF Iterates

---------------------------------------------------------------------------
(* The positions of s \o t: those of s, and those of t after them.         *)
LEMMA ConcatPositions ==
    ASSUME NEW S, NEW s \in Seq(S), NEW t \in Seq(S)
    PROVE  /\ s \o t \in Seq(S) /\ Len(s \o t) = Len(s) + Len(t)
           /\ Len(s) \in Nat /\ Len(t) \in Nat
           /\ DOMAIN (s \o t) = 1..(Len(s) + Len(t))
           /\ \A k \in 1..Len(s) : (s \o t)[k] = s[k]
           /\ \A k \in 1..Len(t) : (s \o t)[Len(s) + k] = t[k]
           /\ \A k \in 1..(Len(s) + Len(t)) :
                 k \in 1..Len(s) \/ \E j \in 1..Len(t) : k = Len(s) + j
<1>1. Len(s) \in Nat /\ Len(t) \in Nat BY LenProperties
<1> DEFINE u == s \o t
<1>2. /\ u \in Seq(S) /\ Len(u) = Len(s) + Len(t)
      /\ \A i \in 1 .. Len(s) + Len(t) : u[i] = IF i <= Len(s) THEN s[i] ELSE t[i - Len(s)]
  BY ConcatProperties
<1> HIDE DEF u
<1>3. DOMAIN u = 1..(Len(s) + Len(t)) BY <1>2, LenProperties
<1>4. \A k \in 1..Len(s) : u[k] = s[k] BY <1>1, <1>2
<1>5. ASSUME NEW k \in 1..Len(t) PROVE u[Len(s) + k] = t[k]
  <2>1. Len(s) + k \in 1..(Len(s) + Len(t)) /\ ~(Len(s) + k <= Len(s)) /\ Len(s) + k - Len(s) = k
    BY <1>1
  <2> QED BY <1>2, <2>1
<1>6. ASSUME NEW k \in 1..(Len(s) + Len(t)), k \notin 1..Len(s)
      PROVE  \E j \in 1..Len(t) : k = Len(s) + j
  <2>1. k - Len(s) \in 1..Len(t) /\ k = Len(s) + (k - Len(s)) BY <1>1, <1>6
  <2> QED BY <2>1
<1> QED BY <1>1, <1>2, <1>3, <1>4, <1>5, <1>6 DEF u

---------------------------------------------------------------------------
(* Which sessions have agents.  The live agents are finitely many.         *)
LEMMA FilesFinite == IsFiniteSet(Files)
<1> DEFINE n == Len(Transcripts)
<1>1. Transcripts \in Seq(Files) BY DiscoveryAssumption
<1>2. n \in Nat /\ Transcripts \in [1..n -> Files] /\ DOMAIN Transcripts = 1..n
  BY <1>1, LenProperties
<1>3. \A f \in Files : \E i \in 1..n : Transcripts[i] = f BY <1>2 DEF Files, ToSet
<1>4. Transcripts \in Surjection(1..n, Files) BY <1>2, <1>3 DEF Surjection
<1>5. IsFiniteSet(1..n) BY <1>2, FS_Interval
<1> QED BY <1>4, <1>5, FS_Surjection

LEMMA KeysFinite == IsFiniteSet(Keys)
<1> DEFINE S == {Key(f) : f \in Files}  k == [f \in Files |-> Key(f)]
<1>1. k \in Surjection(Files, S) BY DEF Surjection
<1>2. IsFiniteSet(S) BY <1>1, FilesFinite, FS_Surjection
<1>3. Keys \in SUBSET S BY DEF Keys, Candidates
<1> HIDE DEF S
<1> QED BY <1>2, <1>3, FS_Subset

LEMMA EvidenceFinite ==
    ASSUME NEW alive \in Evidence
    PROVE  IsFiniteSet(alive)
<1>1. PICK ps \in SUBSET Processes, titles \in SUBSET Titles :
              alive \in {ps \cup e : e \in TitleEvidence(titles)}
  BY DEF Evidence
<1>2. PICK e \in TitleEvidence(titles) : alive = ps \cup e BY <1>1
<1> DEFINE shown == {t \in titles : ~t.shell}
           named == {t \in shown : BestKeys(t) # {}}
           generic == UNION {Latest(k, Cardinality({t \in shown \ named : t.kind = k})) : k \in Kinds}
           P == {q \in [named -> Keys] : \A t \in named : q[t] \in BestKeys(t)}
<1>3. TitleEvidence(titles) = {generic \cup {p[t] : t \in named} : p \in P}
  BY DEF TitleEvidence
<1>4. generic \subseteq Keys
  <2>1. \A k, n : Latest(k, n) \subseteq Keys BY DEF Latest, Keys
  <2> QED BY <2>1
<1> HIDE DEF generic, named
<1>5. PICK p \in P : e = generic \cup {p[t] : t \in named} BY <1>2, <1>3
<1>6. e \in SUBSET Keys BY <1>4, <1>5
<1>7. IsFiniteSet(e) BY <1>6, KeysFinite, FS_Subset
<1>8. IsFiniteSet(ps) BY DiscoveryAssumption, FS_Subset
<1> QED BY <1>2, <1>7, <1>8, FS_Union

(* A slot is removed, the others stay.                                     *)
LEMMA SwapRemove ==
    ASSUME NEW S, NEW s \in Seq(S), NEW i \in 1..Len(s)
    PROVE  /\ swap_remove(s, i) \in Seq(S) /\ Len(swap_remove(s, i)) = Len(s) - 1
           /\ \A j \in 1..Len(s) - 1 :
                 swap_remove(s, i)[j] = IF j = i THEN s[Len(s)] ELSE s[j]
<1>1. Len(s) \in Nat /\ Len(s) >= 1 /\ \A j \in 1..Len(s) : s[j] \in S
  BY LenProperties, ElementOfSeq
<1> DEFINE t == Front(s)
<1>2. t \in Seq(S) /\ Len(t) = Len(s) - 1 /\ \A j \in 1..Len(s) - 1 : t[j] = s[j]
  <2> DEFINE m == Len(s) - 1
  <2>1. m \in Nat /\ \A j \in 1..m : s[j] \in S BY <1>1
  <2> HIDE DEF m
  <2>2. SubSeq(s, 1, m) \in Seq(S) /\ Len(SubSeq(s, 1, m)) = (IF 1 <= m THEN m - 1 + 1 ELSE 0)
        /\ \A j \in 1 .. m - 1 + 1 : SubSeq(s, 1, m)[j] = s[1 + j - 1]
    BY <2>1, SubSeqProperties
  <2>3. Len(SubSeq(s, 1, m)) = m BY <2>1, <2>2
  <2>4. \A j \in 1..m : SubSeq(s, 1, m)[j] = s[j] BY <2>1, <2>2
  <2>5. t = SubSeq(s, 1, m) BY DEF Front, m
  <2> QED BY <2>2, <2>3, <2>4, <2>5 DEF m
<1> HIDE DEF t
<1>3. CASE i = Len(s)
  <2>1. swap_remove(s, i) = t BY <1>3 DEF swap_remove, t
  <2> QED BY <1>1, <1>2, <1>3, <2>1
<1>4. CASE i # Len(s)
  <2> DEFINE x == s[Len(s)]  r == [t EXCEPT ![i] = x]
  <2>1. swap_remove(s, i) = r BY <1>4 DEF swap_remove, t, Last
  <2>2. i \in 1..Len(t) /\ x \in S BY <1>1, <1>2, <1>4
  <2> HIDE DEF x
  <2>3. r \in Seq(S) /\ Len(r) = Len(t) /\ \A j \in 1..Len(t) : r[j] = IF j = i THEN x ELSE t[j]
    BY <1>2, <2>2, ExceptSeq
  <2> HIDE DEF r
  <2> QED BY <1>2, <2>1, <2>3 DEF x
<1> QED BY <1>3, <1>4

(* The slots taken: an agent of its own for each session.                  *)
Distinct(s) == \A i, j \in 1..Len(s) : s[i] = s[j] => i = j

Owned(alive, acc) ==
    /\ acc.slots \in Seq(alive) /\ Distinct(acc.slots)
    /\ acc.out \subseteq Files
    /\ \E m \in [acc.out -> alive] :
          /\ \A f, g \in acc.out : m[f] = m[g] => f = g
          /\ \A f \in acc.out : Matches(f, m[f]) /\ \A j \in 1..Len(acc.slots) : acc.slots[j] # m[f]

LEMMA TakeSlotOwned ==
    ASSUME NEW alive, NEW s \in Seq(alive), NEW out \in SUBSET Files, NEW f \in Files,
           Owned(alive, [slots |-> s, out |-> out])
    PROVE  /\ TakeSlot([slots |-> s, out |-> out], f) \in [slots : Seq(alive), out : SUBSET Files]
           /\ Owned(alive, TakeSlot([slots |-> s, out |-> out], f))
<1> DEFINE acc == [slots |-> s, out |-> out]
           fit == {i \in 1..Len(s) : Matches(f, s[i])}
           pos == CHOOSE i \in fit : \A j \in fit : i <= j
           r == swap_remove(s, pos)
           res == [slots |-> r, out |-> out \cup {f}]
<1>1. Len(s) \in Nat /\ DOMAIN s = 1..Len(s) BY LenProperties
<1>2. \A L \in Nat : \A j \in 1..L - 1 : j \in 1..L /\ L \in 1..L /\ j # L OBVIOUS
<1>3. \A j \in 1..Len(s) - 1 : j \in 1..Len(s) /\ Len(s) \in 1..Len(s) /\ j # Len(s)
  BY <1>1, <1>2
<1>4. CASE fit = {}
  <2>1. TakeSlot(acc, f) = acc BY <1>1, <1>4 DEF TakeSlot
  <2> QED BY <2>1
<1>5. CASE fit # {}
  <2>1. TakeSlot(acc, f) = res BY <1>1, <1>5 DEF TakeSlot
  <2>2. pos \in fit
    <3>1. fit \subseteq Nat BY <1>1
    <3> HIDE DEF fit
    <3>2. \E i \in fit : \A j \in fit : i <= j BY <1>5, <3>1, LeastNat
    <3> QED BY <3>2
  <2>3. pos \in 1..Len(s) /\ Matches(f, s[pos]) BY <2>2
  <2> HIDE DEF pos, fit
  <2>4. /\ r \in Seq(alive) /\ Len(r) = Len(s) - 1
        /\ \A j \in 1..Len(s) - 1 : r[j] = IF j = pos THEN s[Len(s)] ELSE s[j]
    BY <2>3, SwapRemove
  <2> HIDE DEF r
  <2>5. Distinct(s) BY DEF Owned
  <2> DEFINE from(j) == IF j = pos THEN Len(s) ELSE j
  <2>6. ASSUME NEW j \in 1..Len(r)
        PROVE  from(j) \in 1..Len(s) /\ from(j) # pos /\ r[j] = s[from(j)]
    <3>0. j \in 1..Len(s) - 1 BY <2>4
    <3>1. j \in 1..Len(s) /\ Len(s) \in 1..Len(s) /\ j # Len(s) BY <1>3, <3>0
    <3>2. CASE j = pos BY <2>4, <3>0, <3>1, <3>2
    <3>3. CASE j # pos BY <2>4, <3>0, <3>1, <3>3
    <3> QED BY <3>2, <3>3
  <2>7. ASSUME NEW j \in 1..Len(r), NEW k \in 1..Len(r), from(j) = from(k) PROVE j = k
    <3>0. j \in 1..Len(s) - 1 /\ k \in 1..Len(s) - 1 BY <2>4
    <3>1. j # Len(s) /\ k # Len(s) BY <1>3, <3>0
    <3> QED BY <2>7, <3>1
  <2> HIDE DEF from
  <2>8. Distinct(r) BY <2>5, <2>6, <2>7 DEF Distinct
  <2>9. \A j \in 1..Len(r) : r[j] # s[pos] BY <2>3, <2>5, <2>6 DEF Distinct
  <2>10. PICK m \in [out -> alive] :
            /\ \A g, h \in out : m[g] = m[h] => g = h
            /\ \A g \in out : Matches(g, m[g]) /\ \A j \in 1..Len(s) : s[j] # m[g]
    BY DEF Owned
  <2>11. s[pos] \in alive BY <2>3, ElementOfSeq
  <2> DEFINE n == [g \in out \cup {f} |-> IF g = f THEN s[pos] ELSE m[g]]
  <2>12. n \in [out \cup {f} -> alive] BY <2>10, <2>11
  <2>13. ASSUME NEW g \in out \cup {f}, NEW h \in out \cup {f}, n[g] = n[h] PROVE g = h
    <3>1. \A x \in out : m[x] # s[pos] BY <2>3, <2>10
    <3> QED BY <2>10, <2>13, <3>1
  <2>14. ASSUME NEW g \in out \cup {f}
         PROVE  Matches(g, n[g]) /\ \A j \in 1..Len(r) : r[j] # n[g]
    <3>1. CASE g = f
      <4>1. n[g] = s[pos] BY <3>1
      <4> HIDE DEF n
      <4> QED BY <2>3, <2>9, <3>1, <4>1
    <3>2. CASE g # f
      <4>1. n[g] = m[g] /\ g \in out BY <3>2
      <4> HIDE DEF n
      <4> QED BY <2>6, <2>10, <4>1
    <3> QED BY <3>1, <3>2
  <2> HIDE DEF n
  <2>15. Owned(alive, res)
    BY <2>4, <2>8, <2>12, <2>13, <2>14 DEF Owned
  <2>16. res \in [slots : Seq(alive), out : SUBSET Files] BY <2>4
  <2> QED BY <2>1, <2>15, <2>16
<1> QED BY <1>4, <1>5

(* States of the choice, and what it makes of one for the n-th transcript. *)
Taking(alive) == {acc \in [slots : Seq(alive), out : SUBSET Files] : Owned(alive, acc)}

Taken(n, acc) == IF recent[n] \in Candidates THEN TakeSlot(acc, recent[n]) ELSE acc

LEMMA TakenOwned ==
    ASSUME NEW alive, NEW acc \in Taking(alive), recent \in Seq(Files), NEW n \in 1..Len(recent)
    PROVE  Taken(n, acc) \in Taking(alive)
<1>1. recent[n] \in Files BY ElementOfSeq
<1>2. acc = [slots |-> acc.slots, out |-> acc.out] /\ acc.slots \in Seq(alive)
      /\ acc.out \in SUBSET Files /\ Owned(alive, acc)
  BY DEF Taking
<1> DEFINE s == acc.slots  out == acc.out  f == recent[n]
<1>3. acc = [slots |-> s, out |-> out] /\ s \in Seq(alive) /\ out \in SUBSET Files /\ f \in Files
      /\ Owned(alive, [slots |-> s, out |-> out])
  BY <1>1, <1>2
<1> HIDE DEF s, out, f
<1>4. TakeSlot(acc, f) \in Taking(alive)
  <2>1. /\ TakeSlot([slots |-> s, out |-> out], f) \in [slots : Seq(alive), out : SUBSET Files]
        /\ Owned(alive, TakeSlot([slots |-> s, out |-> out], f))
    BY <1>3, TakeSlotOwned
  <2> QED BY <1>3, <2>1 DEF Taking
<1> QED BY <1>4 DEF Taken, f

(* The sessions selected have slots of their own, unless there is none.    *)
LEMMA SelectedOwned ==
    ASSUME NEW alive, NEW slots \in Seq(alive), Distinct(slots), slots # <<>>,
           recent \in Seq(Files)
    PROVE  \E acc \in Taking(alive) : Selected(slots) = acc.out
<1> DEFINE N == Len(recent)
           start == [slots |-> slots, out |-> {}]
           Body(h) == [n \in 0..N |-> IF n = 0 THEN start
                                      ELSE IF recent[n] \in Candidates
                                      THEN TakeSlot(h[n - 1], recent[n]) ELSE h[n - 1]]
           taken == CHOOSE h : h = Body(h)
           g == [x \in (1..N) \X Taking(alive) |-> Taken(x[1], x[2])]
<1>1. Selected(slots) = taken[N].out BY DEF Selected
<1>2. N \in Nat BY LenProperties
<1>3. start \in Taking(alive)
  <2>1. start \in [slots : Seq(alive), out : SUBSET Files] OBVIOUS
  <2>2. start.slots = slots /\ start.out = {} OBVIOUS
  <2> HIDE DEF start
  <2>3. [f \in {} |-> f] \in [{} -> alive] OBVIOUS
  <2>4. Owned(alive, start) BY <2>2, <2>3 DEF Owned
  <2> QED BY <2>1, <2>4 DEF Taking
<1> HIDE DEF start
<1>4. g \in [(1..N) \X Taking(alive) -> Taking(alive)]
  <2>1. ASSUME NEW x \in (1..N) \X Taking(alive) PROVE Taken(x[1], x[2]) \in Taking(alive)
    BY TakenOwned
  <2> QED BY <2>1
<1>5. \A n \in 1..N, acc \in Taking(alive) : g[<<n, acc>>] = Taken(n, acc) OBVIOUS
<1> HIDE DEF g, N
<1>6. PICK f : Iterates(f, Taking(alive), start, g, N) BY <1>2, <1>3, <1>4, IterationExists
<1>7. f \in [0..N -> Taking(alive)] /\ f[0] = start /\ \A n \in 1..N : f[n] = g[<<n, f[n - 1]>>]
  BY <1>6 DEF Iterates
<1>8. f = Body(f)
  <2>1. \A n \in 1..N : f[n] = Taken(n, f[n - 1])
    <3> TAKE n \in 1..N
    <3>1. n - 1 \in 0..N BY <1>2
    <3>2. f[n - 1] \in Taking(alive) BY <1>7, <3>1
    <3> QED BY <1>5, <1>7, <3>2
  <2>2. ASSUME NEW n \in 0..N
        PROVE  f[n] = (IF n = 0 THEN start
                       ELSE IF recent[n] \in Candidates
                       THEN TakeSlot(f[n - 1], recent[n]) ELSE f[n - 1])
    <3>1. CASE n = 0 BY <1>7, <3>1
    <3>2. CASE n # 0
      <4>1. n \in 1..N BY <1>2, <3>2
      <4> QED BY <2>1, <3>2, <4>1 DEF Taken
    <3> QED BY <3>1, <3>2
  <2> QED BY <1>7, <2>2
<1>9. taken = Body(taken) BY <1>8
<1> HIDE DEF taken
<1>10. taken[0] = start /\ \A n \in 1..N : taken[n] = Taken(n, taken[n - 1])
  <2>1. 0 \in 0..N /\ \A n \in 1..N : n \in 0..N /\ n # 0 BY <1>2
  <2> QED BY <1>9, <2>1 DEF Taken
<1> HIDE DEF Body
<1>11. taken[N] \in Taking(alive)
  <2> DEFINE T == {n \in 0..N : taken[n] \notin Taking(alive)}
  <2> SUFFICES ASSUME T # {} PROVE FALSE
    <3>1. N \in 0..N BY <1>2
    <3> QED BY <3>1
  <2>1. T \subseteq Nat BY <1>2
  <2>2. PICK n \in T : \A k \in T : n <= k
    <3> HIDE DEF T
    <3> QED BY <2>1, LeastNat
  <2>3. n # 0 BY <1>3, <1>10, <2>2
  <2>4. n \in 1..N /\ n - 1 \in 0..N /\ n - 1 < n BY <1>2, <2>2, <2>3
  <2>5. taken[n - 1] \in Taking(alive)
    <3>1. n - 1 \notin T BY <1>2, <2>2, <2>4
    <3> QED BY <2>4, <3>1
  <2>6. taken[n] \in Taking(alive) BY <1>10, <2>4, <2>5, TakenOwned DEF N
  <2> QED BY <2>2, <2>6
<1> QED BY <1>1, <1>11

(* An order of the live agents names each of them once.                    *)
LEMMA OrdersAre ==
    ASSUME NEW alive \in Evidence, NEW slots \in Orders(alive)
    PROVE  slots \in Seq(alive) /\ Distinct(slots) /\ (alive # {} => slots # <<>>)
<1> DEFINE c == Cardinality(alive)
<1>1. IsFiniteSet(alive) BY EvidenceFinite
<1>2. c \in Nat /\ (alive # {} => c # 0) BY <1>1, FS_CardinalityType, FS_EmptySet
<1>3. slots \in [1..c -> alive] /\ \A i, j \in DOMAIN slots : slots[i] = slots[j] => i = j
  BY DEF Orders
<1> HIDE DEF c
<1>4. slots \in Seq(alive) BY <1>2, <1>3 DEF Seq
<1>5. Len(slots) = c /\ DOMAIN slots = 1..c BY <1>2, <1>3, <1>4, LenProperties
<1>6. alive # {} => slots # <<>> BY <1>2, <1>5
<1> QED BY <1>3, <1>4, <1>5, <1>6 DEF Distinct

(* The sessions selected are transcripts.                                  *)
LEMMA SelectedAreFiles ==
    ASSUME NEW alive \in Evidence, NEW slots \in Orders(alive), recent \in Seq(Files)
    PROVE  Selected(slots) \subseteq Files
<1>1. CASE slots = <<>> BY <1>1 DEF Selected, fallback_candidates, Candidates
<1>2. CASE slots # <<>>
  <2>1. slots \in Seq(alive) /\ Distinct(slots) BY OrdersAre
  <2>2. PICK acc \in Taking(alive) : Selected(slots) = acc.out BY <1>2, <2>1, SelectedOwned
  <2> QED BY <2>2 DEF Taking
<1> QED BY <1>1, <1>2

(* Sessions selected have as many agents on their branches as there are    *)
(* sessions: the slots they took.                                          *)
LEMMA OwnProcessFollows ==
    ASSUME recent \in Seq(Files)
    PROVE  OwnProcess
<1> SUFFICES ASSUME NEW alive \in Evidence \ {{}}, NEW slots \in Orders(alive),
                    NEW S \in SUBSET Selected(slots)
             PROVE  Cardinality({p \in alive : \E f \in S : Matches(f, p)}) >= Cardinality(S)
  BY DEF OwnProcess
<1> DEFINE P == {p \in alive : \E f \in S : Matches(f, p)}
<1>1. IsFiniteSet(alive) BY EvidenceFinite
<1>2. slots \in Seq(alive) /\ Distinct(slots) /\ slots # <<>> BY OrdersAre
<1>3. PICK acc \in Taking(alive) : Selected(slots) = acc.out BY <1>2, SelectedOwned
<1>4. PICK m \in [acc.out -> alive] :
         /\ \A f, g \in acc.out : m[f] = m[g] => f = g
         /\ \A f \in acc.out : Matches(f, m[f])
  BY <1>3 DEF Taking, Owned
<1>5. S \subseteq acc.out BY <1>3
<1> DEFINE q == [f \in S |-> m[f]]
<1>6. q \in Injection(S, P) BY <1>4, <1>5 DEF Injection, IsInjective
<1>7. IsFiniteSet(P) BY <1>1, FS_Subset
<1> HIDE DEF P, q
<1>8. IsFiniteSet(S) /\ Cardinality(S) <= Cardinality(P) BY <1>6, <1>7, FS_Injection
<1>9. Cardinality(S) \in Nat /\ Cardinality(P) \in Nat BY <1>7, <1>8, FS_CardinalityType
<1> QED BY <1>8, <1>9 DEF P

---------------------------------------------------------------------------
(* The inductive invariant.  First the shape of the state.                 *)
AnyLine == UNION {LinesOf[k] : k \in Kinds}
Statuses == {"none", "WaitingInput", "Running", "Idle", "Done", "Error"}
ItemType == [file : Files, line : Nat, turn : BOOLEAN, status : Statuses]

ShapeInv ==
    /\ kindOf \in [Files -> Kinds]
    /\ lines \in [Files -> Seq(AnyLine)]
    /\ half \in SUBSET Files /\ \A f \in half : lines[f] # <<>>
    /\ recent \in Seq(Files)
    /\ cursors \in [Files -> Nat] /\ seen \in SUBSET Files
    /\ \A f \in Files \ seen : cursors[f] = 0
    /\ told \in [Files -> Seq(Nat)] /\ \A f \in Files : Len(told[f]) = Len(lines[f])
    /\ status \in [Files -> Statuses]
    /\ spoiled \in SUBSET (Files \X Nat)

(* What a poll has got of a file is a line of it, or its first sight.      *)
GotItem(g) ==
    /\ g.line <= Whole(g.file)
    /\ g.line = 0 => ~g.turn
    /\ g.line > 0 => g = Item(g.file, g.line)

PollInv ==
    /\ poll \in [pc : {"idle", "stat", "read"}, todo : SUBSET (Files \X Statuses),
                 len : Nat, got : Seq(ItemType)]
    /\ \A k \in 1..Len(poll.got) : GotItem(poll.got[k])
    /\ poll.pc = "idle" => poll.got = <<>> /\ poll.todo = {}
    /\ poll.pc = "read" =>
          /\ poll.todo # {} /\ Reading \in seen
          /\ cursors[Reading] < poll.len /\ poll.len <= Length(Reading)

(* A turn below the cursor of its file was delivered, is about to be, or   *)
(* is known to be lost.                                                    *)
GotTurn(f, i) == \E k \in 1..Len(poll.got) : poll.got[k].file = f /\ poll.got[k].line = i

SkipInv ==
    \A f \in Files : \A i \in 1..Len(lines[f]) :
        2 * i <= cursors[f] /\ IsTurn(kindOf[f], lines[f][i])
        => told[f][i] > 0 \/ <<f, i>> \in spoiled \/ GotTurn(f, i)

(* How often a turn was delivered, or will be when the poll ends.          *)
Times(f, i) == told[f][i] + Turns(f, i)

TwiceInv ==
    \A f \in Files : \A i \in 1..Len(lines[f]) :
        /\ Times(f, i) <= 2
        /\ 2 * (i - 1) >= cursors[f] => Times(f, i) <= 1
        /\ Times(f, i) > 0 => 2 * i <= Length(f)
        /\ poll.pc = "read" /\ f = Reading /\ 2 * (i - 1) >= poll.len => Times(f, i) = 0

(* The status delivered is that of the lines up to some point at or beyond *)
(* the cursor.                                                             *)
Unspoiled(f) == \A s \in spoiled : s[1] # f

StatusInv ==
    \A f \in Files :
        Unspoiled(f) /\ lines[f] # <<>> =>
            \E e \in 0..Whole(f) :
                /\ cursors[f] <= 2 * e
                /\ LastStatus(f, e) # NoStatus => StatusOf(f) = LastStatus(f, e)

DiscoveryIInv == ShapeInv /\ PollInv /\ SkipInv /\ TwiceInv /\ StatusInv

---------------------------------------------------------------------------
(* What a line says.                                                       *)
LEMMA StatusesAre ==
    ASSUME NEW kind, NEW l
    PROVE  /\ MetadataStatus(kind, l) \in Statuses
           /\ ActivityStatus(kind, l) = MetadataStatus(kind, l)
<1>1. claude_status(l) \in Statuses BY DEF claude_status, Statuses, NoStatus
<1>2. codex_event_status(l) \in Statuses BY DEF codex_event_status, Statuses, NoStatus
<1>3. codex_response_status(l) \in Statuses BY DEF codex_response_status, Statuses, NoStatus
<1>4. NoStatus \in Statuses BY DEF Statuses, NoStatus
<1>5. MetadataStatus(kind, l) \in Statuses BY <1>1, <1>2, <1>3, <1>4 DEF MetadataStatus
<1>6. ActivityStatus(kind, l) = MetadataStatus(kind, l) BY DEF ActivityStatus, MetadataStatus
<1> QED BY <1>5, <1>6

LEMMA ItemIs ==
    ASSUME NEW f \in Files, NEW i \in Nat
    PROVE  /\ Item(f, i) \in ItemType
           /\ Item(f, i).file = f /\ Item(f, i).line = i
           /\ Item(f, i).turn <=> IsTurn(kindOf[f], lines[f][i])
           /\ Item(f, i).status = MetadataStatus(kindOf[f], lines[f][i])
<1>1. IsTurn(kindOf[f], lines[f][i]) \in BOOLEAN BY DEF IsTurn
<1>2. ActivityStatus(kindOf[f], lines[f][i]) \in Statuses
      /\ ActivityStatus(kindOf[f], lines[f][i]) = MetadataStatus(kindOf[f], lines[f][i])
  BY StatusesAre
<1> QED BY <1>1, <1>2 DEF Item, ItemType

LEMMA SightIs ==
    ASSUME NEW t \in Files \X Statuses
    PROVE  /\ Sight(t) \in ItemType
           /\ Sight(t).file = t[1] /\ Sight(t).line = 0 /\ ~Sight(t).turn
<1>1. t[1] \in Files /\ t[2] \in Statuses OBVIOUS
<1> QED BY <1>1 DEF Sight, ItemType

(* The length of a file, with half a line perhaps at the end.              *)
LEMMA LengthIs ==
    ASSUME ShapeInv, NEW f \in Files
    PROVE  /\ Len(lines[f]) \in Nat /\ Whole(f) \in Nat
           /\ Whole(f) <= Len(lines[f]) /\ Len(lines[f]) <= Whole(f) + 1
           /\ Length(f) \in Nat /\ Length(f) = Len(lines[f]) + Whole(f)
           /\ f \in half => Len(lines[f]) = Whole(f) + 1
           /\ f \notin half => Len(lines[f]) = Whole(f)
<1>1. lines[f] \in Seq(AnyLine) BY DEF ShapeInv
<1>2. Len(lines[f]) \in Nat /\ (Len(lines[f]) = 0 => lines[f] = <<>>) BY <1>1, LenProperties, EmptySeq
<1> DEFINE L == Len(lines[f])
<1>3. f \in half => L # 0 BY <1>2 DEF ShapeInv
<1>4. Whole(f) = (IF f \in half THEN L - 1 ELSE L) BY DEF Whole
<1>5. Length(f) = L + Whole(f) BY DEF Length
<1>6. L \in Nat BY <1>2
<1> HIDE DEF L
<1>7. /\ Whole(f) \in Nat /\ Whole(f) <= L /\ L <= Whole(f) + 1
      /\ f \in half => L = Whole(f) + 1
      /\ f \notin half => L = Whole(f)
  BY <1>3, <1>4, <1>6
<1>8. L + Whole(f) \in Nat BY <1>6, <1>7
<1> QED BY <1>5, <1>6, <1>7, <1>8 DEF L

(* The session polled next is one of those left.                           *)
LEMMA FirstIs ==
    ASSUME NEW todo \in SUBSET (Files \X Statuses), todo # {}
    PROVE  FirstOf(todo) \in todo /\ FirstOf(todo)[1] \in Files
<1>1. Transcripts \in Seq(Files) BY DiscoveryAssumption
<1> DEFINE n == Len(Transcripts)
<1>2. n \in Nat /\ DOMAIN Transcripts = 1..n BY <1>1, LenProperties
<1>3. \A f \in Files : \E i \in 1..n : Transcripts[i] = f BY <1>2 DEF Files, ToSet
<1>4. ASSUME NEW f \in Files PROVE Position(f) \in 1..n
  <2>1. \E i \in DOMAIN Transcripts : Transcripts[i] = f BY <1>2, <1>3
  <2> QED BY <1>2, <2>1 DEF Position
<1> DEFINE T == {Position(u[1]) : u \in todo}
<1>5. T \subseteq Nat
  <2>1. \A u \in todo : u[1] \in Files OBVIOUS
  <2> QED BY <1>2, <1>4, <2>1
<1>6. T # {} OBVIOUS
<1>7. PICK x \in T : \A y \in T : x <= y
  <2> HIDE DEF T
  <2> QED BY <1>5, <1>6, LeastNat
<1>8. PICK t \in todo : x = Position(t[1]) BY <1>7
<1>9. \A u \in todo : Position(t[1]) <= Position(u[1]) BY <1>7, <1>8
<1>10. FirstOf(todo) \in todo BY <1>9 DEF FirstOf
<1> QED BY <1>10

---------------------------------------------------------------------------
(* What a poll has got, when more is added to it.                          *)
Extends(got, more) ==
    /\ got \in Seq(ItemType) /\ more \in Seq(ItemType) /\ Len(got) <= Len(more)
    /\ \A k \in 1..Len(got) : more[k] = got[k]

TurnAt(got, k, f, i) == got[k].turn /\ got[k].file = f /\ got[k].line = i
TurnsIn(got, f, i) == Cardinality({k \in 1..Len(got) : TurnAt(got, k, f, i)})

SaysAt(got, k, f) == got[k].file = f /\ got[k].status # NoStatus
LastIn(got, f, s) ==
    LET of == {k \in 1..Len(got) : SaysAt(got, k, f)}
    IN  IF of = {} THEN s ELSE got[Max(of)].status

LEMMA TurnsType ==
    ASSUME NEW got \in Seq(ItemType), NEW f, NEW i
    PROVE  /\ TurnsIn(got, f, i) \in Nat
           /\ TurnsIn(got, f, i) = 0 <=> \A k \in 1..Len(got) : ~TurnAt(got, k, f, i)
<1> DEFINE K == {k \in 1..Len(got) : TurnAt(got, k, f, i)}
<1>1. Len(got) \in Nat BY LenProperties
<1>2. IsFiniteSet(1..Len(got)) BY <1>1, FS_Interval
<1>3. K \in SUBSET (1..Len(got)) OBVIOUS
<1>4. K = {} <=> \A k \in 1..Len(got) : ~TurnAt(got, k, f, i) OBVIOUS
<1>5. TurnsIn(got, f, i) = Cardinality(K) BY DEF TurnsIn
<1> HIDE DEF K
<1>6. IsFiniteSet(K) BY <1>2, <1>3, FS_Subset
<1>7. Cardinality(K) \in Nat /\ (Cardinality(K) = 0 <=> K = {})
  BY <1>6, FS_CardinalityType, FS_EmptySet
<1> QED BY <1>4, <1>5, <1>7

LEMMA NoTurnsYet ==
    ASSUME NEW f, NEW i
    PROVE  TurnsIn(<<>>, f, i) = 0
<1>1. <<>> \in Seq(ItemType) /\ Len(<<>>) = 0 BY EmptySeq
<1>2. \A k \in 1..Len(<<>>) : ~TurnAt(<<>>, k, f, i) BY <1>1
<1> QED BY <1>1, <1>2, TurnsType

LEMMA TurnsKept ==
    ASSUME NEW got, NEW more, Extends(got, more), NEW f, NEW i,
           \A k \in Len(got) + 1..Len(more) : ~TurnAt(more, k, f, i)
    PROVE  TurnsIn(more, f, i) = TurnsIn(got, f, i)
<1>1. Len(got) \in Nat /\ Len(more) \in Nat /\ Len(got) <= Len(more)
  BY LenProperties DEF Extends
<1>2. \A k \in 1..Len(got) : TurnAt(more, k, f, i) <=> TurnAt(got, k, f, i)
  BY DEF Extends, TurnAt
<1>3. \A k : k \in 1..Len(more) <=> k \in 1..Len(got) \/ k \in Len(got) + 1..Len(more)
  BY <1>1
<1>4. {k \in 1..Len(more) : TurnAt(more, k, f, i)} = {k \in 1..Len(got) : TurnAt(got, k, f, i)}
  BY <1>2, <1>3
<1> QED BY <1>4 DEF TurnsIn

LEMMA TurnsGrow ==
    ASSUME NEW got, NEW more, Extends(got, more), NEW f, NEW i,
           \A j, k \in Len(got) + 1..Len(more) :
              TurnAt(more, j, f, i) /\ TurnAt(more, k, f, i) => j = k
    PROVE  TurnsIn(more, f, i) <= TurnsIn(got, f, i) + 1
<1>1. Len(got) \in Nat /\ Len(more) \in Nat /\ Len(got) <= Len(more)
  BY LenProperties DEF Extends
<1>2. \A k \in 1..Len(got) : TurnAt(more, k, f, i) <=> TurnAt(got, k, f, i)
  BY DEF Extends, TurnAt
<1>3. \A k : k \in 1..Len(more) <=> k \in 1..Len(got) \/ k \in Len(got) + 1..Len(more)
  BY <1>1
<1> DEFINE K == {k \in 1..Len(got) : TurnAt(got, k, f, i)}
<1>4. TurnsIn(got, f, i) = Cardinality(K) /\ TurnsIn(got, f, i) \in Nat
  BY TurnsType DEF TurnsIn, Extends
<1>5. CASE \A k \in Len(got) + 1..Len(more) : ~TurnAt(more, k, f, i)
  BY <1>4, <1>5, TurnsKept
<1>6. CASE \E k \in Len(got) + 1..Len(more) : TurnAt(more, k, f, i)
  <2>1. PICK k \in Len(got) + 1..Len(more) : TurnAt(more, k, f, i) BY <1>6
  <2>2. {j \in 1..Len(more) : TurnAt(more, j, f, i)} = K \cup {k} BY <1>2, <1>3, <2>1
  <2>3. IsFiniteSet(1..Len(got)) /\ K \in SUBSET (1..Len(got)) BY <1>1, FS_Interval
  <2> HIDE DEF K
  <2>4. IsFiniteSet(K) BY <2>3, FS_Subset
  <2>5. Cardinality(K \cup {k}) = IF k \in K THEN Cardinality(K) ELSE Cardinality(K) + 1
    BY <2>4, FS_AddElement
  <2>6. TurnsIn(more, f, i) = Cardinality(K \cup {k}) BY <2>2 DEF TurnsIn
  <2> QED BY <1>4, <2>5, <2>6
<1> QED BY <1>5, <1>6

LEMMA LastKept ==
    ASSUME NEW got, NEW more, Extends(got, more), NEW f, NEW s,
           \A k \in Len(got) + 1..Len(more) : ~SaysAt(more, k, f)
    PROVE  LastIn(more, f, s) = LastIn(got, f, s)
<1>1. Len(got) \in Nat /\ Len(more) \in Nat /\ Len(got) <= Len(more)
  BY LenProperties DEF Extends
<1>2. \A k \in 1..Len(got) : SaysAt(more, k, f) <=> SaysAt(got, k, f)
  BY DEF Extends, SaysAt
<1>3. \A k : k \in 1..Len(more) <=> k \in 1..Len(got) \/ k \in Len(got) + 1..Len(more)
  BY <1>1
<1> DEFINE K == {k \in 1..Len(got) : SaysAt(got, k, f)}
<1>4. {k \in 1..Len(more) : SaysAt(more, k, f)} = K BY <1>2, <1>3
<1>5. CASE K = {} BY <1>4, <1>5 DEF LastIn
<1>6. CASE K # {}
  <2>1. K \in SUBSET (1..Len(got)) OBVIOUS
  <2>2. LastIn(more, f, s) = more[Max(K)].status BY <1>4, <1>6 DEF LastIn
  <2>3. LastIn(got, f, s) = got[Max(K)].status BY <1>6 DEF LastIn
  <2> HIDE DEF K
  <2>4. Max(K) \in 1..Len(got) BY <1>1, <1>6, <2>1, MaxIs
  <2> QED BY <2>2, <2>3, <2>4 DEF Extends
<1> QED BY <1>5, <1>6

LEMMA LastIsSaid ==
    ASSUME NEW more \in Seq(ItemType), NEW f, NEW s, NEW k \in 1..Len(more), SaysAt(more, k, f),
           \A j \in k + 1..Len(more) : ~SaysAt(more, j, f)
    PROVE  LastIn(more, f, s) = more[k].status
<1>1. Len(more) \in Nat BY LenProperties
<1> DEFINE K == {j \in 1..Len(more) : SaysAt(more, j, f)}
<1>2. K \in SUBSET (1..Len(more)) /\ k \in K OBVIOUS
<1>3. \A j \in K : j <= k
  <2>1. \A j \in 1..Len(more) : j <= k \/ j \in k + 1..Len(more) BY <1>1
  <2> QED BY <2>1
<1>4. LastIn(more, f, s) = more[Max(K)].status BY <1>2 DEF LastIn
<1> HIDE DEF K
<1>5. Max(K) \in K /\ k <= Max(K) BY <1>1, <1>2, MaxIs
<1>6. Max(K) \in 1..Len(more) /\ Max(K) <= k BY <1>2, <1>3, <1>5
<1>7. Max(K) = k
  <2>1. \A n \in Nat : \A a, b \in 1..n : a <= b /\ b <= a => a = b OBVIOUS
  <2> QED BY <1>1, <1>5, <1>6, <2>1
<1> QED BY <1>4, <1>7

LEMMA NothingSaidYet ==
    ASSUME NEW got \in Seq(ItemType), NEW f, NEW s, \A k \in 1..Len(got) : ~SaysAt(got, k, f)
    PROVE  LastIn(got, f, s) = s
<1>1. {k \in 1..Len(got) : SaysAt(got, k, f)} = {} OBVIOUS
<1> QED BY <1>1 DEF LastIn

(* In terms of the state.                                                  *)
LEMMA TurnsAndStatus ==
    /\ poll.got \in Seq(ItemType) =>
          /\ \A f, i : Turns(f, i) = TurnsIn(poll.got, f, i)
          /\ \A f : StatusOf(f) = LastIn(poll.got, f, status[f])
    /\ poll'.got \in Seq(ItemType) =>
          /\ \A f, i : Turns(f, i)' = TurnsIn(poll'.got, f, i)
          /\ \A f : StatusOf(f)' = LastIn(poll'.got, f, status'[f])
<1>1. ASSUME poll.got \in Seq(ItemType)
      PROVE  /\ \A f, i : Turns(f, i) = TurnsIn(poll.got, f, i)
             /\ \A f : StatusOf(f) = LastIn(poll.got, f, status[f])
  <2>1. DOMAIN poll.got = 1..Len(poll.got) BY <1>1, LenProperties
  <2>2. \A f, i : Turns(f, i) = TurnsIn(poll.got, f, i) BY <2>1 DEF Turns, TurnsIn, TurnAt
  <2>3. \A f : StatusOf(f) = LastIn(poll.got, f, status[f]) BY <2>1 DEF StatusOf, LastIn, SaysAt
  <2> QED BY <2>2, <2>3
<1>2. ASSUME poll'.got \in Seq(ItemType)
      PROVE  /\ \A f, i : Turns(f, i)' = TurnsIn(poll'.got, f, i)
             /\ \A f : StatusOf(f)' = LastIn(poll'.got, f, status'[f])
  <2>1. DOMAIN poll'.got = 1..Len(poll'.got) BY <1>2, LenProperties
  <2>2. \A f, i : Turns(f, i)' = TurnsIn(poll'.got, f, i) BY <2>1 DEF Turns, TurnsIn, TurnAt
  <2>3. \A f : StatusOf(f)' = LastIn(poll'.got, f, status'[f]) BY <2>1 DEF StatusOf, LastIn, SaysAt
  <2> QED BY <2>2, <2>3
<1> QED BY <1>1, <1>2

---------------------------------------------------------------------------
(* The status that the first lines of a transcript leave.                  *)
Says(f, i) == MetadataStatus(kindOf[f], lines[f][i])

LEMMA LastStatusIs ==
    ASSUME NEW f \in Files, NEW n \in Nat
    PROVE  /\ LastStatus(f, n) \in Statuses
           /\ LastStatus(f, 0) = NoStatus
           /\ LastStatus(f, n) # NoStatus =>
                 \E m \in 1..n : /\ Says(f, m) # NoStatus /\ LastStatus(f, n) = Says(f, m)
                                 /\ \A i \in m + 1..n : Says(f, i) = NoStatus
<1> DEFINE S == {i \in 1..n : Says(f, i) # NoStatus}
<1>1. S \in SUBSET (1..n) OBVIOUS
<1>2. LastStatus(f, n) = IF S = {} THEN NoStatus ELSE Says(f, Max(S)) BY DEF LastStatus, Says
<1>3. S # {} => Max(S) \in S /\ \A i \in S : i <= Max(S)
  <2> HIDE DEF S
  <2> QED BY <1>1, MaxIs
<1>4. S # {} => \A i \in Max(S) + 1..n : Says(f, i) = NoStatus
  <2> SUFFICES ASSUME S # {}, NEW i \in Max(S) + 1..n, Says(f, i) # NoStatus PROVE FALSE
    OBVIOUS
  <2>1. Max(S) \in 1..n BY <1>3
  <2>2. i \in 1..n /\ ~(i <= Max(S)) BY <2>1
  <2>3. i \in S BY <2>2
  <2> QED BY <1>3, <2>2, <2>3
<1>5. LastStatus(f, 0) = NoStatus
  <2>1. {i \in 1..0 : MetadataStatus(kindOf[f], lines[f][i]) # NoStatus} = {} OBVIOUS
  <2> QED BY <2>1 DEF LastStatus
<1>6. LastStatus(f, n) \in Statuses
  <2>1. \A i : Says(f, i) \in Statuses BY StatusesAre DEF Says
  <2>2. NoStatus \in Statuses BY DEF NoStatus, Statuses
  <2> HIDE DEF S
  <2> QED BY <1>2, <2>1, <2>2
<1>7. ASSUME LastStatus(f, n) # NoStatus
      PROVE  \E m \in 1..n : /\ Says(f, m) # NoStatus /\ LastStatus(f, n) = Says(f, m)
                             /\ \A i \in m + 1..n : Says(f, i) = NoStatus
  <2>1. S # {} BY <1>2, <1>7
  <2>2. Max(S) \in 1..n /\ Says(f, Max(S)) # NoStatus BY <1>3, <2>1
  <2>3. LastStatus(f, n) = Says(f, Max(S)) BY <1>2, <2>1
  <2> QED BY <1>4, <2>1, <2>2, <2>3
<1> QED BY <1>5, <1>6, <1>7

LEMMA LastStatusKept ==
    ASSUME NEW f \in Files, NEW n \in Nat, NEW e \in 0..n,
           \A i \in e + 1..n : Says(f, i) = NoStatus
    PROVE  LastStatus(f, n) = LastStatus(f, e)
<1>1. \A i : i \in 1..n /\ Says(f, i) # NoStatus <=> i \in 1..e /\ Says(f, i) # NoStatus
  <2>1. \A i : i \in 1..n <=> i \in 1..e \/ i \in e + 1..n OBVIOUS
  <2> QED BY <2>1
<1>2. {i \in 1..n : MetadataStatus(kindOf[f], lines[f][i]) # NoStatus}
      = {i \in 1..e : MetadataStatus(kindOf[f], lines[f][i]) # NoStatus}
  BY <1>1 DEF Says
<1> QED BY <1>2 DEF LastStatus

LEMMA LastStatusStays ==
    ASSUME NEW f \in Files, NEW n \in Nat, kindOf' = kindOf,
           \A i \in 1..n : lines'[f][i] = lines[f][i]
    PROVE  LastStatus(f, n)' = LastStatus(f, n)
<1> DEFINE S == {i \in 1..n : MetadataStatus(kindOf[f], lines[f][i]) # NoStatus}
           T == {i \in 1..n : MetadataStatus(kindOf[f], lines'[f][i]) # NoStatus}
<1>1. S = T OBVIOUS
<1>2. LastStatus(f, n) = IF S = {} THEN NoStatus
                         ELSE MetadataStatus(kindOf[f], lines[f][Max(S)])
  BY DEF LastStatus
<1>3. LastStatus(f, n)' = IF T = {} THEN NoStatus
                          ELSE MetadataStatus(kindOf[f], lines'[f][Max(T)])
  BY DEF LastStatus
<1>4. S \in SUBSET (1..n) OBVIOUS
<1> HIDE DEF S, T
<1>5. S # {} => Max(S) \in 1..n BY <1>4, MaxIs
<1> QED BY <1>1, <1>2, <1>3, <1>5

---------------------------------------------------------------------------
LEMMA DiscoveryIInvInit == DiscoveryInit => DiscoveryIInv
<1> SUFFICES ASSUME DiscoveryInit PROVE DiscoveryIInv OBVIOUS
<1> USE DEF DiscoveryInit
<1>1. ShapeInv
  <2>1. kindOf \in [Files -> Kinds] /\ Transcripts \in Seq(Files) BY DiscoveryAssumption
  <2>2. <<>> \in Seq(AnyLine) /\ <<>> \in Seq(Nat) BY EmptySeq
  <2>3. lines \in [Files -> Seq(AnyLine)] /\ told \in [Files -> Seq(Nat)] BY <2>2
  <2>4. \A f \in Files : Len(told[f]) = Len(lines[f]) OBVIOUS
  <2>5. status \in [Files -> Statuses] BY DEF NoStatus, Statuses
  <2>6. cursors \in [Files -> Nat] /\ \A f \in Files : cursors[f] = 0 OBVIOUS
  <2> QED BY <2>1, <2>3, <2>4, <2>5, <2>6 DEF ShapeInv
<1>2. PollInv
  <2>1. <<>> \in Seq(ItemType) /\ Len(<<>>) = 0 BY EmptySeq
  <2>2. poll.got = <<>> /\ poll.todo = {} /\ poll.pc = "idle" BY DEF NoPoll
  <2>3. poll \in [pc : {"idle", "stat", "read"}, todo : SUBSET (Files \X Statuses),
                  len : Nat, got : Seq(ItemType)]
    BY <2>1 DEF NoPoll
  <2> QED BY <2>1, <2>2, <2>3 DEF PollInv
<1>3. \A f \in Files : Len(lines[f]) = 0 /\ lines[f] = <<>> BY EmptySeq
<1>4. SkipInv BY <1>3 DEF SkipInv
<1>5. TwiceInv BY <1>3 DEF TwiceInv
<1>6. StatusInv BY <1>3 DEF StatusInv
<1> QED BY <1>1, <1>2, <1>4, <1>5, <1>6 DEF DiscoveryIInv

(* What the invariant says of a transcript, in one place.                  *)
LEMMA InvFacts ==
    ASSUME DiscoveryIInv
    PROVE  /\ poll.got \in Seq(ItemType) /\ Len(poll.got) \in Nat
           /\ \A k \in 1..Len(poll.got) : poll.got[k] \in ItemType /\ GotItem(poll.got[k])
           /\ \A f \in Files : /\ cursors[f] \in Nat /\ lines[f] \in Seq(AnyLine)
                               /\ told[f] \in Seq(Nat) /\ Len(told[f]) = Len(lines[f])
                               /\ DOMAIN told[f] = 1..Len(lines[f])
           /\ \A f \in Files : \A i \in 1..Len(lines[f]) :
                 /\ told[f][i] \in Nat /\ Turns(f, i) \in Nat
                 /\ Times(f, i) = told[f][i] + Turns(f, i) /\ Times(f, i) \in Nat
<1>1. poll.got \in Seq(ItemType) BY DEF DiscoveryIInv, PollInv
<1>2. Len(poll.got) \in Nat /\ \A k \in 1..Len(poll.got) : poll.got[k] \in ItemType
  BY <1>1, LenProperties, ElementOfSeq
<1>3. \A k \in 1..Len(poll.got) : GotItem(poll.got[k]) BY DEF DiscoveryIInv, PollInv
<1>4. ASSUME NEW f \in Files
      PROVE  /\ cursors[f] \in Nat /\ lines[f] \in Seq(AnyLine)
             /\ told[f] \in Seq(Nat) /\ Len(told[f]) = Len(lines[f])
             /\ DOMAIN told[f] = 1..Len(lines[f])
  <2>1. /\ cursors[f] \in Nat /\ lines[f] \in Seq(AnyLine)
        /\ told[f] \in Seq(Nat) /\ Len(told[f]) = Len(lines[f])
    BY DEF DiscoveryIInv, ShapeInv
  <2> QED BY <2>1, LenProperties
<1>5. ASSUME NEW f \in Files, NEW i \in 1..Len(lines[f])
      PROVE  /\ told[f][i] \in Nat /\ Turns(f, i) \in Nat
             /\ Times(f, i) = told[f][i] + Turns(f, i) /\ Times(f, i) \in Nat
  <2>1. told[f][i] \in Nat BY <1>4, ElementOfSeq
  <2>2. Turns(f, i) \in Nat BY <1>1, TurnsType, TurnsAndStatus
  <2> QED BY <2>1, <2>2 DEF Times
<1> QED BY <1>1, <1>2, <1>3, <1>4, <1>5

(* A poll that has just begun or ended holds nothing.                      *)
LEMMA HoldsNothing ==
    ASSUME poll'.got = <<>>
    PROVE  /\ poll'.got \in Seq(ItemType) /\ Len(poll'.got) = 0
           /\ \A f, i : Turns(f, i)' = 0
           /\ \A f : StatusOf(f)' = status'[f]
<1>1. <<>> \in Seq(ItemType) /\ Len(<<>>) = 0 BY EmptySeq
<1>2. \A f, i : Turns(f, i)' = 0 BY <1>1, NoTurnsYet, TurnsAndStatus
<1>3. \A f : StatusOf(f)' = LastIn(poll'.got, f, status'[f]) BY <1>1, TurnsAndStatus
<1>4. \A f, s : LastIn(<<>>, f, s) = s
  <2>1. \A f : \A k \in 1..Len(<<>>) : ~SaysAt(<<>>, k, f) BY <1>1
  <2> QED BY <1>1, <2>1, NothingSaidYet
<1> QED BY <1>1, <1>2, <1>3, <1>4

LEMMA PollStartsKeeps ==
    ASSUME DiscoveryIInv, PollStarts
    PROVE  DiscoveryIInv'
<1>0. PICK alive \in Evidence : \E slots \in Orders(alive) :
         poll' = [NoPoll EXCEPT !.pc = "stat",
                                !.todo = {<<f, Shown(f, slots)>> : f \in Selected(slots)}]
  BY DEF PollStarts
<1>1. PICK slots \in Orders(alive) :
         poll' = [NoPoll EXCEPT !.pc = "stat",
                                !.todo = {<<f, Shown(f, slots)>> : f \in Selected(slots)}]
  BY <1>0
<1>2. UNCHANGED <<kindOf, lines, half, recent, cursors, seen, told, status, spoiled>>
      /\ poll.pc = "idle"
  BY DEF PollStarts, files, delivered
<1>3. poll.got = <<>> BY <1>2 DEF DiscoveryIInv, PollInv
<1> DEFINE todo == {<<f, Shown(f, slots)>> : f \in Selected(slots)}
<1>4. todo \in SUBSET (Files \X Statuses)
  <2>1. recent \in Seq(Files) BY DEF DiscoveryIInv, ShapeInv
  <2>2. Selected(slots) \subseteq Files BY <2>1, SelectedAreFiles
  <2>3. ASSUME NEW f \in Files PROVE Shown(f, slots) \in Statuses
    <3>1. Whole(f) \in Nat BY LengthIs DEF DiscoveryIInv
    <3>2. ScannedStatus(f) \in Statuses BY <3>1, LastStatusIs DEF ScannedStatus
    <3> QED BY <3>2 DEF Shown, Statuses
  <2> QED BY <2>2, <2>3
<1> HIDE DEF todo
<1>5. poll' = [pc |-> "stat", todo |-> todo, len |-> 0, got |-> <<>>] BY <1>1 DEF NoPoll, todo
<1>6. poll'.got = <<>> /\ poll'.pc = "stat" BY <1>5
<1>7. ShapeInv' BY <1>2 DEF DiscoveryIInv, ShapeInv
<1>8. PollInv'
  <2>1. poll' \in [pc : {"idle", "stat", "read"}, todo : SUBSET (Files \X Statuses),
                   len : Nat, got : Seq(ItemType)]
    BY <1>4, <1>5, EmptySeq
  <2> QED BY <1>6, <2>1, HoldsNothing DEF PollInv
<1>9. (\A f, i : Turns(f, i) = 0 /\ Turns(f, i)' = 0)
      /\ \A f : StatusOf(f) = status[f] /\ StatusOf(f)' = status[f]
  <2>1. poll.got \in Seq(ItemType) /\ Len(poll.got) = 0 BY <1>3, EmptySeq
  <2>2. \A f, i : Turns(f, i) = 0 BY <1>3, <2>1, NoTurnsYet, TurnsAndStatus
  <2>3. \A f, s : LastIn(poll.got, f, s) = s BY <2>1, NothingSaidYet
  <2> QED BY <1>2, <1>6, <2>1, <2>2, <2>3, HoldsNothing, TurnsAndStatus
<1>10. SkipInv'
  <2>1. \A f, i : ~GotTurn(f, i) BY <1>3, EmptySeq DEF GotTurn
  <2> QED BY <1>2, <2>1 DEF DiscoveryIInv, SkipInv
<1>11. TwiceInv'
  <2>1. \A f \in Files : Length(f)' = Length(f) BY <1>2 DEF Length, Whole
  <2>2. \A f, i : Times(f, i)' = Times(f, i) BY <1>2, <1>9 DEF Times
  <2> QED BY <1>2, <1>6, <2>1, <2>2 DEF DiscoveryIInv, TwiceInv
<1>12. StatusInv'
  <2>1. \A f : Whole(f)' = Whole(f) BY <1>2 DEF Whole
  <2>2. \A f, e : LastStatus(f, e)' = LastStatus(f, e) BY <1>2 DEF LastStatus
  <2>3. \A f : Unspoiled(f)' = Unspoiled(f) BY <1>2 DEF Unspoiled
  <2> QED BY <1>2, <1>9, <2>1, <2>2, <2>3 DEF DiscoveryIInv, StatusInv
<1> QED BY <1>7, <1>8, <1>10, <1>11, <1>12 DEF DiscoveryIInv

LEMMA PollEndsKeeps ==
    ASSUME DiscoveryIInv, PollEnds
    PROVE  DiscoveryIInv'
<1>1. /\ UNCHANGED <<kindOf, lines, half, recent, cursors, seen, spoiled>>
      /\ poll' = NoPoll /\ poll.pc = "stat"
      /\ told' = [f \in Files |-> [i \in DOMAIN told[f] |-> told[f][i] + Turns(f, i)]]
      /\ status' = [f \in Files |-> StatusOf(f)]
  BY DEF PollEnds, files
<1>2. poll'.got = <<>> /\ poll'.pc = "idle" /\ poll'.todo = {} /\ poll'.len = 0
  BY <1>1 DEF NoPoll
<1>3. \A f \in Files : \A i \in 1..Len(lines[f]) :
         told'[f][i] = Times(f, i) /\ Times(f, i) \in Nat
  <2> TAKE f \in Files
  <2> TAKE i \in 1..Len(lines[f])
  <2>1. i \in DOMAIN told[f] BY InvFacts
  <2>2. told'[f][i] = told[f][i] + Turns(f, i) BY <1>1, <2>1
  <2> QED BY <2>2, InvFacts
<1>4. ShapeInv'
  <2>1. ASSUME NEW f \in Files PROVE told'[f] \in Seq(Nat) /\ Len(told'[f]) = Len(lines[f])
    <3> DEFINE n == Len(lines[f])
    <3>1. n \in Nat BY InvFacts, LenProperties
    <3>2. told'[f] = [i \in 1..n |-> told[f][i] + Turns(f, i)] BY <1>1, InvFacts
    <3>3. \A i \in 1..n : told[f][i] + Turns(f, i) \in Nat BY InvFacts
    <3>4. told'[f] \in [1..n -> Nat] /\ DOMAIN told'[f] = 1..n BY <3>2, <3>3
    <3> HIDE DEF n
    <3>5. told'[f] \in Seq(Nat) BY <3>1, <3>4 DEF Seq
    <3>6. Len(told'[f]) = n BY <3>1, <3>4, <3>5, LenProperties
    <3> QED BY <3>5, <3>6 DEF n
  <2>2. told' \in [Files -> Seq(Nat)] BY <1>1, <2>1
  <2>3. ASSUME NEW f \in Files PROVE StatusOf(f) \in Statuses
    <3>1. status[f] \in Statuses BY DEF DiscoveryIInv, ShapeInv
    <3> DEFINE of == {k \in 1..Len(poll.got) : SaysAt(poll.got, k, f)}
    <3>2. StatusOf(f) = IF of = {} THEN status[f] ELSE poll.got[Max(of)].status
      BY InvFacts, TurnsAndStatus DEF LastIn
    <3>3. of \in SUBSET (1..Len(poll.got)) OBVIOUS
    <3> HIDE DEF of
    <3>4. of # {} => Max(of) \in 1..Len(poll.got) BY <3>3, InvFacts, MaxIs
    <3>5. of # {} => poll.got[Max(of)].status \in Statuses BY <3>4, InvFacts DEF ItemType
    <3> QED BY <3>1, <3>2, <3>5
  <2>4. status' \in [Files -> Statuses] BY <1>1, <2>3
  <2> QED BY <1>1, <2>1, <2>2, <2>4 DEF DiscoveryIInv, ShapeInv
<1>5. PollInv'
  <2>1. poll' \in [pc : {"idle", "stat", "read"}, todo : SUBSET (Files \X Statuses),
                   len : Nat, got : Seq(ItemType)]
    BY <1>1, EmptySeq DEF NoPoll
  <2> QED BY <1>2, <2>1, HoldsNothing DEF PollInv
<1>6. SkipInv'
  <2> SUFFICES ASSUME NEW f \in Files, NEW i \in 1..Len(lines[f]),
                      2 * i <= cursors[f], IsTurn(kindOf[f], lines[f][i]),
                      <<f, i>> \notin spoiled
               PROVE  told'[f][i] > 0
    BY <1>1 DEF SkipInv
  <2>1. told[f][i] > 0 \/ GotTurn(f, i) BY DEF DiscoveryIInv, SkipInv
  <2>2. CASE told[f][i] > 0
    <3>1. Times(f, i) > 0 BY <2>2, InvFacts
    <3> QED BY <1>3, <3>1
  <2>3. CASE GotTurn(f, i)
    <3>1. PICK k \in 1..Len(poll.got) : poll.got[k].file = f /\ poll.got[k].line = i
      BY <2>3 DEF GotTurn
    <3>2. i \in Nat /\ i > 0 BY InvFacts, LenProperties
    <3>3. poll.got[k] = Item(f, i) BY <3>1, <3>2, InvFacts DEF GotItem
    <3>4. TurnAt(poll.got, k, f, i) BY <3>1, <3>2, <3>3, ItemIs DEF TurnAt
    <3>5. Turns(f, i) # 0 BY <3>4, InvFacts, TurnsType, TurnsAndStatus
    <3>6. Times(f, i) > 0 BY <3>5, InvFacts
    <3> QED BY <1>3, <3>6
  <2> QED BY <2>1, <2>2, <2>3
<1>7. TwiceInv'
  <2>1. \A f \in Files : Length(f)' = Length(f) BY <1>1 DEF Length, Whole
  <2>2. \A f \in Files : \A i \in 1..Len(lines[f]) : Times(f, i)' = Times(f, i)
    <3> TAKE f \in Files
    <3> TAKE i \in 1..Len(lines[f])
    <3>1. Times(f, i)' = told'[f][i] + Turns(f, i)' BY DEF Times
    <3>2. Turns(f, i)' = 0 BY <1>2, HoldsNothing
    <3> QED BY <1>3, <3>1, <3>2
  <2> QED BY <1>1, <1>2, <2>1, <2>2 DEF DiscoveryIInv, TwiceInv
<1>8. StatusInv'
  <2>1. \A f : Whole(f)' = Whole(f) BY <1>1 DEF Whole
  <2>2. \A f, e : LastStatus(f, e)' = LastStatus(f, e) BY <1>1 DEF LastStatus
  <2>3. \A f : Unspoiled(f)' = Unspoiled(f) BY <1>1 DEF Unspoiled
  <2>4. \A f \in Files : StatusOf(f)' = StatusOf(f) BY <1>1, <1>2, HoldsNothing
  <2> QED BY <1>1, <2>1, <2>2, <2>3, <2>4 DEF DiscoveryIInv, StatusInv
<1> QED BY <1>4, <1>5, <1>6, <1>7, <1>8 DEF DiscoveryIInv

LEMMA PollFailsKeeps ==
    ASSUME DiscoveryIInv, PollFails
    PROVE  DiscoveryIInv'
<1>1. /\ UNCHANGED <<kindOf, lines, half, recent, cursors, told, status>>
      /\ poll' = NoPoll /\ poll.todo # {} /\ seen' = seen \cup {Reading}
      /\ spoiled' = spoiled \cup {<<g.file, g.line>> : g \in ToSet(poll.got)}
  BY DEF PollFails, files, delivered
<1>2. poll'.got = <<>> /\ poll'.pc = "idle" /\ poll'.todo = {} /\ poll'.len = 0
  BY <1>1 DEF NoPoll
<1>3. \A k \in 1..Len(poll.got) : <<poll.got[k].file, poll.got[k].line>> \in spoiled'
  <2>1. DOMAIN poll.got = 1..Len(poll.got) BY InvFacts, LenProperties
  <2>2. \A k \in 1..Len(poll.got) : poll.got[k] \in ToSet(poll.got) BY <2>1 DEF ToSet
  <2> QED BY <1>1, <2>2
<1>4. ShapeInv'
  <2>1. poll.todo \in SUBSET (Files \X Statuses) BY DEF DiscoveryIInv, PollInv
  <2>2. Reading \in Files BY <1>1, <2>1, FirstIs DEF Reading
  <2>3. \A g \in ToSet(poll.got) : g \in ItemType
    <3>1. DOMAIN poll.got = 1..Len(poll.got) BY InvFacts, LenProperties
    <3> QED BY <3>1, InvFacts DEF ToSet
  <2>4. {<<g.file, g.line>> : g \in ToSet(poll.got)} \in SUBSET (Files \X Nat)
    BY <2>3 DEF ItemType
  <2>5. spoiled' \in SUBSET (Files \X Nat) BY <1>1, <2>4 DEF DiscoveryIInv, ShapeInv
  <2> QED BY <1>1, <2>2, <2>5 DEF DiscoveryIInv, ShapeInv
<1>5. PollInv'
  <2>1. poll' \in [pc : {"idle", "stat", "read"}, todo : SUBSET (Files \X Statuses),
                   len : Nat, got : Seq(ItemType)]
    BY <1>1, EmptySeq DEF NoPoll
  <2> QED BY <1>2, <2>1, HoldsNothing DEF PollInv
<1>6. SkipInv'
  <2>1. \A f, i : GotTurn(f, i) => <<f, i>> \in spoiled' BY <1>3 DEF GotTurn
  <2>2. \A f, i : <<f, i>> \in spoiled => <<f, i>> \in spoiled' BY <1>1
  <2> QED BY <1>1, <2>1, <2>2 DEF DiscoveryIInv, SkipInv
<1>7. TwiceInv'
  <2>1. \A f \in Files : Length(f)' = Length(f) BY <1>1 DEF Length, Whole
  <2>2. \A f \in Files : \A i \in 1..Len(lines[f]) :
           Times(f, i)' \in Nat /\ Times(f, i)' <= Times(f, i)
    <3> TAKE f \in Files
    <3> TAKE i \in 1..Len(lines[f])
    <3>1. Times(f, i)' = told[f][i] + Turns(f, i)' BY <1>1 DEF Times
    <3>2. Turns(f, i)' = 0 BY <1>2, HoldsNothing
    <3>3. told[f][i] \in Nat /\ Turns(f, i) \in Nat /\ Times(f, i) = told[f][i] + Turns(f, i)
      BY InvFacts
    <3> QED BY <3>1, <3>2, <3>3
  <2> SUFFICES ASSUME NEW f \in Files, NEW i \in 1..Len(lines[f])
               PROVE  /\ Times(f, i)' <= 2
                      /\ 2 * (i - 1) >= cursors[f] => Times(f, i)' <= 1
                      /\ Times(f, i)' > 0 => 2 * i <= Length(f)
    BY <1>1, <1>2, <2>1 DEF TwiceInv
  <2>3. /\ Times(f, i) <= 2
        /\ 2 * (i - 1) >= cursors[f] => Times(f, i) <= 1
        /\ Times(f, i) > 0 => 2 * i <= Length(f)
    BY DEF DiscoveryIInv, TwiceInv
  <2>4. /\ Times(f, i) \in Nat /\ Times(f, i)' \in Nat /\ Times(f, i)' <= Times(f, i)
    BY <2>2, InvFacts
  <2> QED BY <2>3, <2>4
<1>8. StatusInv'
  <2>1. \A f : Whole(f)' = Whole(f) BY <1>1 DEF Whole
  <2>2. \A f, e : LastStatus(f, e)' = LastStatus(f, e) BY <1>1 DEF LastStatus
  <2>3. \A f : Unspoiled(f)' => Unspoiled(f) BY <1>1 DEF Unspoiled
  <2>4. ASSUME NEW f \in Files, Unspoiled(f)' PROVE StatusOf(f)' = StatusOf(f)
    <3>1. \A k \in 1..Len(poll.got) : poll.got[k].file # f BY <1>3, <2>4 DEF Unspoiled
    <3>2. \A k \in 1..Len(poll.got) : ~SaysAt(poll.got, k, f) BY <3>1 DEF SaysAt
    <3>3. StatusOf(f) = status[f] BY <3>2, InvFacts, NothingSaidYet, TurnsAndStatus
    <3> QED BY <1>1, <1>2, <3>3, HoldsNothing
  <2> SUFFICES ASSUME NEW f \in Files, Unspoiled(f)', lines[f] # <<>>
               PROVE  \E e \in 0..Whole(f) :
                         /\ cursors[f] <= 2 * e
                         /\ LastStatus(f, e) # NoStatus => StatusOf(f)' = LastStatus(f, e)
    BY <1>1, <2>1, <2>2 DEF StatusInv
  <2>5. Unspoiled(f) /\ StatusOf(f)' = StatusOf(f) BY <2>3, <2>4
  <2> QED BY <2>5 DEF DiscoveryIInv, StatusInv
<1> QED BY <1>4, <1>5, <1>6, <1>7, <1>8 DEF DiscoveryIInv

LEMMA StatsFileKeeps ==
    ASSUME DiscoveryIInv, StatsFile
    PROVE  DiscoveryIInv'
<1> DEFINE t == FirstOf(poll.todo)
           f == t[1]
           got == IF f \in seen THEN poll.got ELSE Append(poll.got, Sight(t))
<1>1. /\ UNCHANGED <<kindOf, lines, half, recent, told, status, spoiled>>
      /\ seen' = seen \cup {f} /\ poll.pc = "stat" /\ poll.todo # {}
      /\ \/ /\ Length(f) > cursors[f] /\ cursors' = cursors
            /\ poll' = [poll EXCEPT !.pc = "read", !.len = Length(f), !.got = got]
         \/ /\ ~(Length(f) > cursors[f])
            /\ poll' = [poll EXCEPT !.todo = @ \ {t}, !.got = got]
            /\ cursors' = [cursors EXCEPT ![f] = Length(f)]
  BY DEF StatsFile, files, delivered
<1>2. poll \in [pc : {"idle", "stat", "read"}, todo : SUBSET (Files \X Statuses),
                len : Nat, got : Seq(ItemType)]
  BY DEF DiscoveryIInv, PollInv
<1>3. poll.todo \in SUBSET (Files \X Statuses) BY <1>2
<1>4. t \in poll.todo /\ t \in Files \X Statuses /\ f \in Files BY <1>1, <1>3, FirstIs
<1>5. Reading = f BY DEF Reading
<1> HIDE DEF t
<1>6. Sight(t) \in ItemType /\ Sight(t).file = f /\ Sight(t).line = 0 /\ ~Sight(t).turn
  BY <1>4, SightIs
<1>7. /\ Len(lines[f]) \in Nat /\ Whole(f) \in Nat /\ Whole(f) <= Len(lines[f])
      /\ Len(lines[f]) <= Whole(f) + 1 /\ Length(f) = Len(lines[f]) + Whole(f)
      /\ Length(f) \in Nat /\ cursors[f] \in Nat
  BY <1>4, LengthIs, InvFacts DEF DiscoveryIInv
<1>8. /\ Extends(poll.got, got)
      /\ \A k \in Len(poll.got) + 1..Len(got) : f \notin seen /\ got[k] = Sight(t)
  <2>1. poll.got \in Seq(ItemType) /\ Len(poll.got) \in Nat BY InvFacts
  <2>2. CASE f \in seen
    <3>1. got = poll.got BY <2>2
    <3> HIDE DEF got
    <3> QED BY <2>1, <3>1 DEF Extends
  <2>3. CASE f \notin seen
    <3>1. got = Append(poll.got, Sight(t)) BY <2>3
    <3> HIDE DEF got
    <3> DEFINE n == Len(poll.got)
    <3>2. /\ got \in Seq(ItemType) /\ Len(got) = n + 1 /\ got[n + 1] = Sight(t)
          /\ \A k \in 1..n : got[k] = poll.got[k]
      BY <1>6, <2>1, <3>1, AppendProperties
    <3>3. n \in Nat BY <2>1
    <3> HIDE DEF n
    <3>4. \A k \in n + 1..n + 1 : k = n + 1 BY <3>3
    <3>5. n <= n + 1 BY <3>3
    <3> QED BY <2>1, <2>3, <3>2, <3>4, <3>5 DEF Extends, n
  <2> QED BY <2>2, <2>3
<1> HIDE DEF got
<1>9. /\ poll'.got = got /\ poll'.pc \in {"stat", "read"} /\ poll'.len \in Nat
      /\ poll'.todo \in SUBSET poll.todo
      /\ poll' \in [pc : {"idle", "stat", "read"}, todo : SUBSET (Files \X Statuses),
                    len : Nat, got : Seq(ItemType)]
      /\ poll'.pc = "read" => /\ poll'.todo = poll.todo /\ poll'.len = Length(f)
                              /\ cursors' = cursors /\ cursors[f] < Length(f)
  <2>1. got \in Seq(ItemType) BY <1>8 DEF Extends
  <2>2. CASE /\ Length(f) > cursors[f] /\ cursors' = cursors
             /\ poll' = [poll EXCEPT !.pc = "read", !.len = Length(f), !.got = got]
    BY <1>2, <1>3, <1>7, <2>1, <2>2
  <2>3. CASE poll' = [poll EXCEPT !.todo = @ \ {t}, !.got = got]
    BY <1>1, <1>2, <1>3, <2>1, <2>3
  <2> QED BY <1>1, <2>2, <2>3
<1>10. /\ cursors' \in [Files -> Nat] /\ \A g \in Files : cursors'[g] \in Nat /\ cursors'[g] <= cursors[g]
       /\ \A g \in Files : cursors'[g] # cursors[g] => g = f /\ cursors'[f] = Length(f)
  <2>1. cursors \in [Files -> Nat] BY DEF DiscoveryIInv, ShapeInv
  <2>2. CASE cursors' = cursors BY <2>1, <2>2
  <2>3. CASE ~(Length(f) > cursors[f]) /\ cursors' = [cursors EXCEPT ![f] = Length(f)]
    <3>1. cursors' \in [Files -> Nat] BY <1>7, <2>1, <2>3
    <3>2. cursors'[f] = Length(f) /\ Length(f) <= cursors[f] BY <1>4, <1>7, <2>1, <2>3
    <3>3. \A g \in Files : g # f => cursors'[g] = cursors[g] BY <2>1, <2>3
    <3>4. \A g \in Files : cursors[g] \in Nat BY <2>1
    <3> QED BY <3>1, <3>2, <3>3, <3>4
  <2> QED BY <1>1, <2>2, <2>3
<1>11. /\ \A g, i : i # 0 => Turns(g, i)' = Turns(g, i)
       /\ \A g : g # f \/ f \in seen => StatusOf(g)' = StatusOf(g)
  <2>1. poll'.got \in Seq(ItemType) BY <1>8, <1>9 DEF Extends
  <2>2. ASSUME NEW g, NEW i, i # 0 PROVE Turns(g, i)' = Turns(g, i)
    <3>1. \A k \in Len(poll.got) + 1..Len(got) : ~TurnAt(got, k, g, i)
      BY <1>6, <1>8 DEF TurnAt
    <3>2. TurnsIn(got, g, i) = TurnsIn(poll.got, g, i) BY <1>8, <3>1, TurnsKept
    <3> QED BY <1>9, <2>1, <3>2, InvFacts, TurnsAndStatus
  <2>3. ASSUME NEW g, g # f \/ f \in seen PROVE StatusOf(g)' = StatusOf(g)
    <3>1. \A k \in Len(poll.got) + 1..Len(got) : ~SaysAt(got, k, g)
      BY <1>6, <1>8, <2>3 DEF SaysAt
    <3>2. LastIn(got, g, status[g]) = LastIn(poll.got, g, status[g]) BY <1>8, <3>1, LastKept
    <3> QED BY <1>1, <1>9, <2>1, <3>2, InvFacts, TurnsAndStatus
  <2> QED BY <2>2, <2>3
<1>12. (\A g : Whole(g)' = Whole(g)) /\ (\A g : Length(g)' = Length(g))
       /\ (\A g, i : Item(g, i)' = Item(g, i)) /\ (\A g : Unspoiled(g)' = Unspoiled(g))
       /\ (\A g, e : LastStatus(g, e)' = LastStatus(g, e))
  BY <1>1 DEF Whole, Length, Item, Unspoiled, LastStatus
<1>13. ShapeInv'
  <2>1. \A g \in Files \ seen' : cursors'[g] = 0
    <3> TAKE g \in Files \ seen'
    <3>1. cursors[g] = 0 /\ g # f BY <1>1 DEF DiscoveryIInv, ShapeInv
    <3> QED BY <1>10, <3>1
  <2> QED BY <1>1, <1>4, <1>10, <2>1 DEF DiscoveryIInv, ShapeInv
<1>14. PollInv'
  <2>1. ASSUME NEW k \in 1..Len(got) PROVE GotItem(got[k])
    <3>1. Len(poll.got) \in Nat /\ Len(got) \in Nat BY <1>8, LenProperties DEF Extends
    <3>2. k \in 1..Len(poll.got) \/ k \in Len(poll.got) + 1..Len(got) BY <3>1
    <3>3. CASE k \in 1..Len(poll.got)
      <4>1. got[k] = poll.got[k] /\ GotItem(got[k]) BY <1>8, <3>3, InvFacts DEF Extends
      <4> QED BY <4>1
    <3>4. CASE k \in Len(poll.got) + 1..Len(got)
      <4>1. got[k] = Sight(t) BY <1>8, <3>4
      <4>2. got[k].file = f /\ got[k].line = 0 /\ ~got[k].turn BY <1>6, <4>1
      <4>3. 0 <= Whole(f) /\ ~(0 > 0) BY <1>7
      <4> QED BY <4>2, <4>3 DEF GotItem
    <3> QED BY <3>2, <3>3, <3>4
  <2>2. poll'.pc = "read" => /\ poll'.todo # {} /\ Reading' = f /\ f \in seen'
                             /\ cursors'[f] < poll'.len /\ poll'.len <= Length(f)
    BY <1>1, <1>5, <1>7, <1>9 DEF Reading
  <2>3. poll'.pc # "idle" BY <1>9
  <2>4. \A x : GotItem(x)' <=> GotItem(x) BY <1>12 DEF GotItem
  <2>5. \A k \in 1..Len(poll'.got) : GotItem(poll.got[k])' BY <1>9, <2>1, <2>4
  <2> QED BY <1>9, <1>12, <2>2, <2>3, <2>5 DEF PollInv
<1>15. SkipInv'
  <2> SUFFICES ASSUME NEW g \in Files, NEW i \in 1..Len(lines[g]),
                      2 * i <= cursors'[g], IsTurn(kindOf[g], lines[g][i])
               PROVE  told[g][i] > 0 \/ <<g, i>> \in spoiled \/ GotTurn(g, i)'
    BY <1>1 DEF SkipInv
  <2>1. 2 * i <= cursors[g]
    <3>1. cursors[g] \in Nat /\ cursors'[g] \in Nat /\ cursors'[g] <= cursors[g] /\ i \in Nat
      BY <1>10, InvFacts, LenProperties
    <3> QED BY <3>1
  <2>2. told[g][i] > 0 \/ <<g, i>> \in spoiled \/ GotTurn(g, i)
    BY <2>1 DEF DiscoveryIInv, SkipInv
  <2>3. GotTurn(g, i) => GotTurn(g, i)'
    <3>1. Len(poll.got) \in Nat /\ Len(got) \in Nat /\ Len(poll.got) <= Len(got)
      BY <1>8, LenProperties DEF Extends
    <3>2. \A k \in 1..Len(poll.got) : k \in 1..Len(got) /\ got[k] = poll.got[k]
      BY <1>8, <3>1 DEF Extends
    <3> QED BY <1>9, <3>2 DEF GotTurn
  <2> QED BY <2>2, <2>3
<1>16. TwiceInv'
  <2> SUFFICES ASSUME NEW g \in Files, NEW i \in 1..Len(lines[g])
               PROVE  /\ Times(g, i)' <= 2
                      /\ 2 * (i - 1) >= cursors'[g] => Times(g, i)' <= 1
                      /\ Times(g, i)' > 0 => 2 * i <= Length(g)
                      /\ poll'.pc = "read" /\ g = f /\ 2 * (i - 1) >= poll'.len
                            => Times(g, i)' = 0
    BY <1>1, <1>5, <1>9, <1>12 DEF TwiceInv, Reading
  <2>1. i \in Nat /\ i # 0 /\ Len(lines[g]) \in Nat /\ i <= Len(lines[g])
    BY <1>4, InvFacts, LenProperties
  <2>2. Times(g, i)' = Times(g, i) BY <1>1, <1>11, <2>1 DEF Times
  <2>3. /\ Times(g, i) <= 2
        /\ 2 * (i - 1) >= cursors[g] => Times(g, i) <= 1
        /\ Times(g, i) > 0 => 2 * i <= Length(g)
    BY DEF DiscoveryIInv, TwiceInv
  <2>4. g = f => ~(2 * (i - 1) >= Length(f)) BY <1>7, <2>1
  <2>5. 2 * (i - 1) >= cursors'[g] => Times(g, i) <= 1
    <3>1. CASE cursors'[g] = cursors[g] BY <2>3, <3>1
    <3>2. CASE cursors'[g] # cursors[g] BY <1>10, <2>4, <3>2
    <3> QED BY <3>1, <3>2
  <2>6. poll'.pc = "read" /\ g = f /\ 2 * (i - 1) >= poll'.len => FALSE BY <1>9, <2>4
  <2> QED BY <2>2, <2>3, <2>5, <2>6
<1>17. StatusInv'
  <2> SUFFICES ASSUME NEW g \in Files, Unspoiled(g), lines[g] # <<>>
               PROVE  \E e \in 0..Whole(g) :
                         /\ cursors'[g] <= 2 * e
                         /\ LastStatus(g, e) # NoStatus => StatusOf(g)' = LastStatus(g, e)
    BY <1>1, <1>12 DEF StatusInv
  <2>1. CASE g # f \/ f \in seen
    <3>1. PICK e \in 0..Whole(g) :
             /\ cursors[g] <= 2 * e
             /\ LastStatus(g, e) # NoStatus => StatusOf(g) = LastStatus(g, e)
      BY DEF DiscoveryIInv, StatusInv
    <3>2. cursors'[g] <= 2 * e
      <4>1. cursors[g] \in Nat /\ cursors'[g] \in Nat /\ cursors'[g] <= cursors[g] /\ e \in Nat
        BY <1>10, InvFacts
      <4> QED BY <3>1, <4>1
    <3>3. StatusOf(g)' = StatusOf(g) BY <1>11, <2>1
    <3> QED BY <3>1, <3>2, <3>3
  <2>2. CASE g = f /\ f \notin seen
    <3>1. cursors[f] = 0 BY <1>4, <2>2 DEF DiscoveryIInv, ShapeInv
    <3>2. cursors'[f] \in Nat /\ cursors'[f] <= 0 BY <1>4, <1>10, <3>1
    <3>3. 0 \in 0..Whole(f) /\ LastStatus(f, 0) = NoStatus BY <1>4, <1>7, LastStatusIs
    <3>4. cursors'[f] <= 2 * 0 BY <3>2
    <3> QED BY <2>2, <3>3, <3>4
  <2> QED BY <2>1, <2>2
<1> QED BY <1>13, <1>14, <1>15, <1>16, <1>17 DEF DiscoveryIInv

(* A read from cursor c makes out the lines that start at or after it.     *)
LEMMA FirstLine ==
    ASSUME NEW c \in Nat
    PROVE  /\ (c + 1) \div 2 \in Nat
           /\ c <= 2 * ((c + 1) \div 2) /\ 2 * ((c + 1) \div 2) <= c + 1
OBVIOUS

LEMMA LinesRead ==
    ASSUME ShapeInv, NEW f \in Files, cursors[f] < Length(f)
    PROVE  LET skip == (cursors[f] + 1) \div 2
               new == {i \in Lines(f, cursors[f]) : 2 * i <= Length(f)}
           IN  /\ skip \in 0..Whole(f)
               /\ \A i \in Nat : 2 * (i - 1) >= cursors[f] <=> i > skip
               /\ \A i \in Nat : i \in Lines(f, cursors[f]) <=> i \in skip + 1..Whole(f)
               /\ Cardinality(new) = Whole(f) - skip
<1> DEFINE c == cursors[f]
           skip == (c + 1) \div 2
           W == Whole(f)
           L == Len(lines[f])
           new == {i \in Lines(f, c) : 2 * i <= Length(f)}
<1>1. c \in Nat BY DEF ShapeInv
<1>2. skip \in Nat /\ c <= 2 * skip /\ 2 * skip <= c + 1 BY <1>1, FirstLine
<1>3. W \in Nat /\ L \in Nat /\ W <= L /\ L <= W + 1 /\ Length(f) = L + W BY LengthIs
<1>4. c < L + W BY <1>3
<1>5. Lines(f, c) = {i \in 1..W : 2 * (i - 1) >= c} BY DEF Lines
<1> HIDE DEF c, skip, W, L
<1>6. skip \in 0..W BY <1>1, <1>2, <1>3, <1>4
<1>7. \A i \in Nat : 2 * (i - 1) >= c <=> i > skip BY <1>1, <1>2
<1>8. \A i \in Nat : i \in Lines(f, c) <=> i \in skip + 1..W BY <1>2, <1>3, <1>5, <1>7
<1>9. \A i \in Lines(f, c) : i \in Nat /\ 2 * i <= Length(f) BY <1>3, <1>5
<1>10. new = skip + 1..W
  <2>1. \A i \in skip + 1..W : i \in Nat BY <1>2
  <2> QED BY <1>8, <1>9, <2>1
<1>11. Cardinality(skip + 1..W) = IF skip + 1 > W THEN 0 ELSE W - (skip + 1) + 1
  <2>1. skip + 1 \in Int /\ W \in Int BY <1>2, <1>3
  <2> QED BY <2>1, FS_Interval
<1> HIDE DEF new
<1>12. Cardinality(new) = W - skip BY <1>2, <1>3, <1>6, <1>10, <1>11
<1> QED BY <1>6, <1>7, <1>8, <1>12 DEF c, skip, W, L, new

(* What a read adds to what the poll has got: the lines after skip.        *)
ReadLines(got, more, f, skip, n) ==
    /\ Extends(got, more) /\ Len(got) \in Nat /\ Len(more) = Len(got) + n
    /\ \A i \in 1..n : more[Len(got) + i] = Item(f, skip + i)
    /\ \A k \in Len(got) + 1..Len(more) :
          k - Len(got) \in 1..n /\ more[k] = Item(f, skip + (k - Len(got)))

LEMMA ReadGets ==
    ASSUME NEW got \in Seq(ItemType), NEW f \in Files, NEW skip \in Nat, NEW n \in Nat,
           NEW new \in [1..n -> ItemType], \A i \in 1..n : new[i] = Item(f, skip + i)
    PROVE  ReadLines(got, got \o new, f, skip, n)
<1> DEFINE more == got \o new
<1>1. new \in Seq(ItemType) BY DEF Seq
<1>2. Len(new) = n BY <1>1, LenProperties
<1>3. /\ more \in Seq(ItemType) /\ Len(got) \in Nat /\ Len(new) \in Nat
      /\ Len(more) = Len(got) + Len(new)
      /\ \A k \in 1..Len(got) : more[k] = got[k]
      /\ \A k \in 1..Len(new) : more[Len(got) + k] = new[k]
  BY <1>1, ConcatPositions
<1> HIDE DEF more
<1> DEFINE m == Len(got)
<1>4. Len(more) = m + n BY <1>2, <1>3
<1>5. m \in Nat BY <1>3
<1>6. m <= m + n BY <1>5
<1>7. Extends(got, more) BY <1>3, <1>4, <1>6 DEF Extends
<1>8. \A i \in 1..n : more[m + i] = Item(f, skip + i) BY <1>2, <1>3
<1> HIDE DEF m
<1>9. \A k \in m + 1..m + n : k - m \in 1..n /\ k = m + (k - m) BY <1>5
<1>10. \A k \in m + 1..m + n : k - m \in 1..n /\ more[k] = Item(f, skip + (k - m))
  BY <1>8, <1>9
<1>11. ReadLines(got, more, f, skip, n) BY <1>4, <1>5, <1>7, <1>8, <1>10 DEF m, ReadLines
<1> QED BY <1>11 DEF more

LEMMA ReadsFileKeeps ==
    ASSUME DiscoveryIInv, ReadsFile
    PROVE  DiscoveryIInv'
<1> DEFINE f == Reading
           c == cursors[f]
           skip == (c + 1) \div 2
           new == {i \in Lines(f, c) : 2 * i <= Length(f)}
           n == Cardinality(new)
           more == poll.got \o [i \in 1..n |-> Item(f, skip + i)]
           rest == poll.todo \ {FirstOf(poll.todo)}
           W == Whole(f)
           L == Len(lines[f])
           m == Len(poll.got)
           len == poll.len
<1>1. /\ UNCHANGED <<kindOf, lines, half, recent, seen, told, status>>
      /\ poll.pc = "read"
      /\ cursors' = [cursors EXCEPT ![f] = len]
      /\ poll' = [pc |-> "stat", todo |-> rest, len |-> 0, got |-> more]
      /\ spoiled' = spoiled \cup ({f} \X Torn(f, c))
  BY DEF ReadsFile, Read, files, delivered
<1>2. poll \in [pc : {"idle", "stat", "read"}, todo : SUBSET (Files \X Statuses),
                len : Nat, got : Seq(ItemType)]
  BY DEF DiscoveryIInv, PollInv
<1>3. f \in Files
  <2>1. poll.todo \in SUBSET (Files \X Statuses) /\ poll.todo # {}
    BY <1>1, <1>2 DEF DiscoveryIInv, PollInv
  <2> QED BY <2>1, FirstIs DEF Reading
<1>4. f \in seen /\ c < len /\ len <= Length(f) /\ len \in Nat
  BY <1>1, <1>2 DEF DiscoveryIInv, PollInv
<1>5. ShapeInv /\ cursors \in [Files -> Nat] BY DEF DiscoveryIInv, ShapeInv
<1>6. /\ c \in Nat /\ W \in Nat /\ L \in Nat /\ W <= L /\ L <= W + 1 /\ Length(f) = L + W
      /\ f \notin half => L = W
      /\ f \in half => L = W + 1
  BY <1>3, <1>5, LengthIs
<1>7. /\ skip \in 0..W
      /\ \A i \in Nat : 2 * (i - 1) >= c <=> i > skip
      /\ \A i \in Nat : i \in Lines(f, c) <=> i \in skip + 1..W
      /\ n = W - skip
  <2>1. c < Length(f) BY <1>4, <1>6
  <2> QED BY <1>3, <1>5, <2>1, LinesRead
<1>8. Torn(f, c) = {i \in 1..L : 2 * i > c} \ Lines(f, c) BY DEF Torn
<1>9. (\A g : Whole(g)' = Whole(g)) /\ (\A g : Length(g)' = Length(g))
      /\ (\A g, i : Item(g, i)' = Item(g, i))
      /\ (\A g, e : LastStatus(g, e)' = LastStatus(g, e))
  BY <1>1 DEF Whole, Length, Item, LastStatus
<1> HIDE DEF f, c, skip, new, n, rest, W, L, m, len
<1>10. /\ Extends(poll.got, more) /\ m \in Nat /\ Len(more) = m + n
       /\ \A i \in 1..n : more[m + i] = Item(f, skip + i)
       /\ \A k \in m + 1..Len(more) : k - m \in 1..n /\ more[k] = Item(f, skip + (k - m))
  <2> DEFINE got == poll.got
  <2>1. n \in Nat /\ skip \in Nat /\ got \in Seq(ItemType) BY <1>2, <1>6, <1>7
  <2> DEFINE add == [i \in 1..n |-> Item(f, skip + i)]
  <2>2. \A i \in 1..n : Item(f, skip + i) \in ItemType
    <3>1. \A i \in 1..n : skip + i \in Nat BY <2>1
    <3> QED BY <1>3, <3>1, ItemIs
  <2>3. add \in [1..n -> ItemType] /\ \A i \in 1..n : add[i] = Item(f, skip + i) BY <2>2
  <2>4. more = got \o add OBVIOUS
  <2> HIDE DEF more, add, got
  <2>5. ReadLines(got, got \o add, f, skip, n) BY <1>3, <2>1, <2>3, ReadGets
  <2> QED BY <2>4, <2>5 DEF ReadLines, m, got
<1>11. /\ poll'.got = more /\ poll'.pc = "stat" /\ poll'.todo = rest /\ poll'.len = 0
       /\ poll.got \in Seq(ItemType) /\ more \in Seq(ItemType)
       /\ rest \in SUBSET (Files \X Statuses)
  BY <1>1, <1>2, <1>10 DEF Extends, rest
<1>12. skip \in Nat /\ n \in Nat /\ skip + n = W BY <1>6, <1>7
<1> HIDE DEF more
(* The items added are the lines after skip, one each.                     *)
<1>13. ASSUME NEW k \in m + 1..Len(more)
       PROVE  \E i \in skip + 1..W : i \in Nat /\ more[k] = Item(f, i) /\ i = skip + (k - m)
  <2>1. k - m \in 1..n /\ more[k] = Item(f, skip + (k - m)) BY <1>10
  <2>2. skip + (k - m) \in skip + 1..W /\ skip + (k - m) \in Nat
    <3>1. \A j \in 1..n : skip + j \in skip + 1..W /\ skip + j \in Nat BY <1>12
    <3> QED BY <2>1, <3>1
  <2> QED BY <2>1, <2>2
<1>14. /\ cursors' \in [Files -> Nat] /\ cursors'[f] = len
       /\ \A g \in Files : g # f => cursors'[g] = cursors[g]
  BY <1>1, <1>3, <1>4, <1>5
<1>15. /\ \A g, i : g # f \/ i \notin skip + 1..W => Turns(g, i)' = Turns(g, i)
       /\ \A g, i : Turns(g, i)' <= Turns(g, i) + 1
  <2>1. ASSUME NEW g, NEW i, g # f \/ i \notin skip + 1..W
        PROVE  Turns(g, i)' = Turns(g, i)
    <3>1. ASSUME NEW k \in m + 1..Len(more) PROVE ~TurnAt(more, k, g, i)
      <4>1. PICK j \in skip + 1..W : j \in Nat /\ more[k] = Item(f, j) BY <1>13
      <4>2. more[k].file = f /\ more[k].line = j BY <1>3, <4>1, ItemIs
      <4> QED BY <2>1, <4>2 DEF TurnAt
    <3>2. TurnsIn(more, g, i) = TurnsIn(poll.got, g, i) BY <1>10, <3>1, TurnsKept DEF m
    <3> QED BY <1>11, <3>2, TurnsAndStatus
  <2>2. ASSUME NEW g, NEW i PROVE Turns(g, i)' <= Turns(g, i) + 1
    <3>1. ASSUME NEW j \in m + 1..Len(more), NEW k \in m + 1..Len(more),
                 TurnAt(more, j, g, i), TurnAt(more, k, g, i)
          PROVE  j = k
      <4>1. PICK a \in skip + 1..W : a \in Nat /\ more[j] = Item(f, a) /\ a = skip + (j - m)
        BY <1>13
      <4>2. PICK b \in skip + 1..W : b \in Nat /\ more[k] = Item(f, b) /\ b = skip + (k - m)
        BY <1>13
      <4>3. more[j].line = a /\ more[k].line = b BY <1>3, <4>1, <4>2, ItemIs
      <4>4. a = b BY <3>1, <4>3 DEF TurnAt
      <4> QED BY <1>10, <1>12, <4>1, <4>2, <4>4
    <3>2. TurnsIn(more, g, i) <= TurnsIn(poll.got, g, i) + 1 BY <1>10, <3>1, TurnsGrow DEF m
    <3> QED BY <1>11, <3>2, TurnsAndStatus
  <2> QED BY <2>1, <2>2
<1>16. ShapeInv'
  <2>1. Torn(f, c) \subseteq Nat BY <1>6, <1>8
  <2>2. spoiled' \in SUBSET (Files \X Nat) BY <1>1, <1>3, <2>1 DEF DiscoveryIInv, ShapeInv
  <2>3. \A g \in Files \ seen' : cursors'[g] = 0
    BY <1>1, <1>4, <1>14 DEF DiscoveryIInv, ShapeInv
  <2> QED BY <1>1, <1>14, <2>2, <2>3 DEF DiscoveryIInv, ShapeInv
<1>17. PollInv'
  <2>1. ASSUME NEW k \in 1..Len(more) PROVE GotItem(more[k])
    <3>1. k \in 1..m \/ k \in m + 1..Len(more) BY <1>10, <1>12
    <3>2. CASE k \in 1..m
      <4>1. more[k] = poll.got[k] BY <1>10, <3>2 DEF Extends, m
      <4> QED BY <3>2, <4>1, InvFacts DEF m
    <3>3. CASE k \in m + 1..Len(more)
      <4>1. PICK i \in skip + 1..W : i \in Nat /\ more[k] = Item(f, i) BY <1>13, <3>3
      <4>2. more[k].file = f /\ more[k].line = i BY <1>3, <4>1, ItemIs
      <4>3. i <= Whole(f) /\ i # 0 BY <1>6, <1>12, <4>1 DEF W
      <4> QED BY <4>1, <4>2, <4>3 DEF GotItem
    <3> QED BY <3>1, <3>2, <3>3
  <2>2. \A x : GotItem(x)' <=> GotItem(x) BY <1>9 DEF GotItem
  <2>3. \A k \in 1..Len(poll'.got) : GotItem(poll.got[k])' BY <1>11, <2>1, <2>2
  <2>4. poll' \in [pc : {"idle", "stat", "read"}, todo : SUBSET (Files \X Statuses),
                   len : Nat, got : Seq(ItemType)]
    BY <1>1, <1>11
  <2> QED BY <1>11, <2>3, <2>4 DEF PollInv
<1>18. SkipInv'
  <2> SUFFICES ASSUME NEW g \in Files, NEW i \in 1..Len(lines[g]),
                      2 * i <= cursors'[g], IsTurn(kindOf[g], lines[g][i])
               PROVE  told[g][i] > 0 \/ <<g, i>> \in spoiled' \/ GotTurn(g, i)'
    BY <1>1 DEF SkipInv
  <2>1. GotTurn(g, i) => GotTurn(g, i)'
    <3>1. \A k \in 1..m : k \in 1..Len(more) /\ more[k] = poll.got[k]
      BY <1>10, <1>12 DEF Extends, m
    <3> QED BY <1>11, <3>1 DEF GotTurn, m
  <2>2. CASE 2 * i <= cursors[g]
    <3>1. told[g][i] > 0 \/ <<g, i>> \in spoiled \/ GotTurn(g, i)
      BY <2>2 DEF DiscoveryIInv, SkipInv
    <3> QED BY <1>1, <2>1, <3>1
  <2>3. CASE ~(2 * i <= cursors[g])
    <3>1. g = f BY <1>14, <2>3
    <3>2. i \in 1..L /\ i \in Nat /\ 2 * i > c BY <1>6, <2>3, <3>1 DEF L, c
    <3>3. CASE i \in Lines(f, c)
      <4>1. i \in skip + 1..W BY <1>7, <3>2, <3>3
      <4> DEFINE j == i - skip
      <4>2. j \in 1..n /\ skip + j = i BY <1>12, <4>1
      <4> HIDE DEF j
      <4>3. more[m + j] = Item(f, i) BY <1>10, <4>2
      <4>4. m + j \in 1..Len(more) BY <1>10, <1>12, <4>2
      <4>5. more[m + j].file = f /\ more[m + j].line = i BY <1>3, <3>2, <4>3, ItemIs
      <4>6. GotTurn(g, i)' BY <1>11, <3>1, <4>4, <4>5 DEF GotTurn
      <4> QED BY <4>6
    <3>4. CASE i \notin Lines(f, c)
      <4>1. i \in Torn(f, c) BY <1>8, <3>2, <3>4
      <4> QED BY <1>1, <3>1, <4>1
    <3> QED BY <3>3, <3>4
  <2> QED BY <2>2, <2>3
<1>19. TwiceInv'
  <2> SUFFICES ASSUME NEW g \in Files, NEW i \in 1..Len(lines[g])
               PROVE  /\ Times(g, i)' <= 2
                      /\ 2 * (i - 1) >= cursors'[g] => Times(g, i)' <= 1
                      /\ Times(g, i)' > 0 => 2 * i <= Length(g)
    BY <1>1, <1>9, <1>11 DEF TwiceInv
  <2>1. i \in Nat BY InvFacts, LenProperties
  <2>2. /\ Times(g, i) <= 2
        /\ 2 * (i - 1) >= cursors[g] => Times(g, i) <= 1
        /\ Times(g, i) > 0 => 2 * i <= Length(g)
        /\ g = f /\ 2 * (i - 1) >= len => Times(g, i) = 0
    BY <1>1 DEF DiscoveryIInv, TwiceInv, f, len
  <2>3. /\ told[g][i] \in Nat /\ Turns(g, i) \in Nat /\ Times(g, i) = told[g][i] + Turns(g, i)
        /\ Turns(g, i)' \in Nat /\ Times(g, i)' = told[g][i] + Turns(g, i)'
    <3>1. Turns(g, i)' \in Nat BY <1>11, TurnsType, TurnsAndStatus
    <3>2. Times(g, i)' = told[g][i] + Turns(g, i)' BY <1>1 DEF Times
    <3> QED BY <3>1, <3>2, InvFacts
  <2>4. CASE g # f \/ i \notin skip + 1..W
    <3>1. Times(g, i)' = Times(g, i) BY <1>15, <2>3, <2>4
    <3>2. g # f => cursors'[g] = cursors[g] BY <1>14
    <3>3. g = f /\ 2 * (i - 1) >= cursors'[g] => Times(g, i) = 0 BY <1>14, <2>2
    <3> QED BY <2>2, <3>1, <3>2, <3>3
  <2>5. CASE g = f /\ i \in skip + 1..W
    <3>1. Times(g, i)' <= Times(g, i) + 1 BY <1>15, <2>3
    <3>2. i > skip /\ i <= W BY <1>6, <1>12, <2>5
    <3>3. 2 * (i - 1) >= c BY <1>7, <2>1, <3>2
    <3>4. Times(g, i) <= 1 BY <2>2, <2>5, <3>3 DEF c
    <3>5. 2 * (i - 1) >= cursors'[g] => Times(g, i) = 0 BY <1>14, <2>2, <2>5
    <3>6. 2 * i <= Length(g) BY <1>6, <2>1, <2>5, <3>2
    <3>7. Times(g, i) \in Nat /\ Times(g, i)' \in Nat BY <2>3
    <3> QED BY <3>1, <3>4, <3>5, <3>6, <3>7
  <2> QED BY <2>4, <2>5
<1>20. StatusInv'
  <2> SUFFICES ASSUME NEW g \in Files, Unspoiled(g)', lines[g] # <<>>
               PROVE  \E e \in 0..Whole(g) :
                         /\ cursors'[g] <= 2 * e
                         /\ LastStatus(g, e) # NoStatus => StatusOf(g)' = LastStatus(g, e)
    BY <1>1, <1>9 DEF StatusInv
  <2>1. Unspoiled(g) BY <1>1 DEF Unspoiled
  <2>2. PICK e \in 0..Whole(g) :
           /\ cursors[g] <= 2 * e
           /\ LastStatus(g, e) # NoStatus => StatusOf(g) = LastStatus(g, e)
    BY <2>1 DEF DiscoveryIInv, StatusInv
  <2>3. StatusOf(g)' = LastIn(more, g, status[g]) /\ StatusOf(g) = LastIn(poll.got, g, status[g])
    BY <1>1, <1>11, TurnsAndStatus
  <2>4. CASE g # f
    <3>1. ASSUME NEW k \in m + 1..Len(more) PROVE ~SaysAt(more, k, g)
      <4>1. PICK j \in skip + 1..W : j \in Nat /\ more[k] = Item(f, j) BY <1>13
      <4> QED BY <1>3, <2>4, <4>1, ItemIs DEF SaysAt
    <3>2. StatusOf(g)' = StatusOf(g) BY <1>10, <2>3, <3>1, LastKept DEF m
    <3> QED BY <1>14, <2>2, <2>4, <3>2
  <2>5. CASE g = f
    <3>1. Torn(f, c) = {}
      <4> SUFFICES ASSUME NEW i \in Torn(f, c) PROVE FALSE OBVIOUS
      <4>1. <<f, i>> \in spoiled' /\ <<f, i>>[1] = g BY <1>1, <2>5
      <4>2. \A s \in spoiled' : s[1] # g BY DEF Unspoiled
      <4> QED BY <4>1, <4>2
    (* The file ends in a whole line.                                      *)
    <3>2. L = W
      <4>1. SUFFICES ASSUME f \in half PROVE FALSE BY <1>6
      <4>2. L \in 1..L /\ L \notin skip + 1..W BY <1>6, <1>12, <4>1
      <4>3. 2 * L > c BY <1>4, <1>6, <4>1
      <4>4. L \in Torn(f, c) BY <1>6, <1>7, <1>8, <4>2, <4>3
      <4> QED BY <3>1, <4>4
    <3>3. W \in 0..Whole(g) /\ cursors'[g] <= 2 * W
      BY <1>4, <1>6, <1>14, <2>5, <3>2 DEF W
    <3>4. ASSUME LastStatus(f, W) # NoStatus PROVE StatusOf(g)' = LastStatus(f, W)
      <4>1. PICK p \in 1..W : /\ Says(f, p) # NoStatus /\ LastStatus(f, W) = Says(f, p)
                              /\ \A i \in p + 1..W : Says(f, i) = NoStatus
        BY <1>3, <1>6, <3>4, LastStatusIs
      (* It says so in a line that was read just now,                      *)
      <4>2. CASE p > skip
        <5> DEFINE j == p - skip  k == m + j
        <5>1. j \in 1..n /\ skip + j = p /\ p \in Nat BY <1>6, <1>12, <4>2
        <5>2. more[k] = Item(f, p) /\ k \in 1..Len(more) BY <1>10, <1>12, <5>1
        <5>3. SaysAt(more, k, f) /\ more[k].status = Says(f, p)
          BY <1>3, <4>1, <5>1, <5>2, ItemIs DEF SaysAt, Says
        <5>4. ASSUME NEW q \in k + 1..Len(more) PROVE ~SaysAt(more, q, f)
          <6>1. q \in m + 1..Len(more) BY <1>10, <1>12, <5>1
          <6>2. PICK a \in skip + 1..W : a \in Nat /\ more[q] = Item(f, a) /\ a = skip + (q - m)
            BY <1>13, <6>1
          <6>3. a \in p + 1..W BY <1>6, <1>10, <1>12, <5>1, <6>2
          <6>4. Says(f, a) = NoStatus BY <4>1, <6>3
          <6> QED BY <1>3, <6>2, <6>4, ItemIs DEF SaysAt, Says
        <5> HIDE DEF j, k
        <5>5. LastIn(more, f, status[g]) = more[k].status BY <1>11, <5>2, <5>3, <5>4, LastIsSaid
        <5> QED BY <2>3, <2>5, <4>1, <5>3, <5>5
      (* or nothing was said since the line that did.                      *)
      <4>3. CASE ~(p > skip)
        <5>1. e \in Nat /\ e <= W /\ skip <= e
          <6>1. c <= 2 * e /\ e \in 0..W BY <2>2, <2>5 DEF c, W
          <6>2. ~(2 * (skip - 1) >= c) \/ skip = 0 BY <1>7, <1>12
          <6> QED BY <1>6, <1>12, <6>1, <6>2
        <5>2. \A i \in e + 1..W : i \in p + 1..W
          <6>1. p <= e BY <1>6, <1>12, <4>3, <5>1
          <6> QED BY <1>6, <5>1, <6>1
        <5>3. LastStatus(f, W) = LastStatus(f, e)
          <6>1. e \in 0..W BY <1>6, <5>1
          <6>2. \A i \in e + 1..W : Says(f, i) = NoStatus BY <4>1, <5>2
          <6> QED BY <1>3, <1>6, <6>1, <6>2, LastStatusKept
        <5>4. ASSUME NEW k \in m + 1..Len(more) PROVE ~SaysAt(more, k, f)
          <6>1. PICK a \in skip + 1..W : a \in Nat /\ more[k] = Item(f, a) BY <1>13
          <6>2. a \in p + 1..W BY <1>6, <1>12, <4>3, <6>1
          <6>3. Says(f, a) = NoStatus BY <4>1, <6>2
          <6> QED BY <1>3, <6>1, <6>3, ItemIs DEF SaysAt, Says
        <5>5. StatusOf(g)' = StatusOf(g) BY <1>10, <2>3, <2>5, <5>4, LastKept DEF m
        <5> QED BY <2>2, <2>5, <3>4, <5>3, <5>5
      <4> QED BY <4>2, <4>3
    <3> QED BY <2>5, <3>3, <3>4
  <2> QED BY <2>4, <2>5
<1> QED BY <1>16, <1>17, <1>18, <1>19, <1>20 DEF DiscoveryIInv

---------------------------------------------------------------------------
(* The agents.  A transcript that has changed becomes the latest.          *)
LEMMA TouchedType ==
    ASSUME recent \in Seq(Files), NEW f \in Files, Touched(f)
    PROVE  recent' \in Seq(Files)
<1> DEFINE n == Len(recent)
<1>1. n \in Nat /\ DOMAIN recent = 1..n /\ \A i \in 1..n : recent[i] \in Files
  BY LenProperties, ElementOfSeq
<1>2. PICK p \in 1..n :
         recent' = [i \in 1..n |-> IF i = 1 THEN f ELSE IF i <= p THEN recent[i - 1] ELSE recent[i]]
  BY <1>1 DEF Touched
<1> HIDE DEF n
<1>3. ASSUME NEW i \in 1..n
      PROVE  (IF i = 1 THEN f ELSE IF i <= p THEN recent[i - 1] ELSE recent[i]) \in Files
  <2>1. i # 1 => i - 1 \in 1..n BY <1>1
  <2> QED BY <1>1, <2>1
<1>4. recent' \in [1..n -> Files] BY <1>2, <1>3
<1> QED BY <1>1, <1>4 DEF Seq

(* Transcripts that only grow keep what was said of the lines they had.    *)
Grows(g) ==
    /\ Len(lines[g]) <= Len(lines'[g]) /\ Len(lines'[g]) \in Nat
    /\ Whole(g) <= Whole(g)' /\ Whole(g)' \in Nat
    /\ Length(g) <= Length(g)' /\ Length(g)' \in Nat
    /\ \A i \in 1..Len(lines[g]) : lines'[g][i] = lines[g][i] /\ told'[g][i] = told[g][i]
    /\ \A i \in Len(lines[g]) + 1..Len(lines'[g]) :
          told'[g][i] = 0 /\ (2 * i <= cursors[g] => <<g, i>> \in spoiled')
    /\ Unspoiled(g)' /\ lines'[g] # <<>> => Unspoiled(g) /\ (lines[g] # <<>> \/ cursors[g] = 0)

LEMMA GrowingKeeps ==
    ASSUME DiscoveryIInv, UNCHANGED <<kindOf, cursors, seen, poll, status>>,
           spoiled \subseteq spoiled', \A g \in Files : Grows(g)
    PROVE  PollInv' /\ SkipInv' /\ TwiceInv' /\ StatusInv'
<1>1. \A g \in Files :
         /\ Len(lines[g]) \in Nat /\ Whole(g) \in Nat /\ Whole(g) <= Len(lines[g])
         /\ Length(g) \in Nat /\ cursors[g] \in Nat
  BY LengthIs, InvFacts DEF DiscoveryIInv
<1>2. PollInv'
  <2>1. ASSUME NEW k \in 1..Len(poll.got) PROVE GotItem(poll.got[k])'
    <3>0. PICK x : x = poll.got[k] OBVIOUS
    <3>1. x \in ItemType /\ GotItem(x) BY <3>0, InvFacts
    <3>2. x.file \in Files /\ x.line \in Nat BY <3>1 DEF ItemType
    <3>3. x.line <= Whole(x.file) /\ (x.line = 0 => ~x.turn)
          /\ (x.line > 0 => x = Item(x.file, x.line))
      BY <3>1 DEF GotItem
    <3>4. x.line <= Whole(x.file)' BY <1>1, <3>2, <3>3 DEF Grows
    <3>5. x.line > 0 => lines'[x.file][x.line] = lines[x.file][x.line]
      <4>1. x.line > 0 => x.line \in 1..Len(lines[x.file]) BY <1>1, <3>2, <3>3
      <4> QED BY <3>2, <4>1 DEF Grows
    <3>6. x.line > 0 => x = Item(x.file, x.line)' BY <3>3, <3>5 DEF Item
    <3>7. GotItem(x)' BY <3>3, <3>4, <3>6 DEF GotItem
    <3> QED BY <3>0, <3>7
  <2>2. poll.pc = "read" => Reading \in Files
    <3>1. poll.todo \in SUBSET (Files \X Statuses) BY DEF DiscoveryIInv, PollInv
    <3>2. poll.pc = "read" => poll.todo # {} BY DEF DiscoveryIInv, PollInv
    <3> QED BY <3>1, <3>2, FirstIs DEF Reading
  <2>3. Reading' = Reading BY DEF Reading
  <2>4. poll.pc = "read" => poll.len \in Nat /\ poll.len <= Length(Reading)'
    <3>1. poll.len \in Nat BY DEF DiscoveryIInv, PollInv
    <3>2. poll.pc = "read" => poll.len <= Length(Reading) BY DEF DiscoveryIInv, PollInv
    <3> DEFINE r == Reading
    <3>3. ASSUME poll.pc = "read"
          PROVE  Length(r) \in Nat /\ Length(Reading)' \in Nat /\ Length(r) <= Length(Reading)'
      <4>1. r \in Files BY <2>2, <3>3
      <4>2. \A g \in Files : Length(g) \in Nat /\ Length(g)' \in Nat /\ Length(g) <= Length(g)'
        BY <1>1 DEF Grows
      <4> QED BY <2>3, <4>1, <4>2
    <3> QED BY <3>1, <3>2, <3>3
  <2> QED BY <2>1, <2>3, <2>4 DEF DiscoveryIInv, PollInv
<1>3. SkipInv'
  <2> SUFFICES ASSUME NEW g \in Files, NEW i \in 1..Len(lines'[g]),
                      2 * i <= cursors[g], IsTurn(kindOf[g], lines'[g][i])
               PROVE  told'[g][i] > 0 \/ <<g, i>> \in spoiled' \/ GotTurn(g, i)
    BY DEF SkipInv, GotTurn
  <2>1. i \in 1..Len(lines[g]) \/ i \in Len(lines[g]) + 1..Len(lines'[g]) BY <1>1 DEF Grows
  <2>2. CASE i \in 1..Len(lines[g])
    <3>1. lines'[g][i] = lines[g][i] /\ told'[g][i] = told[g][i] BY <2>2 DEF Grows
    <3> QED BY <2>2, <3>1 DEF DiscoveryIInv, SkipInv
  <2>3. CASE i \in Len(lines[g]) + 1..Len(lines'[g]) BY <2>3 DEF Grows
  <2> QED BY <2>1, <2>2, <2>3
<1>4. \A g, i : Turns(g, i)' = Turns(g, i) BY DEF Turns
<1>5. TwiceInv'
  <2> SUFFICES ASSUME NEW g \in Files, NEW i \in 1..Len(lines'[g])
               PROVE  /\ Times(g, i)' <= 2
                      /\ 2 * (i - 1) >= cursors[g] => Times(g, i)' <= 1
                      /\ Times(g, i)' > 0 => 2 * i <= Length(g)'
                      /\ poll.pc = "read" /\ g = Reading /\ 2 * (i - 1) >= poll.len
                            => Times(g, i)' = 0
    BY DEF TwiceInv, Reading
  <2>1. i \in 1..Len(lines[g]) \/ i \in Len(lines[g]) + 1..Len(lines'[g]) BY <1>1 DEF Grows
  <2>2. CASE i \in 1..Len(lines[g])
    <3>1. told'[g][i] = told[g][i] BY <2>2 DEF Grows
    <3>2. Times(g, i)' = Times(g, i) BY <1>4, <3>1 DEF Times
    <3>3. /\ Times(g, i) <= 2
          /\ 2 * (i - 1) >= cursors[g] => Times(g, i) <= 1
          /\ Times(g, i) > 0 => 2 * i <= Length(g)
          /\ poll.pc = "read" /\ g = Reading /\ 2 * (i - 1) >= poll.len => Times(g, i) = 0
      BY <2>2 DEF DiscoveryIInv, TwiceInv
    <3>4. 2 * i <= Length(g) => 2 * i <= Length(g)'
      <4>1. i \in Nat BY <1>1, <2>2
      <4>2. Length(g) \in Nat /\ Length(g)' \in Nat /\ Length(g) <= Length(g)' BY <1>1 DEF Grows
      <4> QED BY <4>1, <4>2
    <3> QED BY <3>2, <3>3, <3>4
  <2>3. CASE i \in Len(lines[g]) + 1..Len(lines'[g])
    <3>1. told'[g][i] = 0 BY <2>3 DEF Grows
    <3>2. \A k \in 1..Len(poll.got) : ~TurnAt(poll.got, k, g, i)
      <4> SUFFICES ASSUME NEW k \in 1..Len(poll.got), TurnAt(poll.got, k, g, i) PROVE FALSE
        OBVIOUS
      <4>1. i <= Whole(g) BY InvFacts DEF TurnAt, GotItem
      <4> QED BY <1>1, <2>3, <4>1 DEF Grows
    <3>3. Turns(g, i) = 0 BY <3>2, InvFacts, TurnsType, TurnsAndStatus
    <3>4. Times(g, i)' = 0 BY <1>4, <3>1, <3>3 DEF Times
    <3> QED BY <3>4
  <2> QED BY <2>1, <2>2, <2>3
<1>6. StatusInv'
  <2> SUFFICES ASSUME NEW g \in Files, Unspoiled(g)', lines'[g] # <<>>
               PROVE  \E e \in 0..Whole(g)' :
                         /\ cursors[g] <= 2 * e
                         /\ LastStatus(g, e)' # NoStatus => StatusOf(g)' = LastStatus(g, e)'
    BY DEF StatusInv
  <2>1. StatusOf(g)' = StatusOf(g) BY DEF StatusOf
  <2>2. Whole(g)' \in Nat /\ Whole(g) <= Whole(g)' /\ Whole(g) \in Nat
        /\ Whole(g) <= Len(lines[g]) /\ Len(lines[g]) \in Nat
    BY <1>1 DEF Grows
  <2>3. \A e \in 0..Whole(g) : e \in Nat /\ LastStatus(g, e)' = LastStatus(g, e)
    <3> TAKE e \in 0..Whole(g)
    <3>1. e \in Nat /\ \A i \in 1..e : i \in 1..Len(lines[g]) BY <2>2
    <3>2. \A i \in 1..e : lines'[g][i] = lines[g][i] BY <3>1 DEF Grows
    <3> QED BY <3>1, <3>2, LastStatusStays
  <2>4. CASE lines[g] # <<>>
    <3>1. PICK e \in 0..Whole(g) :
             /\ cursors[g] <= 2 * e
             /\ LastStatus(g, e) # NoStatus => StatusOf(g) = LastStatus(g, e)
      BY <2>4 DEF DiscoveryIInv, StatusInv, Grows
    <3>2. e \in 0..Whole(g)' BY <2>2
    <3> QED BY <2>1, <2>3, <3>1, <3>2
  <2>5. CASE cursors[g] = 0
    <3>1. 0 \in 0..Whole(g) /\ 0 \in 0..Whole(g)' /\ cursors[g] <= 2 * 0 BY <2>2, <2>5
    <3>2. LastStatus(g, 0)' = NoStatus BY <2>2, <2>3, <3>1, LastStatusIs
    <3> QED BY <3>1, <3>2
  <2> QED BY <2>4, <2>5 DEF Grows
<1> QED BY <1>2, <1>3, <1>5, <1>6

LEMMA AgentWritesKeeps ==
    ASSUME DiscoveryIInv, NEW f \in Files, AgentWrites(f)
    PROVE  DiscoveryIInv'
<1>1. PICK l \in LinesOf[kindOf[f]] : lines' = [lines EXCEPT ![f] = Append(@, l)]
  BY DEF AgentWrites
<1>2. /\ f \notin half /\ UNCHANGED <<kindOf, cursors, seen, poll, status>>
      /\ half' = half \/ half' = half \cup {f}
      /\ told' = [told EXCEPT ![f] = Append(@, 0)]
      /\ spoiled' = IF Length(f) < cursors[f] THEN spoiled \cup {<<f, Len(lines[f]) + 1>>}
                    ELSE spoiled
      /\ Touched(f)
  BY DEF AgentWrites
<1>3. /\ kindOf \in [Files -> Kinds] /\ lines \in [Files -> Seq(AnyLine)]
      /\ told \in [Files -> Seq(Nat)] /\ half \in SUBSET Files /\ recent \in Seq(Files)
      /\ spoiled \in SUBSET (Files \X Nat)
      /\ \A g \in half : lines[g] # <<>>
      /\ \A g \in Files : Len(told[g]) = Len(lines[g])
  BY DEF DiscoveryIInv, ShapeInv
<1>4. l \in AnyLine BY <1>3 DEF AnyLine
<1> DEFINE L == Len(lines[f])
<1>5. L \in Nat /\ Whole(f) = L /\ Length(f) = L + L BY <1>2, LengthIs DEF DiscoveryIInv
<1>6. /\ lines' \in [Files -> Seq(AnyLine)] /\ Len(lines'[f]) = L + 1
      /\ \A i \in 1..L : lines'[f][i] = lines[f][i]
      /\ \A g \in Files : g # f => lines'[g] = lines[g]
  <2> DEFINE s == lines[f]  r == Append(s, l)
  <2>1. s \in Seq(AnyLine) BY <1>3
  <2> HIDE DEF s
  <2>2. r \in Seq(AnyLine) /\ Len(r) = Len(s) + 1 /\ \A i \in 1..Len(s) : r[i] = s[i]
    BY <1>4, <2>1, AppendProperties
  <2>3. lines' = [lines EXCEPT ![f] = r] BY <1>1 DEF s
  <2> HIDE DEF r
  <2> QED BY <1>3, <2>2, <2>3 DEF s
<1>7. /\ told' \in [Files -> Seq(Nat)] /\ Len(told'[f]) = L + 1 /\ told'[f][L + 1] = 0
      /\ \A i \in 1..L : told'[f][i] = told[f][i]
      /\ \A g \in Files : g # f => told'[g] = told[g]
  <2> DEFINE s == told[f]  r == Append(s, 0)
  <2>1. s \in Seq(Nat) /\ Len(s) = L BY <1>3
  <2> HIDE DEF s
  <2>2. /\ r \in Seq(Nat) /\ Len(r) = Len(s) + 1 /\ r[Len(s) + 1] = 0
        /\ \A i \in 1..Len(s) : r[i] = s[i]
    BY <2>1, AppendProperties
  <2>3. told' = [told EXCEPT ![f] = r] BY <1>2 DEF s
  <2> HIDE DEF r
  <2> QED BY <1>3, <2>1, <2>2, <2>3 DEF s
<1>8. /\ Whole(f)' = IF f \in half' THEN Len(lines'[f]) - 1 ELSE Len(lines'[f])
      /\ Length(f)' = Len(lines'[f]) + Whole(f)'
  BY DEF Whole, Length
<1> HIDE DEF L
<1>9. /\ Whole(f)' \in Nat /\ L <= Whole(f)' /\ Length(f)' \in Nat /\ L + L <= Length(f)'
  BY <1>5, <1>6, <1>8
<1>10. spoiled \subseteq spoiled' /\ spoiled' \in SUBSET (Files \X Nat)
       /\ (Length(f) < cursors[f] => <<f, L + 1>> \in spoiled')
  <2>1. L + 1 \in Nat BY <1>5
  <2> QED BY <1>2, <1>3, <2>1 DEF L
<1>11. ShapeInv'
  <2>1. \A g \in half' : lines'[g] # <<>>
    <3>1. lines'[f] # <<>> BY <1>5, <1>6, EmptySeq
    <3> QED BY <1>2, <1>3, <1>6, <3>1
  <2>2. \A g \in Files : Len(told'[g]) = Len(lines'[g]) BY <1>3, <1>6, <1>7
  <2>3. recent' \in Seq(Files) BY <1>2, <1>3, TouchedType
  <2>4. half' \in SUBSET Files BY <1>2, <1>3
  <2> QED BY <1>2, <1>6, <1>7, <1>10, <2>1, <2>2, <2>3, <2>4 DEF DiscoveryIInv, ShapeInv
<1>12. ASSUME NEW g \in Files PROVE Grows(g)
  <2>1. CASE g = f
    <3>1. \A i \in L + 1..Len(lines'[f]) : i = L + 1 BY <1>5, <1>6
    <3>2. 2 * (L + 1) <= cursors[f] => <<f, L + 1>> \in spoiled'
      <4>1. cursors[f] \in Nat BY InvFacts
      <4> QED BY <1>5, <1>10, <4>1
    <3>3. Unspoiled(f)' => Unspoiled(f) /\ (lines[f] # <<>> \/ cursors[f] = 0)
      <4> SUFFICES ASSUME Unspoiled(f)'
                   PROVE  Unspoiled(f) /\ (lines[f] # <<>> \/ cursors[f] = 0)
        OBVIOUS
      <4>1. \A s \in spoiled' : s[1] # f BY DEF Unspoiled
      <4>2. Unspoiled(f) BY <1>10, <4>1 DEF Unspoiled
      <4>3. <<f, L + 1>> \notin spoiled' BY <4>1
      <4>4. lines[f] = <<>> => L = 0 BY EmptySeq DEF L
      <4>5. cursors[f] \in Nat BY InvFacts
      <4> QED BY <1>5, <1>10, <4>2, <4>3, <4>4, <4>5
    <3>4. L <= L + 1 /\ L + 1 \in Nat BY <1>5
    <3> QED BY <1>5, <1>6, <1>7, <1>9, <2>1, <3>1, <3>2, <3>3, <3>4 DEF Grows, L
  <2>2. CASE g # f
    <3>1. lines'[g] = lines[g] /\ told'[g] = told[g] /\ (g \in half' <=> g \in half)
      BY <1>2, <1>6, <1>7, <2>2
    <3>2. Whole(g)' = Whole(g) /\ Length(g)' = Length(g) BY <3>1 DEF Whole, Length
    <3>3. Len(lines[g]) \in Nat /\ Whole(g) \in Nat /\ Length(g) \in Nat
      BY LengthIs DEF DiscoveryIInv
    <3>4. \A i \in Len(lines[g]) + 1..Len(lines'[g]) : FALSE BY <3>1, <3>3
    <3>5. Unspoiled(g)' => Unspoiled(g) BY <1>10 DEF Unspoiled
    <3> QED BY <3>1, <3>2, <3>3, <3>4, <3>5 DEF Grows
  <2> QED BY <2>1, <2>2
<1> QED BY <1>2, <1>10, <1>11, <1>12, GrowingKeeps DEF DiscoveryIInv

LEMMA AgentFinishesLineKeeps ==
    ASSUME DiscoveryIInv, NEW f \in Files, AgentFinishesLine(f)
    PROVE  DiscoveryIInv'
<1>1. /\ f \in half /\ half' = half \ {f} /\ Touched(f)
      /\ UNCHANGED <<kindOf, lines, cursors, seen, poll, told, status, spoiled>>
  BY DEF AgentFinishesLine, delivered
<1>2. ShapeInv'
  <2>1. recent' \in Seq(Files) BY <1>1, TouchedType DEF DiscoveryIInv, ShapeInv
  <2> QED BY <1>1, <2>1 DEF DiscoveryIInv, ShapeInv
<1>3. ASSUME NEW g \in Files PROVE Grows(g)
  <2>1. /\ Len(lines[g]) \in Nat /\ Whole(g) \in Nat /\ Whole(g) <= Len(lines[g])
        /\ Length(g) = Len(lines[g]) + Whole(g)
    BY LengthIs DEF DiscoveryIInv
  <2>2. Whole(g)' = Whole(g) \/ Whole(g)' = Len(lines[g])
    <3>1. g # f => (g \in half' <=> g \in half) BY <1>1
    <3>2. f \notin half' BY <1>1
    <3> QED BY <1>1, <3>1, <3>2 DEF Whole
  <2>3. Length(g)' = Len(lines[g]) + Whole(g)' BY <1>1 DEF Length
  <2>4. \A i \in Len(lines[g]) + 1..Len(lines[g]) : FALSE BY <2>1
  <2>5. Unspoiled(g)' /\ lines[g] # <<>> => Unspoiled(g) BY <1>1 DEF Unspoiled
  <2>6. /\ Whole(g)' \in Nat /\ Whole(g) <= Whole(g)'
        /\ Length(g)' \in Nat /\ Length(g) <= Length(g)'
    BY <2>1, <2>2, <2>3
  <2> QED BY <1>1, <2>1, <2>4, <2>5, <2>6 DEF Grows
<1> QED BY <1>1, <1>2, <1>3, GrowingKeeps DEF DiscoveryIInv

LEMMA TruncatedKeeps ==
    ASSUME DiscoveryIInv, NEW f \in Files, Truncated(f)
    PROVE  DiscoveryIInv'
<1>1. /\ poll.pc = "idle" /\ f \notin half
      /\ lines' = [lines EXCEPT ![f] = <<>>]
      /\ told' = [told EXCEPT ![f] = <<>>] /\ status' = [status EXCEPT ![f] = NoStatus]
      /\ spoiled' = {s \in spoiled : s[1] # f}
      /\ UNCHANGED <<kindOf, half, recent, cursors, seen, poll>>
  BY DEF Truncated
<1>2. /\ kindOf \in [Files -> Kinds] /\ lines \in [Files -> Seq(AnyLine)]
      /\ told \in [Files -> Seq(Nat)] /\ status \in [Files -> Statuses]
      /\ spoiled \in SUBSET (Files \X Nat)
  BY DEF DiscoveryIInv, ShapeInv
<1>3. \A S : <<>> \in Seq(S) /\ Len(<<>>) = 0 BY EmptySeq
<1>4. /\ lines'[f] = <<>> /\ Len(lines'[f]) = 0 /\ told'[f] = <<>>
      /\ \A g \in Files : g # f => /\ lines'[g] = lines[g] /\ told'[g] = told[g]
                                   /\ status'[g] = status[g]
  BY <1>1, <1>2, <1>3
<1>5. ShapeInv'
  <2>1. lines' \in [Files -> Seq(AnyLine)] /\ told' \in [Files -> Seq(Nat)] BY <1>1, <1>2, <1>3
  <2>2. status' \in [Files -> Statuses] BY <1>1, <1>2 DEF NoStatus, Statuses
  <2>3. \A g \in Files : Len(told'[g]) = Len(lines'[g]) BY <1>4 DEF DiscoveryIInv, ShapeInv
  <2>4. \A g \in half' : lines'[g] # <<>> BY <1>1, <1>4 DEF DiscoveryIInv, ShapeInv
  <2> QED BY <1>1, <2>1, <2>2, <2>3, <2>4 DEF DiscoveryIInv, ShapeInv
<1>6. poll.got = <<>> /\ poll'.got = <<>> BY <1>1 DEF DiscoveryIInv, PollInv
<1>7. PollInv'
  <2>1. Len(poll'.got) = 0 BY <1>3, <1>6
  <2>2. poll'.pc = "idle" /\ poll'.todo = {} BY <1>1 DEF DiscoveryIInv, PollInv
  <2> QED BY <1>1, <1>6, <2>1, <2>2 DEF DiscoveryIInv, PollInv
<1>8. \A g \in Files : g # f => Whole(g)' = Whole(g) /\ Length(g)' = Length(g)
  BY <1>1, <1>4 DEF Whole, Length
<1>9. SkipInv'
  <2> SUFFICES ASSUME NEW g \in Files, NEW i \in 1..Len(lines'[g]),
                      2 * i <= cursors[g], IsTurn(kindOf[g], lines'[g][i])
               PROVE  told'[g][i] > 0 \/ <<g, i>> \in spoiled' \/ GotTurn(g, i)
    BY <1>1 DEF SkipInv, GotTurn
  <2>1. g # f BY <1>4
  <2>2. told[g][i] > 0 \/ <<g, i>> \in spoiled \/ GotTurn(g, i)
    BY <1>4, <2>1 DEF DiscoveryIInv, SkipInv
  <2>3. <<g, i>> \in spoiled => <<g, i>> \in spoiled' BY <1>1, <2>1
  <2> QED BY <1>4, <2>1, <2>2, <2>3
<1>10. TwiceInv'
  <2> SUFFICES ASSUME NEW g \in Files, NEW i \in 1..Len(lines'[g])
               PROVE  /\ Times(g, i)' <= 2
                      /\ 2 * (i - 1) >= cursors[g] => Times(g, i)' <= 1
                      /\ Times(g, i)' > 0 => 2 * i <= Length(g)'
    BY <1>1 DEF TwiceInv
  <2>1. g # f BY <1>4
  <2>2. Turns(g, i)' = Turns(g, i) BY <1>1 DEF Turns
  <2>3. Times(g, i)' = Times(g, i) BY <1>4, <2>1, <2>2 DEF Times
  <2> QED BY <1>4, <1>8, <2>1, <2>3 DEF DiscoveryIInv, TwiceInv
<1>11. StatusInv'
  <2> SUFFICES ASSUME NEW g \in Files, Unspoiled(g)', lines'[g] # <<>>
               PROVE  \E e \in 0..Whole(g)' :
                         /\ cursors[g] <= 2 * e
                         /\ LastStatus(g, e)' # NoStatus => StatusOf(g)' = LastStatus(g, e)'
    BY <1>1 DEF StatusInv
  <2>1. g # f BY <1>4
  <2>2. Unspoiled(g)
    <3>1. \A s \in spoiled : s[1] = g => s \in spoiled' BY <1>1, <2>1
    <3> QED BY <3>1 DEF Unspoiled
  <2>3. StatusOf(g)' = StatusOf(g) BY <1>1, <1>4, <2>1 DEF StatusOf
  <2>4. \A e : LastStatus(g, e)' = LastStatus(g, e) BY <1>1, <1>4, <2>1 DEF LastStatus
  <2> QED BY <1>4, <1>8, <2>1, <2>2, <2>3, <2>4 DEF DiscoveryIInv, StatusInv
<1> QED BY <1>5, <1>7, <1>9, <1>10, <1>11 DEF DiscoveryIInv

LEMMA DiscoveryStuttering ==
    ASSUME DiscoveryIInv, UNCHANGED discoveryVars
    PROVE  DiscoveryIInv'
<1>1. UNCHANGED <<kindOf, lines, half, recent, cursors, seen, poll, told, status, spoiled>>
  BY DEF discoveryVars, files, delivered
<1>2. ShapeInv' BY <1>1 DEF DiscoveryIInv, ShapeInv
<1>3. ASSUME NEW g \in Files PROVE Grows(g)
  <2>1. Len(lines[g]) \in Nat /\ Whole(g) \in Nat /\ Length(g) \in Nat
    BY LengthIs DEF DiscoveryIInv
  <2>2. Whole(g)' = Whole(g) /\ Length(g)' = Length(g) BY <1>1 DEF Whole, Length
  <2>3. \A i \in Len(lines[g]) + 1..Len(lines[g]) : FALSE BY <2>1
  <2>4. Unspoiled(g)' => Unspoiled(g) BY <1>1 DEF Unspoiled
  <2> QED BY <1>1, <2>1, <2>2, <2>3, <2>4 DEF Grows
<1> QED BY <1>1, <1>2, <1>3, GrowingKeeps DEF DiscoveryIInv

LEMMA DiscoveryIInvNext == DiscoveryIInv /\ [DiscoveryNext]_discoveryVars => DiscoveryIInv'
<1> SUFFICES ASSUME DiscoveryIInv, [DiscoveryNext]_discoveryVars PROVE DiscoveryIInv'
  OBVIOUS
<1>1. CASE PollStarts BY <1>1, PollStartsKeeps
<1>2. CASE StatsFile BY <1>2, StatsFileKeeps
<1>3. CASE ReadsFile BY <1>3, ReadsFileKeeps
<1>4. CASE PollFails BY <1>4, PollFailsKeeps
<1>5. CASE PollEnds BY <1>5, PollEndsKeeps
<1>6. ASSUME NEW f \in Files, AgentWrites(f) PROVE DiscoveryIInv' BY <1>6, AgentWritesKeeps
<1>7. ASSUME NEW f \in Files, AgentFinishesLine(f) PROVE DiscoveryIInv'
  BY <1>7, AgentFinishesLineKeeps
<1>8. ASSUME NEW f \in Files, Truncated(f) PROVE DiscoveryIInv' BY <1>8, TruncatedKeeps
<1>9. CASE UNCHANGED discoveryVars BY <1>9, DiscoveryStuttering
<1> QED BY <1>1, <1>2, <1>3, <1>4, <1>5, <1>6, <1>7, <1>8, <1>9 DEF DiscoveryNext

---------------------------------------------------------------------------
(* The inductive invariant holds: every turn below a cursor, and the last  *)
(* status read, is accounted for while agents write and polls go on.       *)
THEOREM DiscoveryIInvHolds == DiscoverySpec => []DiscoveryIInv
<1>1. DiscoveryInit => DiscoveryIInv BY DiscoveryIInvInit
<1>2. DiscoveryIInv /\ [DiscoveryNext]_discoveryVars => DiscoveryIInv' BY DiscoveryIInvNext
<1> QED BY <1>1, <1>2, PTL DEF DiscoverySpec

(* Between polls, nothing is about to be delivered.                        *)
LEMMA BetweenPolls ==
    ASSUME DiscoveryIInv, poll.pc = "idle"
    PROVE  (\A f, i : ~GotTurn(f, i)) /\ \A f : StatusOf(f) = status[f]
<1>1. poll.got = <<>> BY DEF DiscoveryIInv, PollInv
<1>2. poll.got \in Seq(ItemType) /\ Len(poll.got) = 0 BY <1>1, EmptySeq
<1>3. \A f, i : ~GotTurn(f, i) BY <1>2 DEF GotTurn
<1>4. \A f, s : LastIn(poll.got, f, s) = s BY <1>2, NothingSaidYet
<1>5. \A f : StatusOf(f) = status[f] BY <1>2, <1>4, TurnsAndStatus
<1> QED BY <1>3, <1>5

(* read_appended_lines never passes a turn nobody was told of: every turn  *)
(* below a cursor was delivered, except those that a read cut in two, a    *)
(* failed poll dropped or an agent wrote below the cursor of an emptied    *)
(* file; whatever agents append between the length check and the read.     *)
THEOREM NothingSkippedHolds == DiscoverySpec => []NothingSkipped
<1>1. DiscoveryIInv => NothingSkipped
  <2> SUFFICES ASSUME DiscoveryIInv, poll.pc = "idle", NEW f \in Files, NEW i \in DOMAIN lines[f],
                      2 * i <= cursors[f], IsTurn(kindOf[f], lines[f][i])
               PROVE  told[f][i] > 0 \/ <<f, i>> \in spoiled
    BY DEF NothingSkipped
  <2>1. i \in 1..Len(lines[f]) BY InvFacts, LenProperties
  <2>2. told[f][i] > 0 \/ <<f, i>> \in spoiled \/ GotTurn(f, i)
    BY <2>1 DEF DiscoveryIInv, SkipInv
  <2> QED BY <2>2, BetweenPolls
<1> QED BY <1>1, DiscoveryIInvHolds, PTL

(* A line appended during a poll is delivered by it and perhaps by the     *)
(* next one, whose cursor is still at the length seen before, and by no    *)
(* third.                                                                  *)
THEOREM ToldAtMostTwiceHolds == DiscoverySpec => []ToldAtMostTwice
<1>1. DiscoveryIInv => ToldAtMostTwice
  <2> SUFFICES ASSUME DiscoveryIInv, NEW f \in Files, NEW i \in DOMAIN told[f]
               PROVE  told[f][i] <= 2
    BY DEF ToldAtMostTwice
  <2>1. i \in 1..Len(lines[f]) BY InvFacts
  <2>2. Times(f, i) <= 2 BY <2>1 DEF DiscoveryIInv, TwiceInv
  <2>3. told[f][i] \in Nat /\ Turns(f, i) \in Nat /\ Times(f, i) = told[f][i] + Turns(f, i)
    BY <2>1, InvFacts
  <2> QED BY <2>2, <2>3
<1> QED BY <1>1, DiscoveryIInvHolds, PTL

(* The status that the scan of a whole transcript finds                    *)
(* (read_jsonl_metadata) is that of the last activity delivered            *)
(* (line_to_activity), once a file was read to its end and nothing of it   *)
(* was lost.                                                               *)
THEOREM StatusAgreesHolds == DiscoverySpec => []StatusAgrees
<1>1. DiscoveryIInv => StatusAgrees
  <2> SUFFICES ASSUME DiscoveryIInv, NEW f \in Files,
                      poll.pc = "idle", cursors[f] = Length(f), f \notin half,
                      \A s \in spoiled : s[1] # f, ScannedStatus(f) # NoStatus
               PROVE  status[f] = ScannedStatus(f)
    BY DEF StatusAgrees
  <2> DEFINE W == Whole(f)
  <2>1. W \in Nat /\ Len(lines[f]) = W /\ Length(f) = W + W
    BY LengthIs DEF DiscoveryIInv
  <2>2. ScannedStatus(f) = LastStatus(f, W) BY DEF ScannedStatus
  <2> HIDE DEF W
  <2>3. lines[f] # <<>>
    <3> SUFFICES ASSUME lines[f] = <<>> PROVE FALSE OBVIOUS
    <3>1. W = 0 BY <2>1, EmptySeq
    <3> QED BY <2>1, <2>2, <3>1, LastStatusIs
  <2>4. PICK e \in 0..W :
           /\ cursors[f] <= 2 * e
           /\ LastStatus(f, e) # NoStatus => StatusOf(f) = LastStatus(f, e)
    BY <2>3 DEF DiscoveryIInv, StatusInv, Unspoiled, W
  <2>5. e = W BY <2>1, <2>4
  <2> QED BY <2>2, <2>4, <2>5, BetweenPolls
<1> QED BY <1>1, DiscoveryIInvHolds, PTL

(* Any of the sessions that filter_sessions_by_active_counts shows have at *)
(* least as many live agents on their branches of the directory tree as    *)
(* they are themselves, for any processes, window titles, transcripts and  *)
(* order of the slots.                                                     *)
THEOREM OwnProcessHolds == DiscoverySpec => []OwnProcess
<1>1. DiscoveryIInv => OwnProcess BY OwnProcessFollows DEF DiscoveryIInv, ShapeInv
<1> QED BY <1>1, DiscoveryIInvHolds, PTL

=============================================================================
