------------------------- MODULE BridgeSystemProofs -------------------------
(***************************************************************************)
(* Proofs about BridgeSystem, the daemon with its link and the board: for  *)
(* any number of agents, rows and requests, an agent that waits for a row  *)
(* has a request or a grant under way, a row goes to the agent it was made *)
(* for, a permission request reaches the user, and a decision is the       *)
(* user's, under the conditions on the board and the link that each        *)
(* theorem states.                                                         *)
(***************************************************************************)
EXTENDS BridgeSystem, BridgeDaemonProofs, FunctionTheorems

---------------------------------------------------------------------------
(* Counting the messages of one command in a queue.                        *)
Ups(s, c, i) == {k \in 1 .. i : s[k].cmd = c}
UpTo(s, c, i) == Cardinality(Ups(s, c, i))
Carrying(s, c) == UpTo(s, c, Len(s))

LEMMA UpToStep ==
    ASSUME NEW s, NEW c, NEW i \in Nat
    PROVE  /\ UpTo(s, c, i) \in 0 .. i
           /\ UpTo(s, c, 0) = 0
           /\ UpTo(s, c, i + 1) =
                 UpTo(s, c, i) + (IF s[i + 1].cmd = c THEN 1 ELSE 0)
<1>1. IsFiniteSet(1 .. i) /\ Cardinality(1 .. i) = i
  BY FS_Interval
<1>2. Ups(s, c, i) \in SUBSET (1 .. i)
  BY DEF Ups
<1>3. IsFiniteSet(Ups(s, c, i)) /\ Cardinality(Ups(s, c, i)) <= i
  BY <1>1, <1>2, FS_Subset
<1>4. Cardinality(Ups(s, c, i)) \in Nat
  BY <1>3, FS_CardinalityType
<1>5. Ups(s, c, 0) = {}
  BY DEF Ups
<1>6. UpTo(s, c, i + 1) =
         UpTo(s, c, i) + (IF s[i + 1].cmd = c THEN 1 ELSE 0)
  <2>1. CASE s[i + 1].cmd = c
    <3>1. Ups(s, c, i + 1) = Ups(s, c, i) \cup {i + 1}
      BY <2>1 DEF Ups
    <3>2. i + 1 \notin Ups(s, c, i)
      BY DEF Ups
    <3>3. Cardinality(Ups(s, c, i) \cup {i + 1}) = Cardinality(Ups(s, c, i)) + 1
      BY <1>3, <3>2, FS_AddElement
    <3>4. QED BY <2>1, <3>1, <3>3 DEF UpTo
  <2>2. CASE s[i + 1].cmd # c
    <3>1. Ups(s, c, i + 1) = Ups(s, c, i)
      BY <2>2 DEF Ups
    <3>2. QED BY <1>4, <2>2, <3>1 DEF UpTo
  <2>3. QED BY <2>1, <2>2
<1>7. UpTo(s, c, 0) = 0
  BY <1>5, FS_EmptySet DEF UpTo
<1>8. UpTo(s, c, i) \in 0 .. i
  BY <1>3, <1>4 DEF UpTo
<1>9. QED BY <1>6, <1>7, <1>8

(* Where t is found in s after the first n elements, the counts add up.    *)
LEMMA UpToShift ==
    ASSUME NEW s, NEW t, NEW c, NEW n \in Nat, NEW i \in Nat,
           \A k \in 1 .. i : t[k] = s[n + k]
    PROVE  UpTo(s, c, n + i) = UpTo(s, c, n) + UpTo(t, c, i)
<1> DEFINE A == Ups(s, c, n)
           B == Ups(t, c, i)
           C == {k \in n + 1 .. n + i : s[k].cmd = c}
           f == [k \in B |-> n + k]
<1>1. B \in SUBSET (1 .. i) /\ A \in SUBSET (1 .. n)
  BY DEF Ups
<1>2. IsFiniteSet(A) /\ IsFiniteSet(B)
  BY <1>1, FS_Interval, FS_Subset
<1>3. f \in Bijection(B, C)
  <2>1. f \in [B -> C]
    BY DEF Ups
  <2>2. \A k, l \in B : f[k] = f[l] => k = l
    BY <1>1
  <2>3. ASSUME NEW k \in C PROVE \E l \in B : f[l] = k
    <3>1. k - n \in 1 .. i /\ n + (k - n) = k
      OBVIOUS
    <3>2. k - n \in B
      BY <3>1 DEF Ups
    <3>3. QED BY <3>1, <3>2
  <2>4. QED BY <2>1, <2>2, <2>3, Fun_IsBij
<1>4. IsFiniteSet(C) /\ Cardinality(C) = Cardinality(B)
  BY <1>2, <1>3, FS_Bijection DEF ExistsBijection
<1>5. Ups(s, c, n + i) = A \cup C /\ A \cap C = {}
  BY DEF Ups
<1> HIDE DEF A, B, C
<1>6. /\ Cardinality(A \cup C) =
            Cardinality(A) + Cardinality(C) - Cardinality(A \cap C)
      /\ Cardinality(A \cap C) = 0
  BY <1>2, <1>4, <1>5, FS_Union, FS_EmptySet
<1>7. Cardinality(A) \in Nat /\ Cardinality(B) \in Nat
  BY <1>2, FS_CardinalityType
<1>8. QED BY <1>4, <1>5, <1>6, <1>7 DEF UpTo, A, B

LEMMA UpToSame ==
    ASSUME NEW s, NEW t, NEW c, NEW i \in Nat, \A k \in 1 .. i : t[k] = s[k]
    PROVE  UpTo(s, c, i) = UpTo(t, c, i)
<1>1. UpTo(s, c, 0 + i) = UpTo(s, c, 0) + UpTo(t, c, i)
  BY UpToShift
<1>2. QED BY <1>1, UpToStep

LEMMA CarryingType ==
    ASSUME NEW S, NEW s \in Seq(S), NEW c
    PROVE  Carrying(s, c) \in Nat /\ Carrying(<<>>, c) = 0
<1>1. Len(s) \in Nat
  BY LenProperties
<1>2. QED BY <1>1, UpToStep DEF Carrying

LEMMA CarryingConcat ==
    ASSUME NEW S, NEW s \in Seq(S), NEW t \in Seq(S), NEW c
    PROVE  /\ Carrying(s \o t, c) = Carrying(s, c) + Carrying(t, c)
           /\ \A i \in 0 .. Len(s) : UpTo(s \o t, c, i) = UpTo(s, c, i)
           /\ \A i \in 0 .. Len(t) :
                 UpTo(s \o t, c, Len(s) + i) = Carrying(s, c) + UpTo(t, c, i)
<1>1. /\ Len(s) \in Nat /\ Len(t) \in Nat
      /\ Len(s \o t) = Len(s) + Len(t)
      /\ \A i \in 1 .. Len(s) : (s \o t)[i] = s[i]
      /\ \A i \in 1 .. Len(t) : (s \o t)[Len(s) + i] = t[i]
  BY LenProperties, ConcatProperties
<1>2. ASSUME NEW i \in 0 .. Len(s) PROVE UpTo(s \o t, c, i) = UpTo(s, c, i)
  <2>1. i \in Nat /\ \A k \in 1 .. i : (s \o t)[k] = s[k]
    BY <1>1
  <2>2. QED BY <2>1, UpToSame
<1>3. ASSUME NEW i \in 0 .. Len(t)
      PROVE  UpTo(s \o t, c, Len(s) + i) = Carrying(s, c) + UpTo(t, c, i)
  <2> DEFINE u == s \o t
             n == Len(s)
  <2>1. n \in Nat /\ i \in Nat /\ \A k \in 1 .. i : t[k] = u[n + k]
    BY <1>1
  <2> HIDE DEF u, n
  <2>2. UpTo(u, c, n + i) = UpTo(u, c, n) + UpTo(t, c, i)
    BY <2>1, UpToShift
  <2>3. UpTo(s \o t, c, Len(s)) = UpTo(s, c, Len(s))
    BY <1>1, <1>2
  <2>4. QED BY <2>2, <2>3 DEF Carrying, u, n
<1>4. Carrying(s \o t, c) = Carrying(s, c) + Carrying(t, c)
  BY <1>1, <1>3 DEF Carrying
<1>5. QED BY <1>2, <1>3, <1>4

(* The head, counted alone.                                                *)
First(s, c) == IF Head(s).cmd = c THEN 1 ELSE 0

LEMMA CarryingTail ==
    ASSUME NEW S, NEW s \in Seq(S), s # <<>>, NEW c
    PROVE  /\ Carrying(s, c) = First(s, c) + Carrying(Tail(s), c)
           /\ \A i \in 0 .. Len(Tail(s)) :
                 UpTo(s, c, i + 1) = First(s, c) + UpTo(Tail(s), c, i)
<1>1. /\ Len(s) \in Nat \ {0} /\ Len(Tail(s)) = Len(s) - 1
      /\ \A i \in 1 .. Len(Tail(s)) : Tail(s)[i] = s[i + 1]
  BY EmptySeq, HeadTailProperties
<1>2. UpTo(s, c, 1) = First(s, c)
  <2>1. /\ UpTo(s, c, 0) = 0
        /\ UpTo(s, c, 0 + 1) = UpTo(s, c, 0) + (IF s[0 + 1].cmd = c THEN 1 ELSE 0)
    BY UpToStep
  <2>2. s[1] = Head(s)
    OBVIOUS
  <2>3. QED BY <2>1, <2>2 DEF First
<1>3. ASSUME NEW i \in 0 .. Len(Tail(s))
      PROVE  UpTo(s, c, i + 1) = First(s, c) + UpTo(Tail(s), c, i)
  <2> DEFINE t == Tail(s)
  <2>1. i \in Nat /\ \A k \in 1 .. i : t[k] = s[1 + k]
    BY <1>1
  <2> HIDE DEF t
  <2>2. UpTo(s, c, 1 + i) = UpTo(s, c, 1) + UpTo(t, c, i)
    BY <2>1, UpToShift
  <2>3. QED BY <1>1, <1>2, <2>1, <2>2 DEF t
<1>4. QED BY <1>1, <1>3 DEF Carrying

LEMMA CarryingOne ==
    ASSUME NEW m, NEW c
    PROVE  Carrying(<<m>>, c) = IF m.cmd = c THEN 1 ELSE 0
<1>1. /\ UpTo(<<m>>, c, 0) = 0
      /\ UpTo(<<m>>, c, 0 + 1) =
            UpTo(<<m>>, c, 0) + (IF <<m>>[0 + 1].cmd = c THEN 1 ELSE 0)
  BY UpToStep
<1>2. QED BY <1>1 DEF Carrying

(* A queue without the command, and one with nothing else.                 *)
LEMMA CarryingNone ==
    ASSUME NEW s, NEW c, NEW i \in Nat, \A k \in 1 .. i : s[k].cmd # c
    PROVE  UpTo(s, c, i) = 0
<1>1. Ups(s, c, i) = {}
  BY DEF Ups
<1>2. QED BY <1>1, FS_EmptySet DEF UpTo

LEMMA CarryingAll ==
    ASSUME NEW s, NEW c, NEW i \in Nat, \A k \in 1 .. i : s[k].cmd = c
    PROVE  UpTo(s, c, i) = i
<1>1. Ups(s, c, i) = 1 .. i
  BY DEF Ups
<1>2. QED BY <1>1, FS_Interval DEF UpTo

---------------------------------------------------------------------------
(* A flush may send a message twice, or leave one queued that the board    *)
(* already has, but it loses none.                                         *)
LEMMA SplitCounts ==
    ASSUME NEW S, NEW q \in Seq(S), NEW n \in 0 .. Len(q), NEW c
    PROVE  /\ SubSeq(q, 1, n) \in Seq(S) /\ SubSeq(q, n + 1, Len(q)) \in Seq(S)
           /\ SubSeq(q, 1, n) \o SubSeq(q, n + 1, Len(q)) = q
           /\ Carrying(q, c) = Carrying(SubSeq(q, 1, n), c)
                               + Carrying(SubSeq(q, n + 1, Len(q)), c)
<1>1. Len(q) \in Nat /\ n \in Int /\ n + 1 \in Int
  BY LenProperties
<1>2. \A i \in 1 .. n : q[i] \in S
  BY <1>1, ElementOfSeq
<1>3. \A i \in n + 1 .. Len(q) : q[i] \in S
  BY <1>1, ElementOfSeq
<1>4. SubSeq(q, 1, n) \in Seq(S)
  BY <1>1, <1>2, SubSeqProperties
<1>5. SubSeq(q, n + 1, Len(q)) \in Seq(S)
  BY <1>1, <1>3, SubSeqProperties
<1>6. SubSeq(q, 1, n) \o SubSeq(q, n + 1, Len(q)) = q
  <2>1. /\ 1 \in 1 .. Len(q) + 1 /\ n \in 1 - 1 .. Len(q)
        /\ Len(q) \in n .. Len(q)
    BY <1>1
  <2>2. SubSeq(q, 1, n) \o SubSeq(q, n + 1, Len(q)) = SubSeq(q, 1, Len(q))
    BY <2>1, ConcatAdjacentSubSeq
  <2>3. QED BY <2>2, SubSeqFull
<1> DEFINE front == SubSeq(q, 1, n)
           rest == SubSeq(q, n + 1, Len(q))
<1>7. front \in Seq(S) /\ rest \in Seq(S)
  BY <1>4, <1>5
<1> HIDE DEF front, rest
<1>8. Carrying(front \o rest, c) = Carrying(front, c) + Carrying(rest, c)
  BY <1>7, CarryingConcat
<1>9. QED BY <1>6, <1>7, <1>8 DEF front, rest

LEMMA MoreCounts ==
    ASSUME NEW S, NEW q \in Seq(S), NEW n \in 1 .. Len(q), NEW c
    PROVE  /\ SubSeq(q, n, Len(q)) \in Seq(S)
           /\ Carrying(SubSeq(q, n, Len(q)), c)
                 >= Carrying(SubSeq(q, n + 1, Len(q)), c)
           /\ Carrying(SubSeq(q, 1, n), c) >= Carrying(SubSeq(q, 1, n - 1), c)
<1> DEFINE one == <<q[n]>>
           front == SubSeq(q, 1, n - 1)
           rest == SubSeq(q, n + 1, Len(q))
<1>1. Len(q) \in Nat /\ q[n] \in S
  BY LenProperties, ElementOfSeq
<1>2. one \in Seq(S) /\ Carrying(one, c) \in Nat
  <2>1. one \in Seq(S)
    BY <1>1
  <2> HIDE DEF one
  <2>2. QED BY <2>1, CarryingType
<1>3. front \in Seq(S) /\ rest \in Seq(S)
  <2>1. n - 1 \in 0 .. Len(q) /\ n \in 0 .. Len(q)
    BY <1>1
  <2>2. QED BY <2>1, SplitCounts
<1>4. Carrying(front, c) \in Nat /\ Carrying(rest, c) \in Nat
  BY <1>3, CarryingType
<1>5. SubSeq(q, n, Len(q)) = one \o rest
  <2>1. n \in 1 .. Len(q) /\ Len(q) \in n .. Len(q)
    BY <1>1
  <2>2. QED BY <2>1, SubSeqRecursiveFirst
<1>6. SubSeq(q, 1, n) = front \o one
  <2>1. 1 \in 1 .. Len(q) /\ n \in 1 .. Len(q)
    BY <1>1
  <2>2. QED BY <2>1, SubSeqRecursiveSecond
<1> HIDE DEF one, front, rest
<1>7. one \o rest \in Seq(S)
  BY <1>2, <1>3, ConcatProperties
<1>8. /\ Carrying(one \o rest, c) = Carrying(one, c) + Carrying(rest, c)
      /\ Carrying(front \o one, c) = Carrying(front, c) + Carrying(one, c)
  BY <1>2, <1>3, CarryingConcat
<1>9. /\ Carrying(one \o rest, c) >= Carrying(rest, c)
      /\ Carrying(front \o one, c) >= Carrying(front, c)
  BY <1>2, <1>4, <1>8
<1>10. QED BY <1>5, <1>6, <1>7, <1>9 DEF rest, front

LEMMA FlushCounts ==
    ASSUME NEW q \in Seq(HidMessage), flush_board_outbox(q), NEW c
    PROVE  Carrying(q, c) <= Carrying(sent', c) + Carrying(board_outbox', c)
<1>1. Len(q) \in Nat /\ Carrying(q, c) \in Nat /\ Carrying(<<>>, c) = 0
  BY LenProperties, CarryingType
<1>2. CASE board_outbox' = q /\ sent' = <<>>
  BY <1>1, <1>2
<1>3. CASE board_outbox' = <<>> /\ sent' = q
  BY <1>1, <1>3
<1>4. CASE /\ board_outbox' = <<>>
           /\ \E n \in 1 .. Len(q) :
                 sent' = SubSeq(q, 1, n) \o SubSeq(q, n, Len(q))
  <2>1. PICK n \in 1 .. Len(q) :
                 sent' = SubSeq(q, 1, n) \o SubSeq(q, n, Len(q))
    BY <1>4
  <2>2. n \in 0 .. Len(q)
    BY <1>1
  <2>3. /\ SubSeq(q, 1, n) \in Seq(HidMessage)
        /\ SubSeq(q, n + 1, Len(q)) \in Seq(HidMessage)
        /\ Carrying(q, c) = Carrying(SubSeq(q, 1, n), c)
                            + Carrying(SubSeq(q, n + 1, Len(q)), c)
    BY <2>2, SplitCounts
  <2>4. /\ SubSeq(q, n, Len(q)) \in Seq(HidMessage)
        /\ Carrying(SubSeq(q, n, Len(q)), c)
              >= Carrying(SubSeq(q, n + 1, Len(q)), c)
    BY MoreCounts
  <2>5. Carrying(sent', c) = Carrying(SubSeq(q, 1, n), c)
                             + Carrying(SubSeq(q, n, Len(q)), c)
    <3> DEFINE front == SubSeq(q, 1, n)
               again == SubSeq(q, n, Len(q))
    <3>1. front \in Seq(HidMessage) /\ again \in Seq(HidMessage)
      BY <2>3, <2>4
    <3> HIDE DEF front, again
    <3>2. Carrying(front \o again, c) = Carrying(front, c) + Carrying(again, c)
      BY <3>1, CarryingConcat
    <3>3. QED BY <2>1, <3>2 DEF front, again
  <2>6. /\ Carrying(SubSeq(q, 1, n), c) \in Nat
        /\ Carrying(SubSeq(q, n, Len(q)), c) \in Nat
        /\ Carrying(SubSeq(q, n + 1, Len(q)), c) \in Nat
    BY <2>3, <2>4, CarryingType
  <2>7. QED BY <1>1, <1>4, <2>3, <2>4, <2>5, <2>6
<1>5. CASE \E n \in 0 .. Len(q) - 1 :
              /\ board_outbox' = SubSeq(q, n + 1, Len(q))
              /\ \E k \in {n, n + 1} : sent' = SubSeq(q, 1, k)
  <2>1. PICK n \in 0 .. Len(q) - 1 :
              /\ board_outbox' = SubSeq(q, n + 1, Len(q))
              /\ \E k \in {n, n + 1} : sent' = SubSeq(q, 1, k)
    BY <1>5
  <2>2. n \in 0 .. Len(q) /\ n + 1 \in 1 .. Len(q) /\ n + 1 \in 0 .. Len(q)
        /\ (n + 1) - 1 = n
    BY <1>1
  <2>3. /\ SubSeq(q, 1, n) \in Seq(HidMessage)
        /\ SubSeq(q, n + 1, Len(q)) \in Seq(HidMessage)
        /\ SubSeq(q, 1, n + 1) \in Seq(HidMessage)
        /\ Carrying(q, c) = Carrying(SubSeq(q, 1, n), c)
                            + Carrying(SubSeq(q, n + 1, Len(q)), c)
    BY <2>2, SplitCounts
  <2>4. /\ Carrying(SubSeq(q, 1, n), c) \in Nat
        /\ Carrying(SubSeq(q, n + 1, Len(q)), c) \in Nat
        /\ Carrying(SubSeq(q, 1, n + 1), c) \in Nat
    BY <2>3, CarryingType
  <2>5. Carrying(SubSeq(q, 1, n + 1), c) >= Carrying(SubSeq(q, 1, n), c)
    <3>1. Carrying(SubSeq(q, 1, n + 1), c) >= Carrying(SubSeq(q, 1, (n + 1) - 1), c)
      BY <2>2, MoreCounts
    <3>2. QED BY <2>2, <3>1
  <2>6. sent' = SubSeq(q, 1, n) \/ sent' = SubSeq(q, 1, n + 1)
    BY <2>1
  <2>7. QED BY <2>1, <2>3, <2>4, <2>5, <2>6
<1>6. QED BY <1>2, <1>3, <1>4, <1>5 DEF flush_board_outbox

---------------------------------------------------------------------------
(* What may stand in the queue and on the wire: a request for a row is     *)
(* broadcast, and a prompt is one that its agent can have asked for.       *)
Talk ==
    {m \in HidMessage :
        /\ m.cmd = "RequestSession" => m.sid = Broadcast
        /\ m.cmd = "PermissionReq" =>
              m.agent \in Agents /\ m.body \in Asks[m.agent]}

Quiet == {m \in Talk : m.cmd # "RequestSession"}

(* A step of the daemon puts messages at the end of its queue and may      *)
(* flush; what it sends goes on the wire.                                  *)
Posts(messages) ==
    /\ \/ flush_board_outbox(board_outbox \o messages)
       \/ board_outbox' = board_outbox \o messages /\ sent' = <<>>
    /\ OnWire

LEMMA TalkSeq ==
    ASSUME NEW s \in Seq(HidMessage), ToSet(s) \subseteq Talk
    PROVE  s \in Seq(Talk)
<1>1. Len(s) \in Nat /\ s \in [1 .. Len(s) -> HidMessage]
      /\ DOMAIN s = 1 .. Len(s)
  BY LenProperties
<1>2. \A i \in 1 .. Len(s) : s[i] \in Talk
  BY <1>1 DEF ToSet
<1>3. s \in [1 .. Len(s) -> Talk]
  BY <1>1, <1>2
<1>4. QED BY <1>1, <1>3, SeqFromFunction

LEMMA TalkElements ==
    ASSUME NEW S, NEW s \in Seq(S)
    PROVE  ToSet(s) \subseteq S
BY LenProperties, ElementOfSeq DEF ToSet

LEMMA QuietIsTalk == Quiet \subseteq Talk /\ Talk \subseteq HidMessage
BY DEF Quiet, Talk

(* Nothing is lost between the queue and the wire; without failing reports *)
(* nothing is repeated either, and the order stays.                        *)
LEMMA PostsKeep ==
    ASSUME TypeOK', board_outbox \in Seq(Talk), wire \in Seq(Talk),
           NEW messages \in Seq(Talk), Posts(messages)
    PROVE  /\ board_outbox' \in Seq(Talk) /\ wire' \in Seq(Talk)
           /\ \A c : Carrying(wire', c) + Carrying(board_outbox', c)
                        >= Carrying(wire, c) + Carrying(board_outbox, c)
                           + Carrying(messages, c)
           /\ "hid-error" \notin Inputs =>
                 wire' \o board_outbox' = (wire \o board_outbox) \o messages
<1> DEFINE q == board_outbox \o messages
<1>1. /\ q \in Seq(Talk) /\ q \in Seq(HidMessage) /\ <<>> \in Seq(Talk)
      /\ q \o <<>> = q
  BY QuietIsTalk, ConcatProperties, SeqMonotonic, EmptySeq, ConcatEmptySeq
<1>2. \/ flush_board_outbox(q)
      \/ board_outbox' = q /\ sent' = <<>>
  BY DEF Posts
<1>3. board_outbox' \in Seq(HidMessage) /\ sent' \in Seq(HidMessage)
  BY DEF TypeOK
<1>4. ASSUME NEW c
      PROVE  Carrying(q, c) = Carrying(board_outbox, c) + Carrying(messages, c)
  BY CarryingConcat
<1>5. /\ "hid-error" \notin Inputs =>
            \/ board_outbox' = q /\ sent' = <<>>
            \/ board_outbox' = <<>> /\ sent' = q
  BY <1>2 DEF flush_board_outbox
<1> HIDE DEF q
<1>6. board_outbox' \in Seq(Talk) /\ sent' \in Seq(Talk)
  <2>1. CASE flush_board_outbox(q)
    <3>1. ToSet(board_outbox') \cup ToSet(sent') \subseteq ToSet(q)
      BY <1>1, <2>1, FlushSubset
    <3>2. ToSet(q) \subseteq Talk
      BY <1>1, TalkElements
    <3>3. QED BY <1>3, <3>1, <3>2, TalkSeq
  <2>2. CASE board_outbox' = q /\ sent' = <<>>
    BY <1>1, <2>2
  <2>3. QED BY <1>2, <2>1, <2>2
<1>7. wire' = wire \o sent'
  BY DEF Posts, OnWire
<1>8. wire' \in Seq(Talk)
  BY <1>6, <1>7, ConcatProperties
<1>9. ASSUME NEW c
      PROVE  Carrying(wire', c) + Carrying(board_outbox', c)
                >= Carrying(wire, c) + Carrying(board_outbox, c)
                   + Carrying(messages, c)
  <2>1. Carrying(wire', c) = Carrying(wire, c) + Carrying(sent', c)
    BY <1>6, <1>7, CarryingConcat
  <2>2. Carrying(q, c) <= Carrying(sent', c) + Carrying(board_outbox', c)
    <3>1. CASE flush_board_outbox(q)
      BY <1>1, <3>1, FlushCounts
    <3>2. CASE board_outbox' = q /\ sent' = <<>>
      <4>1. Carrying(<<>>, c) = 0 /\ Carrying(q, c) \in Nat
        BY <1>1, CarryingType
      <4>2. QED BY <3>2, <4>1
    <3>3. QED BY <1>2, <3>1, <3>2
  <2>3. /\ Carrying(wire, c) \in Nat /\ Carrying(sent', c) \in Nat
        /\ Carrying(board_outbox', c) \in Nat /\ Carrying(board_outbox, c) \in Nat
        /\ Carrying(messages, c) \in Nat
    BY <1>6, CarryingType
  <2>4. QED BY <1>4, <2>1, <2>2, <2>3
<1>10. ASSUME "hid-error" \notin Inputs
       PROVE  wire' \o board_outbox' = (wire \o board_outbox) \o messages
  <2>1. (wire \o board_outbox) \o messages = wire \o q
    BY ConcatAssociative DEF q
  <2>2. CASE board_outbox' = q /\ sent' = <<>>
    BY <1>7, <2>1, <2>2, ConcatEmptySeq
  <2>3. CASE board_outbox' = <<>> /\ sent' = q
    BY <1>7, <1>8, <2>1, <2>3, ConcatEmptySeq
  <2>4. QED BY <1>5, <1>10, <2>2, <2>3
<1>11. QED BY <1>6, <1>8, <1>9, <1>10

---------------------------------------------------------------------------
(* Agents have asked for what their records hold as pending.               *)
PermsAsked == \A a \in DOMAIN registered :
                 registered[a].pending_permissions \in Seq(Asks[a])

LEMMA PermsKept ==
    ASSUME PermsAsked,
           \A a \in DOMAIN registered' :
              \/ /\ a \in DOMAIN registered
                 /\ registered'[a].pending_permissions =
                       registered[a].pending_permissions
              \/ registered'[a].pending_permissions \in Seq(Asks[a])
    PROVE  PermsAsked'
BY DEF PermsAsked

LEMMA QuietMessage ==
    ASSUME NEW cmd \in Cmds \ {"RequestSession"},
           NEW sid \in Sids \cup {Broadcast}, NEW a \in Agents,
           NEW body \in ReqIds \cup Screens \cup {NoBody},
           cmd = "PermissionReq" => body \in Asks[a]
    PROVE  Message(cmd, sid, a, body) \in Quiet
<1>1. Message(cmd, sid, a, body) \in HidMessage
  BY MessageType
<1>2. QED BY <1>1 DEF Quiet, Talk, Message

LEMMA AsksType ==
    ASSUME NEW a \in Agents
    PROVE  Asks[a] \subseteq ReqIds
BY AsksAssumption

(* What is built from a record announces only what its agent asked for.    *)
LEMMA AgentMessagesQuiet ==
    ASSUME NEW a \in Agents, NEW r \in RegisteredAgent
    PROVE  /\ status_message_for_agent(a, r) \in Seq(Quiet)
           /\ token_message_for_agent(a, r) \in Seq(Quiet)
           /\ \A req \in Asks[a] :
                 permission_message_for_agent(a, r, req) \in Seq(Quiet)
           /\ terminal_replay_message_for_agent(a, r) \in Seq(Quiet)
<1> DEFINE sid == r.board_sid
<1>1. /\ sid \in Sids \cup {NoSid}
      /\ r.usage \in BOOLEAN /\ r.terminal_buffer \in BOOLEAN
  BY DEF RegisteredAgent
<1>2. /\ {"StatusUpdate", "TokenUsage", "PermissionReq", "Vt100Stream"}
            \subseteq Cmds \ {"RequestSession"}
      /\ NoBody \in ReqIds \cup Screens \cup {NoBody}
      /\ Asks[a] \subseteq ReqIds \cup Screens \cup {NoBody}
  BY AsksType DEF Cmds
<1>3. ASSUME sid # NoSid, NEW cmd \in Cmds \ {"RequestSession"},
             NEW body \in ReqIds \cup Screens \cup {NoBody},
             cmd = "PermissionReq" => body \in Asks[a]
      PROVE  Message(cmd, sid, a, body) \in Quiet
  BY <1>1, <1>3, QuietMessage
<1> HIDE DEF sid
<1>4. status_message_for_agent(a, r) \in Seq(Quiet)
  BY <1>2, <1>3, OnlyType DEF status_message_for_agent, sid
<1>5. token_message_for_agent(a, r) \in Seq(Quiet)
  BY <1>1, <1>2, <1>3, OnlyType DEF token_message_for_agent, sid
<1>6. ASSUME NEW req \in Asks[a]
      PROVE  permission_message_for_agent(a, r, req) \in Seq(Quiet)
  BY <1>2, <1>3, OnlyType DEF permission_message_for_agent, sid
<1>7. terminal_replay_message_for_agent(a, r) \in Seq(Quiet)
  <2> DEFINE screen == IF r.terminal_buffer THEN "clear+buffer"
                       ELSE IF r.from_launch THEN "clear" ELSE "placeholder"
  <2>1. screen \in ReqIds \cup Screens \cup {NoBody}
    BY DEF Screens
  <2> HIDE DEF screen
  <2>2. sid # NoSid => Vt100(sid, a, screen) \in Quiet
    BY <1>2, <1>3, <2>1 DEF Vt100
  <2>3. Only(/\ sid # NoSid
             /\ r.terminal_buffer \/ r.attached_terminal = NoAgent,
             Vt100(sid, a, screen)) \in Seq(Quiet)
    BY <1>1, <2>2, OnlyType
  <2>4. QED BY <2>3 DEF terminal_replay_message_for_agent, screen, sid
<1>8. QED BY <1>4, <1>5, <1>6, <1>7

LEMMA BoardSyncQuiet ==
    ASSUME NEW a \in Agents, NEW r \in RegisteredAgent,
           r.pending_permissions \in Seq(Asks[a])
    PROVE  board_sync_messages(a, r) \in Seq(Quiet)
<1>1. CASE r.board_sid = NoSid
  BY <1>1, EmptySeq DEF board_sync_messages
<1>2. CASE r.board_sid # NoSid
  <2> DEFINE sid == r.board_sid
             asked == r.pending_permissions
             meta == <<Message("AgentMeta", sid, a, NoBody)>>
             turn == Only(r.from_launch /\ r.turns,
                          Message("TurnAppend", sid, a, NoBody))
             prompts == [i \in 1 .. Len(asked) |->
                            Message("PermissionReq", sid, a, asked[i])]
  <2>1. /\ sid \in Sids \cup {Broadcast} /\ asked \in Seq(Asks[a])
        /\ r.from_launch \in BOOLEAN /\ r.turns \in BOOLEAN
    BY <1>2 DEF RegisteredAgent
  <2>2. /\ {"AgentMeta", "TurnAppend", "PermissionReq"}
              \subseteq Cmds \ {"RequestSession"}
        /\ NoBody \in ReqIds \cup Screens \cup {NoBody}
        /\ Asks[a] \subseteq ReqIds \cup Screens \cup {NoBody}
    BY AsksType DEF Cmds
  <2>3. /\ Message("AgentMeta", sid, a, NoBody) \in Quiet
        /\ Message("TurnAppend", sid, a, NoBody) \in Quiet
    BY <2>1, <2>2, QuietMessage
  <2>4. meta \in Seq(Quiet) /\ turn \in Seq(Quiet)
    BY <2>1, <2>3, OnlyType
  <2>5. prompts \in Seq(Quiet)
    <3>1. Len(asked) \in Nat /\ \A i \in 1 .. Len(asked) : asked[i] \in Asks[a]
      BY <2>1, LenProperties, ElementOfSeq
    <3>2. \A req \in Asks[a] : Message("PermissionReq", sid, a, req) \in Quiet
      BY <2>1, <2>2, QuietMessage
    <3> HIDE DEF sid, asked
    <3>3. prompts \in [1 .. Len(asked) -> Quiet]
      BY <3>1, <3>2
    <3>4. QED BY <3>1, <3>3, SeqFromFunction
  <2>6. board_sync_messages(a, r) =
           meta \o status_message_for_agent(a, r)
           \o token_message_for_agent(a, r) \o turn \o prompts
    BY <1>2 DEF board_sync_messages
  <2> HIDE DEF meta, turn, prompts
  <2>7. QED BY <2>4, <2>5, <2>6, AgentMessagesQuiet, ConcatProperties
<1>3. QED BY <1>1, <1>2

(* Steps that queue nothing of their own.                                  *)
LEMMA PostsNothing ==
    ASSUME TypeOK, OnWire,
           \/ Enqueue(<<>>) /\ sent' = <<>>
           \/ UNCHANGED board_outbox /\ sent' = <<>>
           \/ flush_board_outbox(board_outbox)
    PROVE  Posts(<<>>)
<1>1. board_outbox \o <<>> = board_outbox
  BY ConcatEmptySeq DEF TypeOK
<1>2. QED BY <1>1 DEF Posts, Enqueue

LEMMA RegisterPosts ==
    ASSUME TypeOK, PermsAsked, NEW r \in Registrations, Register(r), OnWire
    PROVE  /\ PermsAsked'
           /\ \E slots \in Seq(Agents) :
                 /\ pending_board_sessions' = pending_board_sessions \o slots
                 /\ Requests(slots) \in Seq(Talk)
                 /\ Posts(Requests(slots))
<1> DEFINE agent == Registered(r)
           keys == Only(NeedsSid(r.agent, agent), r.agent)
           slots == NewSlots(keys)
<1>1. agent \in RegisteredAgent /\ r.agent \in Agents
  BY RegistrationsAssumption, RegisteredType, RegisterLineType DEF TypeOK, TableOK
<1>2. agent.pending_permissions \in Seq(Asks[r.agent])
  <2>1. CASE r.agent \in DOMAIN registered
    <3>1. registered[r.agent] \in RegisteredAgent
      BY <2>1, RecordType
    <3>2. agent.pending_permissions = registered[r.agent].pending_permissions
      BY <2>1, <3>1 DEF Registered, RegisteredAgent
    <3>3. QED BY <2>1, <3>2 DEF PermsAsked
  <2>2. CASE r.agent \notin DOMAIN registered
    BY <2>2, EmptySeq DEF Registered, NewAgent
  <2>3. QED BY <2>1, <2>2
<1>3. keys \in Seq(Agents)
  BY <1>1, OnlyType DEF NeedsSid
<1>4. /\ registered' = With(r.agent, agent)
      /\ pending_board_sessions' = pending_board_sessions \o slots
      /\ Enqueue(Requests(slots)) /\ sent' = <<>>
  BY DEF Register, ClientLine
<1> HIDE DEF agent, keys
<1>5. slots \in Seq(Agents)
  BY <1>3, NewSlotsProperties
<1> HIDE DEF slots
<1>6. Requests(slots) \in Seq(Talk)
  <2>1. Len(slots) \in Nat /\ \A i \in 1 .. Len(slots) : slots[i] \in Agents
    BY <1>5, LenProperties, ElementOfSeq
  <2>2. ASSUME NEW a \in Agents PROVE RequestSession(a) \in Talk
    BY AgentMessagesType, MessageType DEF Talk, RequestSession, Message, Cmds
  <2>3. Requests(slots) \in [1 .. Len(slots) -> Talk]
    BY <2>1, <2>2 DEF Requests
  <2>4. QED BY <2>1, <2>3, SeqFromFunction
<1>7. Posts(Requests(slots))
  BY <1>4 DEF Posts, Enqueue
<1>8. PermsAsked'
  BY <1>2, <1>4, PermsKept DEF With
<1>9. QED BY <1>4, <1>5, <1>6, <1>7, <1>8

(* A record rewritten in place.                                            *)
LEMMA UpdatePerms ==
    ASSUME TypeOK, PermsAsked, NEW a \in DOMAIN registered, NEW agent,
           Update(a, agent), agent.pending_permissions \in Seq(Asks[a])
    PROVE  PermsAsked'
BY PermsKept DEF Update, TypeOK

LEMMA PermissionRequestPosts ==
    ASSUME TypeOK, PermsAsked, NEW a \in Agents, NEW req \in Asks[a],
           PermissionRequest(a, req), OnWire
    PROVE  PermsAsked' /\ \E messages \in Seq(Quiet) : Posts(messages)
<1> DEFINE agent == [registered[a] EXCEPT
                       !.resolved_permissions[req] = NoDecision,
                       !.pending_permissions = Append(@, req)]
           asked == permission_message_for_agent(a, agent, req)
           view == LivePassiveView(a, agent)
<1>1. /\ a \in DOMAIN registered /\ registered[a] \in RegisteredAgent
      /\ req \in ReqIds
  BY RecordType, AsksType DEF PermissionRequest
<1>2. /\ Update(a, agent) /\ Enqueue(asked \o view) /\ sent' = <<>>
  BY DEF PermissionRequest, ClientLine
<1>3. /\ agent \in RegisteredAgent
      /\ agent.pending_permissions \in Seq(Asks[a])
  <2>1. /\ Append(registered[a].pending_permissions, req) \in Seq(ReqIds)
        /\ Append(registered[a].pending_permissions, req) \in Seq(Asks[a])
    BY <1>1, AppendProperties DEF RegisteredAgent, PermsAsked
  <2>2. QED BY <1>1, <2>1 DEF RegisteredAgent
<1> HIDE DEF agent
<1>4. asked \in Seq(Quiet) /\ view \in Seq(Quiet)
  BY <1>3, AgentMessagesQuiet, EmptySeq DEF LivePassiveView
<1> HIDE DEF asked, view
<1>5. asked \o view \in Seq(Quiet)
  BY <1>4, ConcatProperties
<1>6. Posts(asked \o view)
  BY <1>2 DEF Posts, Enqueue
<1>7. QED BY <1>1, <1>2, <1>3, <1>5, <1>6, UpdatePerms

LEMMA SettlingPosts ==
    ASSUME TypeOK, PermsAsked, OnWire,
           \/ \E a \in Agents, req \in ReqIds :
                 PermissionResolve(a, req) \/ PermissionPoll(a, req)
           \/ \E sid \in Sids, req \in ReqIds, d \in Decisions :
                 PermissionRes(sid, req, d)
    PROVE  PermsAsked' /\ Posts(<<>>)
<1>1. ASSUME NEW a \in DOMAIN registered, NEW req
      PROVE  /\ registered[a] \in RegisteredAgent
             /\ registered[a].pending_permissions \in Seq(Asks[a])
             /\ Retain(registered[a].pending_permissions, {req}) \in Seq(Asks[a])
  BY RecordType, RetainProperties DEF PermsAsked
<1>2. ASSUME NEW a \in Agents, NEW req \in ReqIds, PermissionResolve(a, req)
      PROVE  PermsAsked' /\ Posts(<<>>)
  <2>1. /\ a \in DOMAIN registered /\ Enqueue(<<>>) /\ sent' = <<>>
        /\ Update(a, [registered[a] EXCEPT !.pending_permissions =
                                               Retain(@, {req})])
    BY <1>2 DEF PermissionResolve, ClientLine
  <2>2. [registered[a] EXCEPT !.pending_permissions = Retain(@, {req})]
           .pending_permissions \in Seq(Asks[a])
    BY <1>1, <2>1 DEF RegisteredAgent
  <2>3. QED BY <2>1, <2>2, UpdatePerms, PostsNothing
<1>3. ASSUME NEW a \in Agents, NEW req \in ReqIds, PermissionPoll(a, req)
      PROVE  PermsAsked' /\ Posts(<<>>)
  <2>1. /\ a \in DOMAIN registered /\ Enqueue(<<>>) /\ sent' = <<>>
        /\ Update(a, [registered[a] EXCEPT !.resolved_permissions[req] =
                                               NoDecision])
    BY <1>3 DEF PermissionPoll, ClientLine
  <2>2. [registered[a] EXCEPT !.resolved_permissions[req] = NoDecision]
           .pending_permissions \in Seq(Asks[a])
    BY <1>1, <2>1 DEF RegisteredAgent
  <2>3. QED BY <2>1, <2>2, UpdatePerms, PostsNothing
<1>4. ASSUME NEW sid \in Sids, NEW req \in ReqIds, NEW d \in Decisions,
             PermissionRes(sid, req, d)
      PROVE  PermsAsked' /\ Posts(<<>>)
  <2>1. PICK a \in Owners(sid) :
            Update(a, [registered[a] EXCEPT
                         !.pending_permissions = Retain(@, {req}),
                         !.resolved_permissions[req] = d])
    BY <1>4 DEF PermissionRes
  <2>2. a \in DOMAIN registered /\ flush_board_outbox(board_outbox)
    BY <1>4 DEF Owners, PermissionRes, BoardMessage
  <2>3. [registered[a] EXCEPT !.pending_permissions = Retain(@, {req}),
                              !.resolved_permissions[req] = d]
           .pending_permissions \in Seq(Asks[a])
    BY <1>1, <2>2 DEF RegisteredAgent
  <2>4. QED BY <2>1, <2>2, <2>3, UpdatePerms, PostsNothing
<1>5. QED BY <1>2, <1>3, <1>4

(* Withdrawing a sid from its owners changes nothing else of them.         *)
LEMMA ClearedPerms ==
    ASSUME TypeOK, PermsAsked, NEW sid, NEW keep, NEW a \in DOMAIN registered
    PROVE  LET r == clear_board_sid_owners(sid, keep)[a]
           IN  r \in RegisteredAgent /\ r.pending_permissions \in Seq(Asks[a])
<1>1. registered[a] \in RegisteredAgent
  BY RecordType
<1>2. QED BY <1>1 DEF clear_board_sid_owners, RegisteredAgent, PermsAsked

LEMMA SessionResponsePosts ==
    ASSUME TypeOK, RowsInv, PermsAsked, NEW sid \in Sids,
           SessionResponse(sid), OnWire
    PROVE  PermsAsked' /\ \E messages \in Seq(Quiet) : Posts(messages)
<1> DEFINE key == Head(pending_board_sessions)
           cleared == clear_board_sid_owners(sid, {key})
           bound == [cleared[key] EXCEPT !.board_sid = sid]
<1>1. pending_board_sessions # <<>> /\ pending_board_sessions \in Seq(Agents)
  BY DEF SessionResponse, TypeOK
<1>2. key \in ToSet(pending_board_sessions) /\ key \in Agents
  BY <1>1, EmptySeq, LenProperties, HeadTailProperties DEF ToSet
<1>3. key \in DOMAIN registered
  BY <1>2, PendingSoundAsSet DEF RowsInv
<1>4. /\ registered' = [cleared EXCEPT ![key] = bound]
      /\ flush_board_outbox(board_outbox \o board_sync_messages(key, bound))
  BY <1>3 DEF SessionResponse, BoardMessage
<1>5. /\ DOMAIN cleared = DOMAIN registered
      /\ \A a \in DOMAIN registered :
            /\ cleared[a] \in RegisteredAgent
            /\ cleared[a].pending_permissions \in Seq(Asks[a])
  BY ClearedPerms DEF clear_board_sid_owners
<1> HIDE DEF cleared, key
<1>6. bound \in RegisteredAgent /\ bound.pending_permissions \in Seq(Asks[key])
  BY <1>3, <1>5 DEF RegisteredAgent
<1> HIDE DEF bound
<1>7. PermsAsked'
  BY <1>4, <1>5, <1>6, PermsKept
<1>8. board_sync_messages(key, bound) \in Seq(Quiet)
  BY <1>2, <1>6, BoardSyncQuiet
<1>9. Posts(board_sync_messages(key, bound))
  BY <1>4 DEF Posts
<1>10. QED BY <1>7, <1>8, <1>9

LEMMA SilentPosts ==
    ASSUME TypeOK, PermsAsked, OnWire,
           \/ \E a \in Agents : Abort(a)
           \/ ClientFlush \/ ClientGone
           \/ SessionRejected \/ OtherBoardMessage
           \/ \E sid \in Sids : SessionInvalid(sid)
           \/ HeartbeatWakes \/ HidOpens \/ HidReadFails
    PROVE  PermsAsked' /\ Posts(<<>>)
<1>1. UNCHANGED registered => PermsAsked'
  BY DEF PermsAsked
<1>2. CASE \E a \in Agents : Abort(a)
  <2>1. PermsAsked'
    BY <1>2, PermsKept DEF Abort, Without
  <2>2. QED BY <1>2, <2>1, PostsNothing DEF Abort, ClientLine
<1>3. CASE \E sid \in Sids : SessionInvalid(sid)
  <2>1. PermsAsked'
    BY <1>3, ClearedPerms, PermsKept DEF SessionInvalid, clear_board_sid_owners
  <2>2. QED BY <1>3, <2>1, PostsNothing DEF SessionInvalid, BoardMessage
<1>4. CASE \/ ClientFlush \/ ClientGone \/ SessionRejected \/ OtherBoardMessage
           \/ HeartbeatWakes \/ HidOpens \/ HidReadFails
  <2>1. UNCHANGED registered
    BY <1>4 DEF ClientFlush, ClientGone, SessionRejected, OtherBoardMessage,
                HeartbeatWakes, HidOpens, HidReadFails, agentVars
  <2>2. \/ UNCHANGED board_outbox /\ sent' = <<>>
        \/ flush_board_outbox(board_outbox)
    BY <1>4 DEF ClientFlush, ClientGone, SessionRejected, OtherBoardMessage,
                BoardMessage, HeartbeatWakes, HidOpens, HidReadFails
  <2>3. QED BY <1>1, <2>1, <2>2, PostsNothing
<1>5. QED BY <1>2, <1>3, <1>4

LEMMA HeartbeatPosts ==
    ASSUME TypeOK, PermsAsked, HeartbeatLocks, OnWire
    PROVE  PermsAsked' /\ \E messages \in Seq(Quiet) : Posts(messages)
<1> DEFINE owners == {a \in DOMAIN registered :
                         registered[a].board_sid # NoSid}
           own == <<Heartbeat(Broadcast, NoAgent)>>
           beats(order) ==
               [i \in 1 .. Len(order) |->
                  Heartbeat(registered[order[i]].board_sid, order[i])]
<1>1. owners \in SUBSET Agents /\ UNCHANGED registered
  BY DEF TypeOK, HeartbeatLocks, agentVars
<1>2. own \in Seq(Quiet)
  <2>1. Heartbeat(Broadcast, NoAgent) \in HidMessage
    BY MessageType DEF Heartbeat, Cmds
  <2>2. Heartbeat(Broadcast, NoAgent) \in Quiet
    BY <2>1 DEF Quiet, Talk, Heartbeat, Message
  <2>3. QED BY <2>2
<1>3. ASSUME NEW a \in owners
      PROVE  Heartbeat(registered[a].board_sid, a) \in Quiet
  <2>1. a \in Agents /\ registered[a].board_sid \in Sids
    BY RecordType DEF RegisteredAgent
  <2>2. QED BY <2>1, QuietMessage DEF Heartbeat, Cmds
<1>4. PICK order \in SetToSeqs(owners) :
               flush_board_outbox(board_outbox \o own \o beats(order))
  BY DEF HeartbeatLocks
<1> HIDE DEF owners, own
<1>5. order \in Seq(owners)
  BY <1>1, OrderType
<1>6. Len(order) \in Nat /\ \A i \in 1 .. Len(order) : order[i] \in owners
  BY <1>5, LenProperties, ElementOfSeq
<1>7. beats(order) \in Seq(Quiet)
  <2>1. beats(order) \in [1 .. Len(order) -> Quiet]
    BY <1>3, <1>6
  <2>2. QED BY <1>6, <2>1, SeqFromFunction
<1> HIDE DEF beats
<1>8. own \o beats(order) \in Seq(Quiet)
  BY <1>2, <1>7, ConcatProperties
<1>9. board_outbox \o own \o beats(order) = board_outbox \o (own \o beats(order))
  <2>1. /\ board_outbox \in Seq(HidMessage) /\ own \in Seq(HidMessage)
        /\ beats(order) \in Seq(HidMessage)
    BY <1>2, <1>7, QuietIsTalk, SeqMonotonic DEF TypeOK
  <2>2. QED BY <2>1, ConcatAssociative
<1>10. Posts(own \o beats(order))
  BY <1>4, <1>9 DEF Posts
<1>11. PermsAsked'
  BY <1>1 DEF PermsAsked
<1>12. QED BY <1>8, <1>10, <1>11

---------------------------------------------------------------------------
(* The types, and what the types alone do not say: which commands name a   *)
(* row, and that a prompt and an answer are about a request that an agent  *)
(* can have asked for.                                                     *)
FromBoard == [cmd : {"SessionResponse", "SessionRejected", "SessionInvalid",
                     "PermissionRes"},
              sid : Sids \cup {Broadcast},
              req : ReqIds \cup {NoBody},
              decision : Decisions \cup {NoDecision}]

Taken(m) == /\ m.req \in ReqIds /\ m.decision \in Decisions
            /\ \E a \in Agents : /\ m.req \in Asks[a]
                                 /\ <<a, m.req, m.decision>> \in answers

BoardTalk ==
    {m \in FromBoard : /\ m.cmd # "SessionRejected" => m.sid \in Sids
                       /\ m.cmd = "PermissionRes" => Taken(m)}

Prompts == {p \in Agents \X ReqIds : p[2] \in Asks[p[1]]}

Row == [live : BOOLEAN, hint : Agents \cup {NoAgent}, prompts : SUBSET Prompts]

DaemonInv == TypeOK /\ RowsInv /\ PermsAsked

LinkInv == /\ board_outbox \in Seq(Talk) /\ wire \in Seq(Talk)
           /\ upstream \in Seq(BoardTalk)

BoardInv == /\ rows \in [Sids -> Row]
            /\ answers \subseteq Agents \X ReqIds \X Decisions
            /\ withdrawn \in BOOLEAN /\ reissued \subseteq Sids

SysInv == DaemonInv /\ LinkInv /\ BoardInv

(* An agent has no row after a step that it did not have before.           *)
RowsKept ==
    \A a \in DOMAIN registered' :
        registered'[a].board_sid # NoSid =>
            /\ a \in DOMAIN registered
            /\ registered[a].board_sid = registered'[a].board_sid

LEMMA MovedRowsKept ==
    ASSUME NEW joining, NEW asking, NEW gone, RowsMoved(joining, asking, gone)
    PROVE  RowsKept
BY DEF RowsMoved, RowsKept

LEMMA RevokedRowsKept ==
    ASSUME NEW sid, RowRevoked(sid)
    PROVE  RowsKept
BY DEF RowRevoked, RowsKept

(* A step that queues no request for a row and moves none of the waiting.  *)
PostsQuiet == \E messages \in Seq(Quiet) : Posts(messages)

(* New agents get in line, each with a request.                            *)
Joins(slots) ==
    /\ pending_board_sessions' = pending_board_sessions \o slots
    /\ Requests(slots) \in Seq(Talk)
    /\ Posts(Requests(slots))

LinkStep == \/ SysHeartbeatWakes \/ SysHeartbeatLocks \/ SysHidOpens
            \/ SysHidReadFails

LEMMA ResolveForgets ==
    ASSUME TypeOK, NEW a \in Agents, NEW req \in ReqIds,
           PermissionResolve(a, req)
    PROVE  Forgets
<1>1. /\ a \in DOMAIN registered
      /\ registered' = [registered EXCEPT ![a] =
             [registered[a] EXCEPT !.pending_permissions = Retain(@, {req})]]
  BY DEF PermissionResolve, Update
<1>2. registered[a] \in RegisteredAgent
  BY <1>1, RecordType
<1>3. \A b \in DOMAIN registered :
         registered'[b].resolved_permissions = registered[b].resolved_permissions
  BY <1>1, <1>2 DEF RegisteredAgent, TypeOK
<1>4. QED BY <1>1, <1>3, SameDecisions DEF TypeOK

LEMMA ClientShape ==
    ASSUME SysInv, SysClient \/ LinkStep
    PROVE  /\ Next /\ PermsAsked' /\ RowsKept /\ Forgets
           /\ UNCHANGED boardVars
           /\ \/ UNCHANGED pending_board_sessions /\ PostsQuiet
              \/ \E slots \in Seq(Agents) : Joins(slots)
<1>0. TypeOK /\ RowsInv /\ PermsAsked /\ <<>> \in Seq(Quiet)
  BY EmptySeq DEF SysInv, DaemonInv
<1>1. ASSUME NEW r \in Registrations, Register(r), OnWire, UNCHANGED boardVars
      PROVE  /\ Next /\ PermsAsked' /\ RowsKept /\ Forgets
             /\ \E slots \in Seq(Agents) : Joins(slots)
  <2>1. r \in RegisterLines
    BY RegistrationsAssumption
  <2>2. Next
    BY <1>1 DEF Next, ClientStep
  <2>3. PermsAsked' /\ \E slots \in Seq(Agents) : Joins(slots)
    BY <1>0, <1>1, RegisterPosts DEF Joins
  <2>4. RowsKept
    BY <1>0, <1>1, <2>1, RegisterRows, MovedRowsKept
  <2>5. Forgets
    BY <1>0, <1>1, <2>1, RegisterForgets
  <2>6. QED BY <2>2, <2>3, <2>4, <2>5
<1>2. ASSUME NEW a \in Agents, NEW req \in Asks[a],
             \/ PermissionRequest(a, req) \/ PermissionResolve(a, req)
             \/ PermissionPoll(a, req),
             OnWire
      PROVE  /\ Next /\ PermsAsked' /\ RowsKept /\ Forgets
             /\ UNCHANGED pending_board_sessions /\ PostsQuiet
  <2>1. req \in ReqIds
    BY AsksType
  <2>2. Next
    BY <1>2, <2>1 DEF Next, ClientStep
  <2>3. PermsAsked' /\ PostsQuiet
    BY <1>0, <1>2, <2>1, PermissionRequestPosts, SettlingPosts DEF PostsQuiet
  <2>4. RowsKept
    BY <1>0, <1>2, <2>1, PermissionRows, MovedRowsKept
  <2>5. Forgets
    BY <1>0, <1>2, <2>1, PermissionRequestForgets, PermissionPollForgets,
       ResolveForgets
  <2>6. UNCHANGED pending_board_sessions
    BY <1>2 DEF PermissionRequest, PermissionResolve, PermissionPoll
  <2>7. QED BY <2>2, <2>3, <2>4, <2>5, <2>6
<1>3. ASSUME \/ ClientFlush \/ ClientGone \/ HeartbeatWakes \/ HidOpens
             \/ HidReadFails \/ HeartbeatLocks,
             OnWire
      PROVE  /\ Next /\ PermsAsked' /\ RowsKept /\ Forgets
             /\ UNCHANGED pending_board_sessions /\ PostsQuiet
  <2>1. Next
    BY <1>3 DEF Next, ClientStep, OtherStep
  <2>2. PermsAsked' /\ PostsQuiet
    BY <1>0, <1>3, SilentPosts, HeartbeatPosts DEF PostsQuiet
  <2>3. RowsKept
    BY <1>0, <1>3, LinkRows, MovedRowsKept
  <2>4. UNCHANGED <<registered, pending_board_sessions>>
    BY <1>3 DEF ClientFlush, ClientGone, HeartbeatWakes, HidOpens,
                HidReadFails, HeartbeatLocks, agentVars
  <2>5. QED BY <2>1, <2>2, <2>3, <2>4, UnchangedForgets
<1>4. CASE SysClient
  BY <1>1, <1>2, <1>3, <1>4 DEF SysClient
<1>5. CASE LinkStep
  BY <1>3, <1>5 DEF LinkStep, SysHeartbeatWakes, SysHeartbeatLocks,
                    SysHidOpens, SysHidReadFails
<1>6. QED BY <1>4, <1>5

LEMMA AbortShape ==
    ASSUME SysInv, NEW a \in Agents, SysAbort(a)
    PROVE  /\ Next /\ PermsAsked' /\ RowsKept /\ Forgets /\ PostsQuiet
           /\ pending_board_sessions' = Retain(pending_board_sessions, {a})
           /\ withdrawn' = (withdrawn \/ a \in ToSet(pending_board_sessions))
           /\ UNCHANGED <<upstream, rows, answers, reissued>>
<1>1. /\ TypeOK /\ RowsInv /\ PermsAsked /\ <<>> \in Seq(Quiet)
      /\ Abort(a) /\ OnWire
  BY EmptySeq DEF SysInv, DaemonInv, SysAbort
<1>2. Next
  BY <1>1 DEF Next, ClientStep
<1>3. PermsAsked' /\ PostsQuiet
  BY <1>1, SilentPosts DEF PostsQuiet
<1>4. RowsKept
  BY <1>1, AbortRows, MovedRowsKept
<1>5. Forgets
  BY <1>1, AbortForgets
<1>6. pending_board_sessions' = Retain(pending_board_sessions, {a})
  BY <1>1 DEF Abort
<1>7. QED BY <1>2, <1>3, <1>4, <1>5, <1>6 DEF SysAbort

(* The answers m gives are kept under its request id, for one agent.       *)
Records(m) ==
    \E a \in Agents : \A b \in Agents, req \in ReqIds :
        Resolved(b, req)' = IF b = a /\ req = m.req THEN m.decision
                                                    ELSE Resolved(b, req)

LEMMA BoardMessageShape ==
    ASSUME SysInv, SysBoardMessage
    PROVE  /\ Next /\ PermsAsked' /\ PostsQuiet
           /\ upstream # <<>> /\ Head(upstream) \in BoardTalk
           /\ upstream' = Tail(upstream)
           /\ UNCHANGED <<rows, answers, withdrawn>>
           /\ reissued' = Reissued(Head(upstream))
           /\ \/ /\ Head(upstream).cmd = "SessionResponse"
                 /\ pending_board_sessions # <<>>
                 /\ pending_board_sessions' = Tail(pending_board_sessions)
                 /\ RowGranted(Head(pending_board_sessions), Head(upstream).sid)
                 /\ Forgets
              \/ /\ Head(upstream).cmd = "SessionResponse" =>
                       pending_board_sessions = <<>>
                 /\ UNCHANGED pending_board_sessions
                 /\ RowsKept
                 /\ Head(upstream).cmd = "SessionInvalid" =>
                       \A a \in DOMAIN registered' :
                          registered'[a].board_sid # Head(upstream).sid
                 /\ \/ Forgets
                    \/ Head(upstream).cmd = "PermissionRes" /\ Records(Head(upstream))
<1> DEFINE m == Head(upstream)
           waiting == pending_board_sessions
<1>1. /\ TypeOK /\ RowsInv /\ PermsAsked /\ <<>> \in Seq(Quiet)
      /\ upstream \in Seq(BoardTalk)
  BY EmptySeq DEF SysInv, DaemonInv, LinkInv
<1>2. /\ upstream # <<>> /\ upstream' = Tail(upstream) /\ Dispatch(m)
      /\ reissued' = Reissued(m)
      /\ OnWire /\ UNCHANGED <<rows, answers, withdrawn>>
  BY DEF SysBoardMessage
<1>3. m \in BoardTalk
  BY <1>1, <1>2, HeadTailProperties
<1>4. /\ m.cmd # "SessionRejected" => m.sid \in Sids
      /\ m.cmd = "PermissionRes" => m.req \in ReqIds /\ m.decision \in Decisions
  BY <1>3 DEF BoardTalk, Taken
<1> HIDE DEF m
<1>5. CASE m.cmd = "SessionResponse" /\ waiting # <<>>
  <2>1. m.sid \in Sids /\ SessionResponse(m.sid)
    BY <1>2, <1>4, <1>5 DEF Dispatch
  <2>2. /\ PermsAsked' /\ PostsQuiet
        /\ RowGranted(Head(waiting), m.sid) /\ Forgets
    BY <1>1, <1>2, <2>1, SessionResponsePosts, SessionResponseRows,
       SessionResponseForgets DEF PostsQuiet
  <2>3. Next
    BY <2>1 DEF Next, BoardStep
  <2>4. waiting' = Tail(waiting)
    BY <2>1 DEF SessionResponse
  <2>5. QED BY <1>2, <1>3, <1>5, <2>2, <2>3, <2>4 DEF m
<1>6. CASE \/ m.cmd = "SessionResponse" /\ waiting = <<>> /\ SessionRejected
           \/ m.cmd = "SessionRejected" /\ SessionRejected
           \/ m.cmd = "SessionInvalid" /\ SessionInvalid(m.sid)
           \/ m.cmd = "PermissionRes" /\ OtherBoardMessage
  <2>1. \/ SessionRejected \/ OtherBoardMessage
        \/ m.sid \in Sids /\ SessionInvalid(m.sid)
    BY <1>4, <1>6
  <2>2. PermsAsked' /\ PostsQuiet
    BY <1>1, <1>2, <2>1, SilentPosts DEF PostsQuiet
  <2>3. Next
    BY <2>1 DEF Next, BoardStep
  <2>4. RowsKept
    BY <1>1, <2>1, LinkRows, MovedRowsKept, SessionInvalidRows, RevokedRowsKept
  <2>5. Forgets
    BY <1>1, <2>1, UnchangedForgets, SessionInvalidForgets
       DEF SessionRejected, OtherBoardMessage
  <2>6. UNCHANGED waiting
    BY <2>1 DEF SessionRejected, OtherBoardMessage, SessionInvalid
  <2>7. m.cmd = "SessionResponse" => waiting = <<>>
    BY <1>6
  <2>8. m.cmd = "SessionInvalid" =>
           \A a \in DOMAIN registered' : registered'[a].board_sid # m.sid
    <3>1. SUFFICES ASSUME m.cmd = "SessionInvalid"
                   PROVE  \A a \in DOMAIN registered' :
                             registered'[a].board_sid # m.sid
      OBVIOUS
    <3>2. m.sid \in Sids /\ SessionInvalid(m.sid)
      BY <1>4, <1>6, <3>1
    <3>3. RowRevoked(m.sid)
      BY <1>1, <3>2, SessionInvalidRows
    <3>4. QED BY <3>2, <3>3, NoSidAssumption DEF RowRevoked
  <2>9. QED BY <1>2, <1>3, <2>2, <2>3, <2>4, <2>5, <2>6, <2>7, <2>8 DEF m
<1>7. CASE /\ m.cmd = "PermissionRes" /\ Owners(m.sid) # {}
           /\ PermissionRes(m.sid, m.req, m.decision)
  <2>1. m.sid \in Sids /\ m.req \in ReqIds /\ m.decision \in Decisions
    BY <1>4, <1>7
  <2>2. PermsAsked' /\ PostsQuiet
    BY <1>1, <1>2, <1>7, <2>1, SettlingPosts DEF PostsQuiet
  <2>3. Next
    BY <1>7, <2>1 DEF Next, BoardStep
  <2>4. RowsKept
    BY <1>1, <1>7, <2>1, PermissionResRows, MovedRowsKept
  <2>5. PICK a \in Owners(m.sid) : TRUE
    BY <1>7
  <2>6. /\ a \in DOMAIN registered /\ a \in Agents
        /\ registered[a].board_sid = m.sid /\ m.sid # NoSid
    BY <1>1, <2>1, <2>5, RecordType, NoSidAssumption DEF Owners
  <2>7. \A b \in Agents, req \in ReqIds :
           Resolved(b, req)' = IF b = a /\ req = m.req THEN m.decision
                                                       ELSE Resolved(b, req)
    BY <1>1, <1>7, <2>1, <2>6, PermissionResRecords
  <2>8. Records(m)
    BY <2>6, <2>7 DEF Records
  <2>9. UNCHANGED waiting
    BY <1>7 DEF PermissionRes
  <2>10. QED BY <1>2, <1>3, <1>7, <2>2, <2>3, <2>4, <2>8, <2>9 DEF m
<1>8. QED BY <1>2, <1>5, <1>6, <1>7 DEF Dispatch

---------------------------------------------------------------------------
(* The board's steps.                                                      *)
LEMMA ToHostKeeps ==
    ASSUME upstream \in Seq(BoardTalk), answers \subseteq answers',
           NEW m \in BoardTalk', ToHost(m)
    PROVE  upstream' \in Seq(BoardTalk')
<1>1. BoardTalk \subseteq BoardTalk'
  BY DEF BoardTalk, Taken
<1>2. upstream \in Seq(BoardTalk')
  BY <1>1, SeqMonotonic
<1>3. QED BY <1>2, AppendProperties DEF ToHost

LEMMA UpstreamKept ==
    ASSUME upstream \in Seq(BoardTalk), answers \subseteq answers',
           UNCHANGED upstream
    PROVE  upstream' \in Seq(BoardTalk')
<1>1. BoardTalk \subseteq BoardTalk'
  BY DEF BoardTalk, Taken
<1>2. QED BY <1>1, SeqMonotonic

LEMMA UpType ==
    ASSUME NEW sid \in Sids \cup {Broadcast},
           NEW cmd \in {"SessionResponse", "SessionRejected", "SessionInvalid"},
           cmd # "SessionRejected" => sid \in Sids
    PROVE  Up(cmd, sid, NoBody, NoDecision) \in BoardTalk
BY DEF Up, BoardTalk, FromBoard

(* What the board does with one message of the wire.                       *)
LEMMA BoardReadsShape ==
    ASSUME SysInv, BoardReads
    PROVE  /\ wire # <<>> /\ Head(wire) \in Talk /\ wire' = Tail(wire)
           /\ UNCHANGED <<vars, history>>
           /\ \/ /\ Head(wire).cmd = "RequestSession"
                 /\ \/ BoardGrants(Head(wire).agent) \/ BoardRejects
              \/ /\ Head(wire).cmd # "RequestSession"
                 /\ Head(wire).sid \in Sids /\ BoardShows(Head(wire))
              \/ /\ Head(wire).cmd # "RequestSession"
                 /\ Head(wire).sid = Broadcast /\ UNCHANGED <<upstream, rows>>
<1>1. wire # <<>> /\ wire \in Seq(Talk)
  BY DEF SysInv, LinkInv, BoardReads
<1>2. Head(wire) \in Talk
  BY <1>1, HeadTailProperties
<1>3. /\ Head(wire).cmd = "RequestSession" => Head(wire).sid = Broadcast
      /\ Head(wire).sid \in Sids \cup {Broadcast}
  BY <1>2 DEF Talk, HidMessage
<1>4. QED BY <1>1, <1>2, <1>3 DEF BoardReads

LEMMA GrantsType ==
    ASSUME SysInv, NEW a \in Agents \cup {NoAgent}, BoardGrants(a)
    PROVE  rows' \in [Sids -> Row] /\ \E m \in BoardTalk : ToHost(m)
<1>1. PICK s \in FreeSids :
          /\ rows' = [rows EXCEPT ![s] = [live |-> TRUE, hint |-> a,
                                          prompts |-> {}]]
          /\ ToHost(Up("SessionResponse", s, NoBody, NoDecision))
  BY DEF BoardGrants
<1>2. s \in Sids /\ [live |-> TRUE, hint |-> a, prompts |-> {}] \in Row
  BY DEF FreeSids, Row
<1>3. Up("SessionResponse", s, NoBody, NoDecision) \in BoardTalk
  BY <1>2, UpType
<1>4. QED BY <1>1, <1>2, <1>3 DEF SysInv, BoardInv

LEMMA ShowsType ==
    ASSUME SysInv, NEW m \in Talk, m.sid \in Sids, BoardShows(m)
    PROVE  /\ rows' \in [Sids -> Row]
           /\ \A s \in Sids : /\ rows'[s].live = rows[s].live
                              /\ rows'[s].hint = rows[s].hint
           /\ \/ UNCHANGED upstream
              \/ ToHost(Up("SessionInvalid", m.sid, NoBody, NoDecision))
<1>1. rows \in [Sids -> Row] /\ rows[m.sid] \in Row
  BY DEF SysInv, BoardInv
<1>2. CASE UNCHANGED rows
  BY <1>1, <1>2 DEF BoardShows
<1>3. CASE /\ m.cmd = "PermissionReq" /\ UNCHANGED upstream
           /\ rows' = [rows EXCEPT ![m.sid].prompts =
                                       @ \cup {<<m.agent, m.body>>}]
  <2>1. <<m.agent, m.body>> \in Prompts
    BY <1>3, AsksType DEF Talk, Prompts
  <2>2. [rows[m.sid] EXCEPT !.prompts = @ \cup {<<m.agent, m.body>>}] \in Row
    BY <1>1, <2>1 DEF Row
  <2>3. QED BY <1>1, <1>3, <2>2 DEF Row
<1>4. QED BY <1>2, <1>3 DEF BoardShows

(* Prompts disappear, one by one or with their row.                        *)
LEMMA AnswersType ==
    ASSUME SysInv, UserAnswers
    PROVE  /\ rows' \in [Sids -> Row]
           /\ \A s \in Sids : /\ rows'[s].live = rows[s].live
                              /\ rows'[s].hint = rows[s].hint
           /\ answers \subseteq answers'
           /\ answers' \subseteq Agents \X ReqIds \X Decisions
           /\ \E m \in BoardTalk' : m.cmd = "PermissionRes" /\ ToHost(m)
<1>1. PICK s \in Sids, d \in Decisions : \E p \in rows[s].prompts :
          /\ rows' = [rows EXCEPT ![s].prompts = @ \ {p}]
          /\ answers' = answers \cup {<<p[1], p[2], d>>}
          /\ ToHost(Up("PermissionRes", s, p[2], d))
  BY DEF UserAnswers
<1>2. PICK p \in rows[s].prompts :
          /\ rows' = [rows EXCEPT ![s].prompts = @ \ {p}]
          /\ answers' = answers \cup {<<p[1], p[2], d>>}
          /\ ToHost(Up("PermissionRes", s, p[2], d))
  BY <1>1
<1>3. rows \in [Sids -> Row] /\ rows[s] \in Row /\ p \in Prompts
  BY DEF SysInv, BoardInv, Row
<1>4. [rows[s] EXCEPT !.prompts = @ \ {p}] \in Row
  BY <1>3 DEF Row
<1>5. p[1] \in Agents /\ p[2] \in ReqIds /\ p[2] \in Asks[p[1]]
  BY <1>3 DEF Prompts
<1>6. Up("PermissionRes", s, p[2], d) \in BoardTalk'
  <2>1. <<p[1], p[2], d>> \in answers'
    BY <1>2
  <2>2. QED BY <1>5, <2>1 DEF BoardTalk, FromBoard, Taken, Up
<1>7. answers' \subseteq Agents \X ReqIds \X Decisions
  BY <1>2, <1>5 DEF SysInv, BoardInv
<1>8. rows' \in [Sids -> Row]
  BY <1>2, <1>3, <1>4
<1>9. \A t \in Sids : rows'[t].live = rows[t].live /\ rows'[t].hint = rows[t].hint
  BY <1>2, <1>3 DEF Row
<1>10. Up("PermissionRes", s, p[2], d).cmd = "PermissionRes"
  BY DEF Up
<1>11. QED BY <1>2, <1>6, <1>7, <1>8, <1>9, <1>10

LEMMA NoRowType == NoRow \in Row
BY DEF NoRow, Row

LEMMA SysInit_Inv == SysInit => SysInv
<1>1. SUFFICES ASSUME SysInit PROVE SysInv
  OBVIOUS
<1>2. TypeOK /\ RowsInv
  BY <1>1, TypeInit, RowsInit DEF SysInit
<1>3. PermsAsked
  BY <1>1 DEF SysInit, Init, PermsAsked
<1>4. board_outbox = <<>> /\ wire = <<>> /\ upstream = <<>>
  BY <1>1 DEF SysInit, Init
<1>5. LinkInv
  BY <1>4, EmptySeq DEF LinkInv
<1>6. BoardInv
  BY <1>1, NoRowType DEF SysInit, BoardInv
<1>7. QED BY <1>2, <1>3, <1>5, <1>6 DEF SysInv, DaemonInv

(* A step of the daemon, whatever of the board's it reads.                 *)
LEMMA DaemonStepInv ==
    ASSUME SysInv, Next, PermsAsked',
           PostsQuiet \/ \E slots \in Seq(Agents) : Joins(slots),
           UNCHANGED upstream \/ (upstream # <<>> /\ upstream' = Tail(upstream)),
           UNCHANGED <<rows, answers>>, withdrawn' \in BOOLEAN,
           reissued' \subseteq Sids
    PROVE  SysInv'
<1>1. TypeOK' /\ RowsInv'
  BY TypeStep, RowsStep DEF SysInv, DaemonInv
<1>2. PICK messages \in Seq(Talk) : Posts(messages)
  <2>1. \A messages \in Seq(Quiet) : messages \in Seq(Talk)
    BY QuietIsTalk, SeqMonotonic
  <2>2. QED BY <2>1 DEF PostsQuiet, Joins
<1>3. board_outbox' \in Seq(Talk) /\ wire' \in Seq(Talk)
  BY <1>1, <1>2, PostsKeep DEF SysInv, LinkInv
<1>4. upstream' \in Seq(BoardTalk')
  <2>1. upstream \in Seq(BoardTalk)
    BY DEF SysInv, LinkInv
  <2>2. CASE UNCHANGED upstream
    BY <2>1, <2>2, UpstreamKept
  <2>3. CASE upstream # <<>> /\ upstream' = Tail(upstream)
    <3>1. upstream' \in Seq(BoardTalk) /\ BoardTalk' = BoardTalk
      BY <2>1, <2>3, HeadTailProperties DEF BoardTalk, Taken
    <3>2. QED BY <3>1
  <2>4. QED BY <2>2, <2>3
<1>5. BoardInv'
  BY DEF SysInv, BoardInv
<1>6. QED BY <1>1, <1>3, <1>4, <1>5 DEF SysInv, DaemonInv, LinkInv

LEMMA RestartsInv ==
    ASSUME SysInv, BoardRestarts
    PROVE  SysInv'
<1>1. UNCHANGED <<agentVars, board_outbox, replying, heartbeat, history>>
      /\ connected' = FALSE /\ sent' = <<>> /\ wire' = <<>> /\ upstream' = <<>>
      /\ rows' = [s \in Sids |-> NoRow]
  BY DEF BoardRestarts
<1>2. TypeOK'
  <2>1. AgentsTypeOK /\ LinkTypeOK
    BY TypeParts DEF SysInv, DaemonInv
  <2>2. AgentsTypeOK'
    BY <1>1, <2>1 DEF AgentsTypeOK, agentVars, TableOK
  <2>3. LinkTypeOK'
    BY <1>1, <2>1, EmptySeq DEF LinkTypeOK
  <2>4. QED BY <2>2, <2>3, TypeParts
<1>3. RowsInv'
  BY <1>1 DEF SysInv, DaemonInv, RowsInv, SidUnique, PendingSound,
              TerminalsHaveNoRow, agentVars
<1>4. PermsAsked'
  BY <1>1 DEF SysInv, DaemonInv, PermsAsked, agentVars
<1>5. LinkInv'
  BY <1>1, EmptySeq DEF SysInv, LinkInv
<1>6. BoardInv'
  BY <1>1, NoRowType DEF SysInv, BoardInv, history
<1>7. QED BY <1>2, <1>3, <1>4, <1>5, <1>6 DEF SysInv, DaemonInv

(* Steps the daemon has no part in.                                        *)
LEMMA BoardAloneInv ==
    ASSUME SysInv, UNCHANGED vars, wire' \in Seq(Talk),
           upstream' \in Seq(BoardTalk'), rows' \in [Sids -> Row],
           answers' \subseteq Agents \X ReqIds \X Decisions,
           UNCHANGED <<withdrawn, reissued>>
    PROVE  SysInv'
<1>1. TypeOK' /\ RowsInv'
  BY TypeStep, RowsStep DEF SysInv, DaemonInv
<1>2. PermsAsked' /\ board_outbox' \in Seq(Talk)
  BY DEF SysInv, DaemonInv, PermsAsked, LinkInv, vars
<1>3. QED BY <1>1, <1>2 DEF SysInv, DaemonInv, LinkInv, BoardInv

LEMMA SysInvStep == SysInv /\ [SysNext]_sysVars => SysInv'
<1>1. SUFFICES ASSUME SysInv, [SysNext]_sysVars PROVE SysInv'
  OBVIOUS
<1>2. /\ wire \in Seq(Talk) /\ upstream \in Seq(BoardTalk)
      /\ rows \in [Sids -> Row] /\ withdrawn \in BOOLEAN
      /\ reissued \subseteq Sids
      /\ answers \subseteq Agents \X ReqIds \X Decisions
  BY <1>1 DEF SysInv, LinkInv, BoardInv
<1>3. CASE SysClient \/ LinkStep
  <2>1. UNCHANGED <<upstream, rows, answers, withdrawn, reissued>>
    BY <1>1, <1>3, ClientShape DEF boardVars, history
  <2>2. /\ Next /\ PermsAsked'
        /\ PostsQuiet \/ \E slots \in Seq(Agents) : Joins(slots)
    BY <1>1, <1>3, ClientShape
  <2>3. QED BY <1>1, <1>2, <2>1, <2>2, DaemonStepInv
<1>4. ASSUME NEW a \in Agents, SysAbort(a) PROVE SysInv'
  <2>1. /\ Next /\ PermsAsked' /\ PostsQuiet
        /\ withdrawn' = (withdrawn \/ a \in ToSet(pending_board_sessions))
        /\ UNCHANGED <<upstream, rows, answers, reissued>>
    BY <1>1, <1>4, AbortShape
  <2>2. withdrawn' \in BOOLEAN /\ reissued' \subseteq Sids
    BY <1>2, <2>1
  <2>3. QED BY <1>1, <2>1, <2>2, DaemonStepInv
<1>5. CASE SysBoardMessage
  <2>1. /\ Next /\ PermsAsked' /\ PostsQuiet
        /\ upstream # <<>> /\ upstream' = Tail(upstream)
        /\ UNCHANGED <<rows, answers, withdrawn>>
        /\ reissued' = Reissued(Head(upstream)) /\ Head(upstream) \in BoardTalk
    BY <1>1, <1>5, BoardMessageShape
  <2>2. reissued' \subseteq Sids
    BY <1>2, <2>1 DEF Reissued, BoardTalk
  <2>3. QED BY <1>1, <1>2, <2>1, <2>2, DaemonStepInv
<1>6. CASE BoardReads
  <2> DEFINE m == Head(wire)
  <2>1. /\ wire # <<>> /\ m \in Talk /\ wire' = Tail(wire)
        /\ UNCHANGED <<vars, answers, withdrawn, reissued>>
    BY <1>1, <1>6, BoardReadsShape DEF history
  <2>2. wire' \in Seq(Talk)
    BY <1>2, <2>1, HeadTailProperties
  <2>3. ASSUME NEW w \in BoardTalk, ToHost(w)
        PROVE  upstream' \in Seq(BoardTalk')
    <3>1. w \in BoardTalk' /\ answers \subseteq answers'
      BY <2>1 DEF BoardTalk, Taken
    <3>2. QED BY <1>2, <2>3, <3>1, ToHostKeeps
  <2>4. UNCHANGED upstream => upstream' \in Seq(BoardTalk')
    BY <1>2, <2>1, UpstreamKept
  <2>5. rows' \in [Sids -> Row] /\ upstream' \in Seq(BoardTalk')
    <3>1. CASE BoardGrants(m.agent)
      <4>1. m.agent \in Agents \cup {NoAgent}
        BY <2>1 DEF Talk, HidMessage
      <4>2. QED BY <1>1, <2>3, <3>1, <4>1, GrantsType
    <3>2. CASE BoardRejects
      <4>1. Up("SessionRejected", Broadcast, NoBody, NoDecision) \in BoardTalk
        BY UpType
      <4>2. QED BY <1>2, <2>3, <3>2, <4>1 DEF BoardRejects
    <3>3. CASE m.sid \in Sids /\ BoardShows(m)
      <4>1. Up("SessionInvalid", m.sid, NoBody, NoDecision) \in BoardTalk
        BY <3>3, UpType
      <4>2. QED BY <1>1, <2>1, <2>3, <2>4, <3>3, <4>1, ShowsType
    <3>4. CASE UNCHANGED <<upstream, rows>>
      BY <1>2, <2>4, <3>4
    <3>5. QED BY <1>1, <1>6, <3>1, <3>2, <3>3, <3>4, BoardReadsShape
  <2>6. QED BY <1>1, <1>2, <2>1, <2>2, <2>5, BoardAloneInv
<1>7. CASE UserAnswers
  <2>1. /\ rows' \in [Sids -> Row] /\ answers \subseteq answers'
        /\ answers' \subseteq Agents \X ReqIds \X Decisions
        /\ \E m \in BoardTalk' : m.cmd = "PermissionRes" /\ ToHost(m)
    BY <1>1, <1>7, AnswersType
  <2>2. upstream' \in Seq(BoardTalk')
    BY <1>2, <2>1, ToHostKeeps
  <2>3. UNCHANGED <<vars, wire, withdrawn, reissued>>
    BY <1>7 DEF UserAnswers
  <2>4. QED BY <1>1, <1>2, <2>1, <2>2, <2>3, BoardAloneInv
<1>8. ASSUME NEW s \in Sids, BoardFades(s) PROVE SysInv'
  <2>1. /\ UNCHANGED <<vars, wire, upstream, answers, withdrawn, reissued>>
        /\ rows' \in [Sids -> Row]
    BY <1>2, <1>8, NoRowType DEF BoardFades, history
  <2>2. upstream' \in Seq(BoardTalk')
    BY <1>2, <2>1, UpstreamKept
  <2>3. QED BY <1>1, <1>2, <2>1, <2>2, BoardAloneInv
<1>9. CASE UNCHANGED sysVars
  <2>1. UNCHANGED <<vars, wire, upstream, rows, answers, withdrawn, reissued>>
    BY <1>9 DEF sysVars, boardVars, history
  <2>2. upstream' \in Seq(BoardTalk')
    BY <1>2, <2>1, UpstreamKept
  <2>3. QED BY <1>1, <1>2, <2>1, <2>2, BoardAloneInv
<1>10. QED BY <1>1, <1>3, <1>4, <1>5, <1>6, <1>7, <1>8, <1>9, RestartsInv
           DEF SysNext, LinkStep

LEMMA SysInvCorrect == SysSpec => []SysInv
BY SysInit_Inv, SysInvStep, PTL DEF SysSpec

(* The daemon, the link and the board keep to their types, whatever the    *)
(* board rejects, forgets or loses: the daemon reads a row's sid in every  *)
(* message that must have one, and shows prompts of its agents only.       *)
THEOREM SysTypeCorrect == SysSpec => []SysTypeOK
<1>1. SysInv => SysTypeOK
  <2>1. SUFFICES ASSUME SysInv PROVE SysTypeOK
    OBVIOUS
  <2>2. wire \in Seq(HidMessage)
    BY <2>1, QuietIsTalk, SeqMonotonic DEF SysInv, LinkInv
  <2>3. upstream \in Seq(FromBoard)
    <3>1. BoardTalk \subseteq FromBoard
      BY DEF BoardTalk
    <3>2. QED BY <2>1, <3>1, SeqMonotonic DEF SysInv, LinkInv
  <2>4. rows \in [Sids -> [live : BOOLEAN, hint : Agents \cup {NoAgent},
                           prompts : SUBSET (Agents \X ReqIds)]]
    BY <2>1 DEF SysInv, BoardInv, Row, Prompts
  <2>5. QED BY <2>1, <2>2, <2>3, <2>4
            DEF SysTypeOK, SysInv, DaemonInv, BoardInv, FromBoard
<1>2. QED BY SysInvCorrect, <1>1, PTL

---------------------------------------------------------------------------
(* Decisions.  PERMISSION_RES names a sid and a request; the agent it is   *)
(* kept for is whoever holds the sid when it is read.                      *)
LEMMA DecisionsStep ==
    ASSUME SysInv, [SysNext]_sysVars
    PROVE  /\ answers \subseteq answers'
           /\ Forgets \/ \E m \in BoardTalk : Taken(m) /\ Records(m)
<1>1. CASE SysClient \/ LinkStep
  BY <1>1, ClientShape DEF boardVars, history
<1>2. ASSUME NEW a \in Agents, SysAbort(a)
      PROVE  Forgets /\ UNCHANGED answers
  BY <1>2, AbortShape
<1>3. CASE SysBoardMessage
  <2>1. UNCHANGED answers /\ Head(upstream) \in BoardTalk
    BY <1>3, BoardMessageShape DEF history
  <2>2. \/ Forgets
        \/ Head(upstream).cmd = "PermissionRes" /\ Records(Head(upstream))
    BY <1>3, BoardMessageShape
  <2>3. Head(upstream).cmd = "PermissionRes" => Taken(Head(upstream))
    BY <2>1 DEF BoardTalk
  <2>4. QED BY <2>1, <2>2, <2>3
<1>4. CASE BoardReads \/ BoardRestarts
  <2>1. UNCHANGED <<registered, answers>>
    BY <1>4 DEF BoardReads, BoardRestarts, vars, agentVars, history
  <2>2. QED BY <2>1, UnchangedForgets
<1>5. CASE UserAnswers
  <2>1. UNCHANGED registered /\ answers \subseteq answers'
    BY <1>5 DEF UserAnswers, vars, agentVars
  <2>2. QED BY <2>1, UnchangedForgets
<1>6. ASSUME (\E s \in Sids : BoardFades(s)) \/ UNCHANGED sysVars
      PROVE  Forgets /\ UNCHANGED answers
  <2>1. UNCHANGED <<registered, answers>>
    BY <1>6 DEF BoardFades, sysVars, boardVars, vars, agentVars, history
  <2>2. QED BY <2>1, UnchangedForgets
<1>7. QED BY <1>1, <1>2, <1>3, <1>4, <1>5, <1>6 DEF SysNext, LinkStep

(* Every decision the daemon keeps for a request of an agent is the user's.*)
Told == \A a \in Agents : \A req \in Asks[a] :
            Resolved(a, req) # NoDecision => <<a, req, Resolved(a, req)>> \in answers

LEMMA ToldStep ==
    ASSUME \A a, b \in Agents : a # b => Asks[a] \cap Asks[b] = {},
           SysInv, Told, [SysNext]_sysVars
    PROVE  Told'
<1>1. answers \subseteq answers'
  BY DecisionsStep
<1>2. SUFFICES ASSUME NEW a \in Agents, NEW req \in Asks[a],
                      Resolved(a, req)' # NoDecision
               PROVE  <<a, req, Resolved(a, req)'>> \in answers
  BY <1>1 DEF Told
<1>3. req \in ReqIds
  BY AsksType
<1>4. CASE Forgets
  BY <1>2, <1>3, <1>4 DEF Told, Forgets
<1>5. ASSUME NEW m \in BoardTalk, Taken(m), Records(m)
      PROVE  <<a, req, Resolved(a, req)'>> \in answers
  <2>1. PICK b \in Agents :
            \A c \in Agents, q \in ReqIds :
               Resolved(c, q)' = IF c = b /\ q = m.req THEN m.decision
                                                       ELSE Resolved(c, q)
    BY <1>5 DEF Records
  <2>2. CASE a = b /\ req = m.req
    <3>1. Resolved(a, req)' = m.decision
      BY <1>3, <2>1, <2>2
    <3>2. PICK c \in Agents : /\ m.req \in Asks[c]
                              /\ <<c, m.req, m.decision>> \in answers
      BY <1>5 DEF Taken
    <3>3. c = a
      BY <2>2, <3>2
    <3>4. QED BY <2>2, <3>1, <3>2, <3>3
  <2>3. CASE ~(a = b /\ req = m.req)
    <3>1. Resolved(a, req)' = Resolved(a, req)
      BY <1>3, <2>1, <2>3
    <3>2. QED BY <1>2, <3>1 DEF Told
  <2>4. QED BY <2>2, <2>3
<1>6. QED BY <1>4, <1>5, DecisionsStep

(* No hook ever polls an answer that the user gave to another agent or to  *)
(* another request, although the message that carries it names neither:    *)
(* not when the sid changed hands while the prompt or the answer was on    *)
(* its way, and not after the agent was aborted and registered again.      *)
(* Request ids of different agents must differ.                            *)
THEOREM DecisionsAreTheUsers ==
    ASSUME \A a, b \in Agents : a # b => Asks[a] \cap Asks[b] = {}
    PROVE  SysSpec => []AnswerIsTheUsers
<1>1. SysInit => Told
  BY DEF SysInit, Init, Told, Resolved
<1>2. SysInv /\ Told /\ [SysNext]_sysVars => Told'
  BY ToldStep
<1>3. SysInv /\ Told => AnswerIsTheUsers
  BY DEF SysInv, DaemonInv, TypeOK, Told, Resolved, AnswerIsTheUsers
<1>4. QED BY SysInvCorrect, <1>1, <1>2, <1>3, PTL DEF SysSpec

---------------------------------------------------------------------------
(* Requests and grants: each agent that waits is good for one of them.     *)
Asked(s) == Carrying(s, "RequestSession")
Granted == Carrying(upstream, "SessionResponse")

LEMMA RequestsCount ==
    ASSUME NEW slots \in Seq(Agents)
    PROVE  Asked(Requests(slots)) = Len(slots)
<1>1. Len(slots) \in Nat
  BY LenProperties
<1>2. \A k \in 1 .. Len(slots) : Requests(slots)[k].cmd = "RequestSession"
  BY DEF Requests, RequestSession, Message
<1>3. Len(Requests(slots)) = Len(slots)
  BY <1>1 DEF Requests
<1>4. QED BY <1>1, <1>2, <1>3, CarryingAll DEF Asked, Carrying

LEMMA ToHostCounts ==
    ASSUME SysInv, NEW m, ToHost(m), NEW c
    PROVE  /\ Carrying(upstream', c)
                 = Carrying(upstream, c) + (IF m.cmd = c THEN 1 ELSE 0)
           /\ Carrying(upstream, c) \in Nat
<1> DEFINE n == Len(upstream)
           u == upstream'
<1>1. upstream \in Seq(BoardTalk)
  BY DEF SysInv, LinkInv
<1>2. /\ n \in Nat /\ Len(u) = n + 1 /\ u[n + 1] = m
      /\ \A k \in 1 .. n : u[k] = upstream[k]
  BY <1>1 DEF ToHost
<1> HIDE DEF u, n
<1>3. UpTo(u, c, n + 1) = UpTo(u, c, n) + (IF u[n + 1].cmd = c THEN 1 ELSE 0)
  BY <1>2, UpToStep
<1>4. UpTo(upstream, c, n) = UpTo(u, c, n)
  BY <1>2, UpToSame
<1>5. Carrying(u, c) = Carrying(upstream, c) + (IF m.cmd = c THEN 1 ELSE 0)
  BY <1>2, <1>3, <1>4 DEF Carrying, n
<1>6. QED BY <1>1, <1>5, CarryingType DEF u

Served == Len(pending_board_sessions) <= Asked(board_outbox) + Asked(wire) + Granted

LEMMA ServedTypes ==
    ASSUME SysInv
    PROVE  /\ Len(pending_board_sessions) \in Nat
           /\ Asked(board_outbox) \in Nat /\ Asked(wire) \in Nat /\ Granted \in Nat
           /\ pending_board_sessions \in Seq(Agents)
BY CarryingType, LenProperties
   DEF SysInv, DaemonInv, LinkInv, TypeOK, Asked, Granted

LEMMA ServedTypesNext ==
    ASSUME SysInv'
    PROVE  /\ Len(pending_board_sessions') \in Nat
           /\ Asked(board_outbox') \in Nat /\ Asked(wire') \in Nat
           /\ Granted' \in Nat
BY CarryingType, LenProperties
   DEF SysInv, DaemonInv, LinkInv, TypeOK, Asked, Granted

(* What the daemon posts keeps the requests there are.                     *)
LEMMA PostsAsked ==
    ASSUME SysInv, SysInv', NEW messages \in Seq(Talk), Posts(messages)
    PROVE  /\ Asked(messages) \in Nat
           /\ Asked(wire') + Asked(board_outbox')
                 >= Asked(wire) + Asked(board_outbox) + Asked(messages)
<1>1. TypeOK' /\ board_outbox \in Seq(Talk) /\ wire \in Seq(Talk)
  BY DEF SysInv, DaemonInv, LinkInv
<1>2. QED BY <1>1, PostsKeep, CarryingType DEF Asked

LEMMA QuietAsked ==
    ASSUME NEW messages \in Seq(Quiet)
    PROVE  messages \in Seq(Talk) /\ Asked(messages) = 0
<1>1. /\ Len(messages) \in Nat
      /\ \A k \in 1 .. Len(messages) : messages[k] \in Quiet
  BY LenProperties, ElementOfSeq
<1>2. \A k \in 1 .. Len(messages) : messages[k].cmd # "RequestSession"
  BY <1>1 DEF Quiet
<1>3. Asked(messages) = 0
  BY <1>1, <1>2, CarryingNone DEF Asked, Carrying
<1>4. QED BY <1>3, QuietIsTalk, SeqMonotonic

LEMMA PostsQuietAsked ==
    ASSUME SysInv, SysInv', PostsQuiet
    PROVE  Asked(wire') + Asked(board_outbox') >= Asked(wire) + Asked(board_outbox)
<1>1. PICK messages \in Seq(Quiet) : Posts(messages)
  BY DEF PostsQuiet
<1>2. messages \in Seq(Talk) /\ Asked(messages) = 0
  BY QuietAsked
<1>3. QED BY <1>1, <1>2, PostsAsked, ServedTypes

LEMMA BoardServes ==
    ASSUME BoardEvents \cap {"rejects", "restarts"} = {},
           SysInv, Served, BoardReads
    PROVE  Served'
<1>1. /\ wire # <<>> /\ wire' = Tail(wire) /\ wire \in Seq(Talk)
      /\ UNCHANGED <<pending_board_sessions, board_outbox>>
  BY BoardReadsShape DEF SysInv, LinkInv, vars, agentVars
<1>2. /\ Asked(wire) = First(wire, "RequestSession") + Asked(wire')
      /\ Asked(wire') \in Nat
  <2>1. Carrying(wire, "RequestSession") =
            First(wire, "RequestSession") + Carrying(Tail(wire), "RequestSession")
    BY <1>1, CarryingTail
  <2> DEFINE rest == Tail(wire)
  <2>2. rest \in Seq(Talk)
    BY <1>1, HeadTailProperties
  <2> HIDE DEF rest
  <2>3. Carrying(rest, "RequestSession") \in Nat
    BY <2>2, CarryingType
  <2>4. QED BY <1>1, <2>1, <2>3 DEF Asked, rest
<1>3. First(wire, "RequestSession") \in {0, 1}
  BY DEF First
<1>4. CASE /\ Head(wire).cmd = "RequestSession"
           /\ BoardGrants(Head(wire).agent)
  <2>1. PICK s : ToHost(Up("SessionResponse", s, NoBody, NoDecision))
    BY <1>4 DEF BoardGrants
  <2>2. Granted' = Granted + 1
    BY <2>1, ToHostCounts DEF Granted, Up
  <2>3. QED BY <1>1, <1>2, <1>3, <2>2, ServedTypes DEF Served
<1>5. CASE /\ Head(wire).cmd # "RequestSession"
           /\ UNCHANGED upstream \/ \E m : ToHost(m)
  <2>1. First(wire, "RequestSession") = 0
    BY <1>5 DEF First
  <2>2. Granted' >= Granted
    <3>1. CASE UNCHANGED upstream
      BY <3>1, ServedTypes DEF Granted
    <3>2. ASSUME NEW m, ToHost(m) PROVE Granted' >= Granted
      BY <3>2, ToHostCounts DEF Granted
    <3>3. QED BY <1>5, <3>1, <3>2
  <2>3. Asked(wire) = Asked(wire') /\ Asked(board_outbox') = Asked(board_outbox)
    BY <1>1, <1>2, <2>1
  <2>4. Granted' \in Nat
    <3>1. CASE UNCHANGED upstream
      BY <3>1, ServedTypes DEF Granted
    <3>2. ASSUME NEW m, ToHost(m) PROVE Granted' \in Nat
      BY <3>2, ToHostCounts DEF Granted
    <3>3. QED BY <1>5, <3>1, <3>2
  <2>5. QED BY <1>1, <2>2, <2>3, <2>4, ServedTypes DEF Served
<1>6. \/ Head(wire).cmd = "RequestSession" /\ BoardGrants(Head(wire).agent)
      \/ /\ Head(wire).cmd # "RequestSession"
         /\ BoardShows(Head(wire)) \/ UNCHANGED upstream
  BY BoardReadsShape DEF BoardRejects
<1>7. BoardShows(Head(wire)) => UNCHANGED upstream \/ \E m : ToHost(m)
  BY DEF BoardShows
<1>8. QED BY <1>4, <1>5, <1>6, <1>7

(* A row is granted to one agent that waits; an answer for nobody is the   *)
(* only grant that is lost.                                                *)
LEMMA MessageServes ==
    ASSUME SysInv, SysInv', Served, SysBoardMessage
    PROVE  Served'
<1>1. /\ PostsQuiet /\ upstream # <<>> /\ upstream' = Tail(upstream)
      /\ upstream \in Seq(BoardTalk)
  BY BoardMessageShape DEF SysInv, LinkInv
<1>2. Asked(wire') + Asked(board_outbox') >= Asked(wire) + Asked(board_outbox)
  BY <1>1, PostsQuietAsked
<1>3. Granted = First(upstream, "SessionResponse") + Granted'
  BY <1>1, CarryingTail DEF Granted
<1>4. CASE /\ pending_board_sessions # <<>>
           /\ pending_board_sessions' = Tail(pending_board_sessions)
  <2>1. Len(pending_board_sessions') = Len(pending_board_sessions) - 1
    BY <1>4, ServedTypes, HeadTailProperties
  <2>2. First(upstream, "SessionResponse") \in {0, 1}
    BY DEF First
  <2>3. QED BY <1>2, <1>3, <2>1, <2>2, ServedTypes, ServedTypesNext DEF Served
<1>5. CASE /\ Head(upstream).cmd # "SessionResponse"
           /\ UNCHANGED pending_board_sessions
  <2>1. First(upstream, "SessionResponse") = 0
    BY <1>5 DEF First
  <2>2. QED BY <1>2, <1>3, <1>5, <2>1, ServedTypes, ServedTypesNext DEF Served
<1>6. CASE pending_board_sessions' = <<>>
  <2>1. Len(pending_board_sessions') = 0
    BY <1>6
  <2>2. QED BY <2>1, ServedTypesNext DEF Served
<1>7. QED BY <1>4, <1>5, <1>6, BoardMessageShape

LEMMA ServedStep ==
    ASSUME BoardEvents \cap {"rejects", "restarts"} = {},
           SysInv, SysInv', Served, [SysNext]_sysVars
    PROVE  Served'
<1>1. CASE SysClient \/ LinkStep
  <2>1. Granted' = Granted
    BY <1>1, ClientShape DEF boardVars, Granted
  <2>2. CASE UNCHANGED pending_board_sessions /\ PostsQuiet
    BY <2>1, <2>2, PostsQuietAsked, ServedTypes, ServedTypesNext DEF Served
  <2>3. ASSUME NEW slots \in Seq(Agents), Joins(slots) PROVE Served'
    <3>1. /\ Requests(slots) \in Seq(Talk) /\ Posts(Requests(slots))
          /\ pending_board_sessions' = pending_board_sessions \o slots
      BY <2>3 DEF Joins
    <3>2. Asked(wire') + Asked(board_outbox')
             >= Asked(wire) + Asked(board_outbox) + Len(slots)
      BY <3>1, PostsAsked, RequestsCount
    <3>3. /\ Len(pending_board_sessions') = Len(pending_board_sessions) + Len(slots)
          /\ Len(slots) \in Nat
      BY <3>1, ServedTypes, ConcatProperties, LenProperties
    <3>4. QED BY <2>1, <3>2, <3>3, ServedTypes, ServedTypesNext DEF Served
  <2>4. QED BY <1>1, <2>2, <2>3, ClientShape
<1>2. ASSUME NEW a \in Agents, SysAbort(a) PROVE Served'
  <2>1. /\ PostsQuiet /\ Granted' = Granted
        /\ pending_board_sessions' = Retain(pending_board_sessions, {a})
    BY <1>2, AbortShape DEF Granted
  <2>2. Len(pending_board_sessions') <= Len(pending_board_sessions)
    BY <2>1, RetainLength, ServedTypes
  <2>3. QED BY <2>1, <2>2, PostsQuietAsked, ServedTypes, ServedTypesNext DEF Served
<1>3. CASE UserAnswers
  <2>1. UNCHANGED <<pending_board_sessions, board_outbox, wire>>
    BY <1>3 DEF UserAnswers, vars, agentVars
  <2>2. PICK m : ToHost(m)
    BY <1>3 DEF UserAnswers
  <2>3. Granted' >= Granted /\ Granted' \in Nat
    BY <2>2, ToHostCounts DEF Granted
  <2>4. QED BY <2>1, <2>3, ServedTypes DEF Served
<1>4. CASE (\E s \in Sids : BoardFades(s)) \/ UNCHANGED sysVars
  <2>1. UNCHANGED <<pending_board_sessions, board_outbox, wire, upstream>>
    BY <1>4 DEF BoardFades, sysVars, boardVars, vars, agentVars
  <2>2. QED BY <2>1 DEF Served, Asked, Granted
<1>5. ~BoardRestarts
  BY DEF BoardRestarts
<1>6. QED BY <1>1, <1>2, <1>3, <1>4, <1>5, BoardServes, MessageServes
             DEF SysNext, LinkStep

(* Nobody waits in vain: registrations, aborts, failed and repeated sends  *)
(* leave at least one request or grant under way for each agent in line.   *)
(* A board that rejects requests or restarts is not covered: the daemon    *)
(* keeps the waiting in line then and asks for nobody again.               *)
THEOREM WaitersAreServed ==
    ASSUME BoardEvents \cap {"rejects", "restarts"} = {}
    PROVE  SysSpec => []EveryWaiterServed
<1>1. SysInit => Served
  <2>1. SUFFICES ASSUME SysInit PROVE Served
    OBVIOUS
  <2>2. /\ pending_board_sessions = <<>> /\ board_outbox = <<>>
        /\ wire = <<>> /\ upstream = <<>>
    BY <2>1 DEF SysInit, Init
  <2>3. Asked(<<>>) = 0 /\ Carrying(<<>>, "SessionResponse") = 0
    BY EmptySeq, CarryingType DEF Asked
  <2>4. QED BY <2>2, <2>3 DEF Served, Granted
<1>2. SysInv /\ SysInv' /\ Served /\ [SysNext]_sysVars => Served'
  BY ServedStep
<1>3. SysInv /\ Served => EveryWaiterServed
  <2>1. SUFFICES ASSUME SysInv, Served PROVE EveryWaiterServed
    OBVIOUS
  <2>2. ASSUME NEW S, NEW s \in Seq(S)
        PROVE  /\ Count(s, IsRequest) = Asked(s)
               /\ Count(s, IsGrant) = Carrying(s, "SessionResponse")
    <3>1. DOMAIN s = 1 .. Len(s)
      BY LenProperties
    <3>2. QED BY <3>1 DEF Count, IsRequest, IsGrant, Asked, Carrying, UpTo, Ups
  <2>3. /\ board_outbox \in Seq(Talk) /\ wire \in Seq(Talk)
        /\ upstream \in Seq(BoardTalk)
    BY <2>1 DEF SysInv, LinkInv
  <2>4. /\ Count(board_outbox, IsRequest) = Asked(board_outbox)
        /\ Count(wire, IsRequest) = Asked(wire)
        /\ Count(upstream, IsGrant) = Granted
    BY <2>2, <2>3 DEF Granted
  <2>5. QED BY <2>1, <2>4 DEF Served, EveryWaiterServed
<1>4. QED BY SysInvCorrect, <1>1, <1>2, <1>3, PTL DEF SysSpec

---------------------------------------------------------------------------
(* Who a grant is for.  SESSION_RESPONSE names no agent; the daemon gives  *)
(* it to the first in line, the board made the row for the agent of the    *)
(* request it answers.  Both mean the same agent because the line of those *)
(* who wait is, in order, the line of grants and requests under way: g     *)
(* grants on the way back, then the requests of `line`, queue p of agents. *)
InLine(p, g, line) ==
    /\ Len(p) = g + Asked(line)
    /\ \A i \in 1 .. Len(line) :
          line[i].cmd = "RequestSession" =>
              p[g + UpTo(line, "RequestSession", i)] = line[i].agent

LEMMA UpToRank ==
    ASSUME NEW s, NEW c, NEW n \in Nat, NEW i \in 1 .. n
    PROVE  /\ UpTo(s, c, i) \in 0 .. UpTo(s, c, n)
           /\ s[i].cmd = c => UpTo(s, c, i) >= 1
<1>1. i \in Nat /\ i - 1 \in Nat /\ (i - 1) + 1 = i
  OBVIOUS
<1>2. /\ UpTo(s, c, i) \in Nat /\ UpTo(s, c, i - 1) \in Nat
      /\ UpTo(s, c, (i - 1) + 1) =
            UpTo(s, c, i - 1) + (IF s[(i - 1) + 1].cmd = c THEN 1 ELSE 0)
  BY <1>1, UpToStep
<1>3. IsFiniteSet(Ups(s, c, n))
  <2>1. Ups(s, c, n) \in SUBSET (1 .. n) /\ IsFiniteSet(1 .. n)
    BY FS_Interval DEF Ups
  <2>2. QED BY <2>1, FS_Subset
<1>4. Ups(s, c, i) \in SUBSET Ups(s, c, n)
  BY DEF Ups
<1>5. Cardinality(Ups(s, c, i)) <= Cardinality(Ups(s, c, n))
  BY <1>3, <1>4, FS_Subset
<1>6. UpTo(s, c, n) \in Nat
  BY UpToStep
<1>7. UpTo(s, c, i) <= UpTo(s, c, n)
  BY <1>5 DEF UpTo
<1>8. QED BY <1>1, <1>2, <1>6, <1>7

LEMMA AskedRank ==
    ASSUME NEW S, NEW s \in Seq(S), NEW c
    PROVE  \A i \in 1 .. Len(s) :
              /\ UpTo(s, c, i) \in 0 .. Carrying(s, c)
              /\ s[i].cmd = c => UpTo(s, c, i) \in 1 .. Carrying(s, c)
<1>1. Len(s) \in Nat
  BY LenProperties
<1>2. SUFFICES ASSUME NEW i \in 1 .. Len(s)
               PROVE  /\ UpTo(s, c, i) \in 0 .. Carrying(s, c)
                      /\ s[i].cmd = c => UpTo(s, c, i) \in 1 .. Carrying(s, c)
  OBVIOUS
<1>3. /\ UpTo(s, c, i) \in 0 .. UpTo(s, c, Len(s))
      /\ s[i].cmd = c => UpTo(s, c, i) >= 1
  BY <1>1, UpToRank
<1>4. Carrying(s, c) \in Nat
  BY CarryingType
<1>5. QED BY <1>3, <1>4 DEF Carrying

(* New agents get in line with their requests; other messages, the empty   *)
(* list of newcomers among them, change nothing.                           *)
LEMMA InLineMore ==
    ASSUME NEW p \in Seq(Agents), NEW g \in Nat, NEW line \in Seq(Talk),
           InLine(p, g, line), NEW slots \in Seq(Agents),
           NEW messages \in Seq(Talk), Asked(messages) = Len(slots),
           \A i \in 1 .. Len(messages) :
              messages[i].cmd = "RequestSession" =>
                  slots[UpTo(messages, "RequestSession", i)] = messages[i].agent
    PROVE  InLine(p \o slots, g, line \o messages)
<1> DEFINE c == "RequestSession"
           l == line \o messages
           q == p \o slots
           n == Len(line)
<1>1. /\ Len(p) \in Nat /\ n \in Nat /\ Len(messages) \in Nat
      /\ Len(slots) \in Nat /\ Asked(line) \in Nat
      /\ Len(q) = Len(p) + Len(slots)
      /\ \A k \in 1 .. Len(p) : q[k] = p[k]
      /\ \A k \in 1 .. Len(slots) : q[Len(p) + k] = slots[k]
      /\ Len(l) = n + Len(messages)
      /\ \A k \in 1 .. n : l[k] = line[k]
      /\ \A k \in 1 .. Len(messages) : l[n + k] = messages[k]
  <2>1. Asked(line) \in Nat
    BY CarryingType DEF Asked
  <2>2. /\ Len(q) = Len(p) + Len(slots)
        /\ \A k \in 1 .. Len(p) : q[k] = p[k]
        /\ \A k \in 1 .. Len(slots) : q[Len(p) + k] = slots[k]
    BY ConcatProperties
  <2>3. /\ Len(l) = n + Len(messages)
        /\ \A k \in 1 .. n : l[k] = line[k]
        /\ \A k \in 1 .. Len(messages) : l[n + k] = messages[k]
    BY ConcatProperties
  <2>4. QED BY <2>1, <2>2, <2>3, LenProperties
<1>2. /\ Carrying(l, c) = Carrying(line, c) + Carrying(messages, c)
      /\ \A i \in 0 .. n : UpTo(l, c, i) = UpTo(line, c, i)
      /\ \A i \in 0 .. Len(messages) :
            UpTo(l, c, n + i) = Carrying(line, c) + UpTo(messages, c, i)
  <2> HIDE DEF c
  <2>1. Carrying(l, c) = Carrying(line, c) + Carrying(messages, c)
    BY CarryingConcat
  <2>2. ASSUME NEW i \in 0 .. n PROVE UpTo(l, c, i) = UpTo(line, c, i)
    <3>1. i \in Nat /\ \A k \in 1 .. i : l[k] = line[k]
      BY <1>1
    <3> HIDE DEF l
    <3>2. QED BY <3>1, UpToSame
  <2>3. \A i \in 0 .. Len(messages) :
           UpTo(l, c, n + i) = Carrying(line, c) + UpTo(messages, c, i)
    BY CarryingConcat
  <2>4. QED BY <2>1, <2>2, <2>3
<1> HIDE DEF l, q, n
<1>3. Len(q) = g + Asked(l)
  BY <1>1, <1>2 DEF InLine, Asked
<1>4. ASSUME NEW i \in 1 .. n, l[i].cmd = c
      PROVE  q[g + UpTo(l, c, i)] = l[i].agent
  <2>1. UpTo(line, c, i) \in 1 .. Asked(line)
    BY <1>1, <1>4, AskedRank DEF Asked, n
  <2>2. p[g + UpTo(line, c, i)] = line[i].agent
    BY <1>1, <1>4 DEF InLine, n
  <2>3. g + UpTo(line, c, i) \in 1 .. Len(p)
    BY <1>1, <2>1 DEF InLine
  <2>4. UpTo(l, c, i) = UpTo(line, c, i)
    BY <1>1, <1>2
  <2>5. QED BY <1>1, <2>2, <2>3, <2>4
<1>5. ASSUME NEW k \in 1 .. Len(messages), l[n + k].cmd = c
      PROVE  q[g + UpTo(l, c, n + k)] = l[n + k].agent
  <2>1. UpTo(messages, c, k) \in 1 .. Len(slots)
    BY <1>1, <1>5, AskedRank DEF Asked
  <2>2. UpTo(l, c, n + k) = Asked(line) + UpTo(messages, c, k)
    BY <1>1, <1>2 DEF Asked
  <2>3. g + UpTo(l, c, n + k) = Len(p) + UpTo(messages, c, k)
    BY <1>1, <2>1, <2>2 DEF InLine
  <2>4. l[n + k] = messages[k]
    BY <1>1, <1>5
  <2>5. slots[UpTo(messages, c, k)] = messages[k].agent
    BY <1>5, <2>4
  <2>6. q[Len(p) + UpTo(messages, c, k)] = slots[UpTo(messages, c, k)]
    BY <1>1, <2>1
  <2>7. QED BY <2>3, <2>4, <2>5, <2>6
<1>6. ASSUME NEW i \in 1 .. Len(l), l[i].cmd = c
      PROVE  q[g + UpTo(l, c, i)] = l[i].agent
  <2>1. CASE i \in 1 .. n
    BY <1>4, <1>6, <2>1
  <2>2. CASE i \notin 1 .. n
    <3>1. i - n \in 1 .. Len(messages) /\ n + (i - n) = i
      BY <1>1, <2>2
    <3>2. QED BY <1>5, <1>6, <3>1
  <2>3. QED BY <2>1, <2>2
<1>7. QED BY <1>3, <1>6 DEF InLine, l, q

(* The board reads the first message under way; a request becomes a grant. *)
LEMMA InLineRead ==
    ASSUME NEW p \in Seq(Agents), NEW g \in Nat, NEW line \in Seq(Talk),
           InLine(p, g, line), line # <<>>
    PROVE  /\ Head(line).cmd = "RequestSession" =>
                 /\ InLine(p, g + 1, Tail(line))
                 /\ g + 1 \in 1 .. Len(p) /\ p[g + 1] = Head(line).agent
           /\ Head(line).cmd # "RequestSession" => InLine(p, g, Tail(line))
<1> DEFINE c == "RequestSession"
           t == Tail(line)
           d == First(line, c)
<1>1. /\ Len(line) \in Nat \ {0} /\ Len(t) = Len(line) - 1 /\ t \in Seq(Talk)
      /\ \A i \in 1 .. Len(t) : t[i] = line[i + 1]
  BY EmptySeq, HeadTailProperties
<1>2. /\ Asked(line) = d + Asked(t)
      /\ \A i \in 0 .. Len(t) : UpTo(line, c, i + 1) = d + UpTo(t, c, i)
  <2> HIDE DEF c
  <2>1. ASSUME NEW e PROVE /\ Carrying(line, e) = First(line, e) + Carrying(t, e)
                           /\ \A i \in 0 .. Len(t) :
                                 UpTo(line, e, i + 1) = First(line, e) + UpTo(t, e, i)
    BY CarryingTail
  <2>2. QED BY <2>1 DEF Asked, c
<1>3. Asked(t) \in Nat /\ UpTo(t, c, 0) = 0
  <2>1. Asked(t) \in Nat
    BY <1>1, CarryingType DEF Asked
  <2> HIDE DEF c, t
  <2>2. QED BY <2>1, UpToStep
<1>4. Head(line) = line[1]
  OBVIOUS
<1> HIDE DEF t
<1>5. \A i \in 1 .. Len(t) :
         /\ UpTo(t, c, i) \in Nat
         /\ t[i].cmd = c => p[g + (d + UpTo(t, c, i))] = t[i].agent
  <2>1. SUFFICES ASSUME NEW i \in 1 .. Len(t)
                 PROVE  /\ UpTo(t, c, i) \in Nat
                        /\ t[i].cmd = c =>
                              p[g + (d + UpTo(t, c, i))] = t[i].agent
    OBVIOUS
  <2>2. UpTo(t, c, i) \in Nat
    BY <1>1, AskedRank DEF Asked
  <2>3. i \in 0 .. Len(t) /\ i + 1 \in 1 .. Len(line) /\ t[i] = line[i + 1]
    BY <1>1
  <2>4. UpTo(line, c, i + 1) = d + UpTo(t, c, i)
    BY <1>2, <2>3
  <2>5. line[i + 1].cmd = c => p[g + UpTo(line, c, i + 1)] = line[i + 1].agent
    BY <2>3 DEF InLine
  <2>6. QED BY <2>2, <2>3, <2>4, <2>5
<1>6. ASSUME Head(line).cmd = c
      PROVE  /\ InLine(p, g + 1, t)
             /\ g + 1 \in 1 .. Len(p) /\ p[g + 1] = Head(line).agent
  <2>1. d = 1
    BY <1>6 DEF First
  <2>2. Len(p) = (g + 1) + Asked(t)
    BY <1>2, <1>3, <2>1 DEF InLine
  <2>3. UpTo(line, c, 0 + 1) = 1 + UpTo(t, c, 0)
    BY <1>1, <1>2, <2>1
  <2>4. UpTo(line, c, 1) = 1
    BY <1>3, <2>3
  <2>5. 1 \in 1 .. Len(line) /\ line[1].cmd = c
    BY <1>1, <1>4, <1>6
  <2>6. p[g + 1] = Head(line).agent
    BY <1>4, <2>4, <2>5 DEF InLine
  <2>7. \A i \in 1 .. Len(t) :
           t[i].cmd = c => p[(g + 1) + UpTo(t, c, i)] = t[i].agent
    <3>1. SUFFICES ASSUME NEW i \in 1 .. Len(t), t[i].cmd = c
                   PROVE  p[(g + 1) + UpTo(t, c, i)] = t[i].agent
      OBVIOUS
    <3>2. (g + 1) + UpTo(t, c, i) = g + (d + UpTo(t, c, i))
      BY <1>5, <2>1
    <3>3. QED BY <1>5, <3>1, <3>2
  <2>8. QED BY <1>3, <2>2, <2>6, <2>7 DEF InLine
<1>7. ASSUME Head(line).cmd # c PROVE InLine(p, g, t)
  <2>1. d = 0
    BY <1>7 DEF First
  <2>2. Len(p) = g + Asked(t)
    BY <1>2, <1>3, <2>1 DEF InLine
  <2>3. \A i \in 1 .. Len(t) :
           t[i].cmd = c => p[g + UpTo(t, c, i)] = t[i].agent
    <3>1. SUFFICES ASSUME NEW i \in 1 .. Len(t), t[i].cmd = c
                   PROVE  p[g + UpTo(t, c, i)] = t[i].agent
      OBVIOUS
    <3>2. g + UpTo(t, c, i) = g + (d + UpTo(t, c, i))
      BY <1>5, <2>1
    <3>3. QED BY <1>5, <3>1, <3>2
  <2>4. QED BY <2>2, <2>3 DEF InLine
<1>8. QED BY <1>6, <1>7 DEF t

(* The daemon takes a grant and the first in line.                         *)
LEMMA InLineTake ==
    ASSUME NEW p \in Seq(Agents), NEW g \in Nat, NEW line \in Seq(Talk),
           InLine(p, g + 1, line), p # <<>>
    PROVE  InLine(Tail(p), g, line)
<1> DEFINE c == "RequestSession"
           q == Tail(p)
<1>1. /\ Len(p) \in Nat \ {0} /\ Len(q) = Len(p) - 1
      /\ \A k \in 1 .. Len(q) : q[k] = p[k + 1]
  BY EmptySeq, HeadTailProperties
<1>2. Asked(line) \in Nat
  BY CarryingType DEF Asked
<1> HIDE DEF q
<1>3. Len(q) = g + Asked(line)
  BY <1>1, <1>2 DEF InLine
<1>4. ASSUME NEW i \in 1 .. Len(line), line[i].cmd = c
      PROVE  q[g + UpTo(line, c, i)] = line[i].agent
  <2>1. UpTo(line, c, i) \in 1 .. Asked(line)
    BY <1>4, AskedRank DEF Asked
  <2>2. p[(g + 1) + UpTo(line, c, i)] = line[i].agent
    BY <1>4 DEF InLine
  <2>3. /\ g + UpTo(line, c, i) \in 1 .. Len(q)
        /\ (g + UpTo(line, c, i)) + 1 = (g + 1) + UpTo(line, c, i)
    BY <1>3, <1>2, <2>1
  <2>4. QED BY <1>1, <2>2, <2>3
<1>5. QED BY <1>3, <1>4 DEF InLine, q

(* The rows of the grants on the way back: the board may have dropped one  *)
(* and granted its sid again, then only the newest grant of it tells.      *)
NewestGrant(up, i) ==
    /\ up[i].cmd = "SessionResponse"
    /\ \A j \in i + 1 .. Len(up) :
          up[j].cmd = "SessionResponse" => up[j].sid # up[i].sid

Own(p, up, rs) ==
    \A i \in 1 .. Len(up) :
        NewestGrant(up, i) /\ rs[up[i].sid].live =>
            rs[up[i].sid].hint = p[UpTo(up, "SessionResponse", i)]

(* Rows that are still there are still of the same agent.                  *)
SameHints(rs, rs2, S) ==
    \A s \in S : rs2[s].live => rs[s].live /\ rs2[s].hint = rs[s].hint

LEMMA OwnRows ==
    ASSUME NEW p, NEW up \in Seq(BoardTalk), NEW rs, NEW rs2,
           Own(p, up, rs), SameHints(rs, rs2, Sids)
    PROVE  Own(p, up, rs2)
<1>1. ASSUME NEW i \in 1 .. Len(up), up[i].cmd = "SessionResponse"
      PROVE  up[i].sid \in Sids
  <2>1. up[i] \in BoardTalk
    BY LenProperties, ElementOfSeq
  <2>2. QED BY <1>1, <2>1 DEF BoardTalk
<1>2. QED BY <1>1 DEF Own, SameHints, NewestGrant

UpTalk == {m \in FromBoard : m.cmd # "SessionRejected" => m.sid \in Sids}

LEMMA OwnToHost ==
    ASSUME NEW p, NEW up \in Seq(UpTalk), NEW m \in UpTalk,
           NEW rs, NEW rs2, Own(p, up, rs),
           \/ m.cmd # "SessionResponse" /\ SameHints(rs, rs2, Sids)
           \/ /\ m.cmd = "SessionResponse"
              /\ SameHints(rs, rs2, Sids \ {m.sid})
              /\ rs2[m.sid].hint = p[Carrying(up, "SessionResponse") + 1]
    PROVE  Own(p, Append(up, m), rs2)
<1> DEFINE c == "SessionResponse"
           n == Len(up)
           u == Append(up, m)
<1>1. /\ n \in Nat /\ Len(u) = n + 1 /\ u[n + 1] = m
      /\ \A k \in 1 .. n : u[k] = up[k]
      /\ \A k \in 1 .. n : up[k] \in UpTalk
  BY LenProperties, ElementOfSeq, AppendProperties
<1> HIDE DEF u, n
<1>2. \A i \in 0 .. n : i \in Nat /\ UpTo(u, c, i) = UpTo(up, c, i)
  <2>1. SUFFICES ASSUME NEW i \in 0 .. n
                 PROVE  i \in Nat /\ UpTo(u, c, i) = UpTo(up, c, i)
    OBVIOUS
  <2>2. i \in Nat /\ \A k \in 1 .. i : u[k] = up[k]
    BY <1>1
  <2>3. QED BY <2>2, UpToSame
<1>3. UpTo(u, c, n + 1) = UpTo(u, c, n) + (IF u[n + 1].cmd = c THEN 1 ELSE 0)
  BY <1>1, UpToStep
<1>4. ASSUME NEW i \in 1 .. n, NewestGrant(u, i), rs2[u[i].sid].live
      PROVE  rs2[u[i].sid].hint = p[UpTo(u, c, i)]
  <2>1. up[i].cmd = c /\ u[i] = up[i] /\ up[i].sid \in Sids
    BY <1>1, <1>4 DEF NewestGrant, UpTalk
  <2>2. NewestGrant(up, i)
    <3>1. ASSUME NEW j \in i + 1 .. Len(up), up[j].cmd = c
          PROVE  up[j].sid # up[i].sid
      <4>1. j \in i + 1 .. Len(u) /\ u[j] = up[j]
        BY <1>1 DEF n
      <4>2. QED BY <1>4, <2>1, <3>1, <4>1 DEF NewestGrant
    <3>2. QED BY <2>1, <3>1 DEF NewestGrant
  <2>3. m.cmd = c => up[i].sid # m.sid
    <3>1. n + 1 \in i + 1 .. Len(u)
      BY <1>1
    <3>2. QED BY <1>1, <1>4, <2>1, <3>1 DEF NewestGrant
  <2>4. rs[up[i].sid].live /\ rs2[up[i].sid].hint = rs[up[i].sid].hint
    BY <1>4, <2>1, <2>3 DEF SameHints
  <2>5. UpTo(u, c, i) = UpTo(up, c, i)
    BY <1>2
  <2>6. QED BY <2>1, <2>2, <2>4, <2>5 DEF Own, n
<1>5. ASSUME u[n + 1].cmd = c
      PROVE  rs2[u[n + 1].sid].hint = p[UpTo(u, c, n + 1)]
  <2>1. UpTo(u, c, n + 1) = Carrying(up, c) + 1
    BY <1>1, <1>2, <1>3, <1>5 DEF Carrying, n
  <2>2. QED BY <1>1, <1>5, <2>1
<1>6. ASSUME NEW i \in 1 .. Len(u), NewestGrant(u, i), rs2[u[i].sid].live
      PROVE  rs2[u[i].sid].hint = p[UpTo(u, c, i)]
  <2>1. i \in 1 .. n \/ i = n + 1
    BY <1>1
  <2>2. u[i].cmd = c
    BY <1>6 DEF NewestGrant
  <2>3. QED BY <1>4, <1>5, <1>6, <2>1, <2>2
<1>7. QED BY <1>6 DEF Own, u

LEMMA OwnTail ==
    ASSUME NEW p \in Seq(Agents), NEW up \in Seq(BoardTalk), NEW rs,
           Own(p, up, rs), up # <<>>, Carrying(up, "SessionResponse") <= Len(p)
    PROVE  /\ Head(up).cmd # "SessionResponse" => Own(p, Tail(up), rs)
           /\ Head(up).cmd = "SessionResponse" =>
                 /\ p # <<>> /\ Own(Tail(p), Tail(up), rs)
                 /\ NewestGrant(up, 1) /\ rs[Head(up).sid].live =>
                       rs[Head(up).sid].hint = Head(p)
<1> DEFINE c == "SessionResponse"
           t == Tail(up)
           d == First(up, c)
<1>1. /\ Len(up) \in Nat \ {0} /\ Len(t) = Len(up) - 1 /\ t \in Seq(BoardTalk)
      /\ \A i \in 1 .. Len(t) : t[i] = up[i + 1]
      /\ Head(up) = up[1]
  BY EmptySeq, HeadTailProperties
<1>2. /\ Carrying(up, c) = d + Carrying(t, c)
      /\ \A i \in 0 .. Len(t) : UpTo(up, c, i + 1) = d + UpTo(t, c, i)
  <2> HIDE DEF c
  <2>1. QED BY CarryingTail
<1>3. UpTo(t, c, 0) = 0 /\ Carrying(t, c) \in Nat
  <2>1. Carrying(t, c) \in Nat
    BY <1>1, CarryingType
  <2> HIDE DEF t
  <2>2. QED BY <2>1, UpToStep
<1> HIDE DEF t
<1>4. ASSUME NEW i \in 1 .. Len(t), NewestGrant(t, i), rs[t[i].sid].live
      PROVE  /\ UpTo(t, c, i) \in 1 .. Carrying(t, c)
             /\ rs[t[i].sid].hint = p[d + UpTo(t, c, i)]
  <2>1. i + 1 \in 1 .. Len(up) /\ t[i] = up[i + 1] /\ i \in 0 .. Len(t)
    BY <1>1
  <2>2. NewestGrant(up, i + 1)
    <3>1. ASSUME NEW j \in (i + 1) + 1 .. Len(up), up[j].cmd = c
          PROVE  up[j].sid # up[i + 1].sid
      <4>1. j - 1 \in i + 1 .. Len(t) /\ (j - 1) + 1 = j
        BY <1>1
      <4>2. t[j - 1] = up[j]
        BY <1>1, <4>1
      <4>3. QED BY <1>4, <2>1, <3>1, <4>1, <4>2 DEF NewestGrant
    <3>2. QED BY <1>4, <2>1, <3>1 DEF NewestGrant
  <2>3. rs[t[i].sid].hint = p[UpTo(up, c, i + 1)]
    BY <1>4, <2>1, <2>2 DEF Own
  <2>4. UpTo(t, c, i) \in 1 .. Carrying(t, c)
    BY <1>1, <1>4, AskedRank DEF NewestGrant
  <2>5. UpTo(up, c, i + 1) = d + UpTo(t, c, i)
    BY <1>2, <2>1
  <2>6. QED BY <2>3, <2>4, <2>5
<1>5. ASSUME Head(up).cmd # c PROVE Own(p, t, rs)
  <2>1. d = 0
    BY <1>5 DEF First
  <2>2. QED BY <1>4, <2>1 DEF Own
<1>6. ASSUME Head(up).cmd = c
      PROVE  /\ p # <<>> /\ Own(Tail(p), t, rs)
             /\ NewestGrant(up, 1) /\ rs[Head(up).sid].live =>
                   rs[Head(up).sid].hint = Head(p)
  <2>1. d = 1
    BY <1>6 DEF First
  <2>2. Len(p) \in Nat /\ Carrying(t, c) < Len(p)
    BY <1>2, <1>3, <2>1, LenProperties
  <2>3. p # <<>>
    BY <1>3, <2>2
  <2>4. /\ Head(p) = p[1] /\ Len(Tail(p)) = Len(p) - 1
        /\ \A k \in 1 .. Len(p) - 1 : Tail(p)[k] = p[k + 1]
    BY <2>3, HeadTailProperties
  <2>5. ASSUME NEW i \in 1 .. Len(t), NewestGrant(t, i), rs[t[i].sid].live
        PROVE  rs[t[i].sid].hint = Tail(p)[UpTo(t, c, i)]
    <3>1. UpTo(t, c, i) \in 1 .. Carrying(t, c)
      BY <1>4, <2>5
    <3>2. UpTo(t, c, i) \in 1 .. Len(p) - 1
      BY <1>3, <2>2, <3>1
    <3>3. Tail(p)[UpTo(t, c, i)] = p[1 + UpTo(t, c, i)]
      BY <2>4, <3>2
    <3>4. QED BY <1>4, <2>1, <2>5, <3>3
  <2>6. ASSUME NewestGrant(up, 1), rs[Head(up).sid].live
        PROVE  rs[Head(up).sid].hint = Head(p)
    <3>1. UpTo(up, c, 0 + 1) = 1 + UpTo(t, c, 0)
      BY <1>1, <1>2, <2>1
    <3>2. 1 \in 1 .. Len(up) /\ UpTo(up, c, 1) = 1
      BY <1>1, <1>3, <3>1
    <3>3. QED BY <1>1, <2>4, <2>6, <3>2 DEF Own
  <2>7. QED BY <2>3, <2>5, <2>6 DEF Own
<1>7. QED BY <1>5, <1>6 DEF t

LEMMA OwnJoins ==
    ASSUME NEW p \in Seq(Agents), NEW slots \in Seq(Agents),
           NEW up \in Seq(BoardTalk), NEW rs,
           Own(p, up, rs), Carrying(up, "SessionResponse") <= Len(p)
    PROVE  Own(p \o slots, up, rs)
<1> DEFINE c == "SessionResponse"
           q == p \o slots
<1>1. Len(p) \in Nat /\ \A k \in 1 .. Len(p) : q[k] = p[k]
  BY LenProperties, ConcatProperties
<1> HIDE DEF q
<1>2. ASSUME NEW i \in 1 .. Len(up), NewestGrant(up, i), rs[up[i].sid].live
      PROVE  rs[up[i].sid].hint = q[UpTo(up, c, i)]
  <2>1. UpTo(up, c, i) \in 1 .. Carrying(up, c)
    BY <1>2, AskedRank DEF NewestGrant
  <2>2. Carrying(up, c) \in Nat
    BY CarryingType
  <2>3. UpTo(up, c, i) \in 1 .. Len(p)
    BY <1>1, <2>1, <2>2
  <2>4. QED BY <1>1, <1>2, <2>3 DEF Own
<1>3. QED BY <1>2 DEF Own, q

(* The whole of it, while nobody who waits was aborted.                    *)
Line == wire \o board_outbox

Owned ==
    \A a \in DOMAIN registered, s \in Sids :
        registered[a].board_sid = s /\ Settled(s) => rows[s].hint = a

Fits == /\ InLine(pending_board_sessions, Granted, Line)
        /\ Own(pending_board_sessions, upstream, rows)
        /\ Owned

LEMMA FitTypes ==
    ASSUME SysInv
    PROVE  /\ wire \in Seq(Talk) /\ board_outbox \in Seq(Talk)
           /\ Line \in Seq(Talk) /\ upstream \in Seq(BoardTalk)
           /\ BoardTalk \subseteq UpTalk /\ upstream \in Seq(UpTalk)
           /\ pending_board_sessions \in Seq(Agents)
           /\ \A a \in DOMAIN registered :
                 a \in Agents /\ registered[a].board_sid \in Sids \cup {NoSid}
<1>1. \A a \in DOMAIN registered :
         a \in Agents /\ registered[a].board_sid \in Sids \cup {NoSid}
  BY DEF SysInv, DaemonInv, TypeOK, RegisteredAgent
<1>2. /\ wire \in Seq(Talk) /\ board_outbox \in Seq(Talk)
      /\ upstream \in Seq(BoardTalk)
      /\ pending_board_sessions \in Seq(Agents)
  BY DEF SysInv, DaemonInv, LinkInv, TypeOK
<1>3. BoardTalk \subseteq UpTalk /\ upstream \in Seq(UpTalk)
  <2>1. BoardTalk \subseteq UpTalk
    BY DEF BoardTalk, UpTalk
  <2>2. QED BY <1>2, <2>1, SeqMonotonic
<1>4. QED BY <1>1, <1>2, <1>3, ConcatProperties DEF Line

LEMMA LineTypeNext ==
    ASSUME SysInv'
    PROVE  Line' \in Seq(Talk)
<1>1. wire' \in Seq(Talk) /\ board_outbox' \in Seq(Talk)
  BY DEF SysInv, LinkInv
<1>2. QED BY <1>1, ConcatProperties DEF Line

LEMMA GrantedBound ==
    ASSUME SysInv, Fits
    PROVE  /\ Granted \in Nat /\ Asked(Line) \in Nat
           /\ Len(pending_board_sessions) = Granted + Asked(Line)
           /\ Carrying(upstream, "SessionResponse") <= Len(pending_board_sessions)
BY FitTypes, CarryingType DEF Fits, InLine, Asked, Granted

(* Nothing is repeated on a link whose reports do not fail.                *)
LEMMA LineGrows ==
    ASSUME "hid-error" \notin Inputs, SysInv, SysInv',
           NEW messages \in Seq(Talk), Posts(messages)
    PROVE  Line' = Line \o messages
<1>1. TypeOK' /\ board_outbox \in Seq(Talk) /\ wire \in Seq(Talk)
  BY DEF SysInv, DaemonInv, LinkInv
<1>2. QED BY <1>1, PostsKeep DEF Line

LEMMA QuietLine ==
    ASSUME "hid-error" \notin Inputs, SysInv, SysInv', PostsQuiet,
           NEW p \in Seq(Agents), NEW g \in Nat, InLine(p, g, Line)
    PROVE  InLine(p, g, Line')
<1>1. PICK messages \in Seq(Quiet) : Posts(messages)
  BY DEF PostsQuiet
<1>2. /\ messages \in Seq(Talk) /\ Asked(messages) = 0
      /\ \A k \in 1 .. Len(messages) : messages[k] \in Quiet
  BY QuietAsked, LenProperties, ElementOfSeq
<1>3. \A k \in 1 .. Len(messages) : messages[k].cmd # "RequestSession"
  BY <1>2 DEF Quiet
<1>4. /\ Line \in Seq(Talk) /\ Line' = Line \o messages
      /\ <<>> \in Seq(Agents) /\ p \o <<>> = p /\ Len(<<>>) = 0
  BY <1>1, <1>2, LineGrows, FitTypes, EmptySeq, ConcatEmptySeq
<1> DEFINE none == <<>>
<1>5. none \in Seq(Agents) /\ Len(none) = 0 /\ p \o none = p
  BY <1>4
<1> HIDE DEF none
<1>6. InLine(p \o none, g, Line \o messages)
  BY <1>2, <1>3, <1>4, <1>5, InLineMore
<1>7. QED BY <1>4, <1>5, <1>6

LEMMA JoiningLine ==
    ASSUME "hid-error" \notin Inputs, SysInv, SysInv',
           NEW slots \in Seq(Agents), Joins(slots),
           NEW g \in Nat, InLine(pending_board_sessions, g, Line)
    PROVE  InLine(pending_board_sessions', g, Line')
<1> DEFINE messages == Requests(slots)
<1>1. /\ messages \in Seq(Talk) /\ Posts(messages)
      /\ pending_board_sessions' = pending_board_sessions \o slots
  BY DEF Joins
<1>2. Len(slots) \in Nat /\ Len(messages) = Len(slots)
  BY LenProperties DEF Requests
<1>3. \A k \in 1 .. Len(messages) :
         messages[k].cmd = "RequestSession" /\ messages[k].agent = slots[k]
  BY <1>2 DEF Requests, RequestSession, Message
<1>4. Asked(messages) = Len(slots)
  BY RequestsCount
<1> HIDE DEF messages
<1>5. \A k \in 1 .. Len(messages) : UpTo(messages, "RequestSession", k) = k
  <2>1. SUFFICES ASSUME NEW k \in 1 .. Len(messages)
                 PROVE  UpTo(messages, "RequestSession", k) = k
    OBVIOUS
  <2>2. k \in Nat /\ \A l \in 1 .. k : messages[l].cmd = "RequestSession"
    BY <1>2, <1>3
  <2>3. QED BY <2>2, CarryingAll
<1>6. Line' = Line \o messages
  BY <1>1, LineGrows
<1>7. InLine(pending_board_sessions \o slots, g, Line \o messages)
  BY <1>1, <1>3, <1>4, <1>5, FitTypes, InLineMore
<1>8. QED BY <1>1, <1>6, <1>7

(* A row stays its agent's unless it is granted anew.                      *)
LEMMA OwnedKept ==
    ASSUME Owned, RowsKept,
           \A a \in DOMAIN registered', s \in Sids :
              registered'[a].board_sid = s /\ Settled(s)' =>
                  Settled(s) /\ rows'[s].hint = rows[s].hint
    PROVE  Owned'
<1>1. SUFFICES ASSUME NEW a \in DOMAIN registered', NEW s \in Sids,
                      registered'[a].board_sid = s, Settled(s)'
               PROVE  rows'[s].hint = a
  BY DEF Owned
<1>2. Settled(s) /\ rows'[s].hint = rows[s].hint
  BY <1>1
<1>3. a \in DOMAIN registered /\ registered[a].board_sid = s
  BY <1>1, NoSidAssumption DEF RowsKept
<1>4. QED BY <1>2, <1>3 DEF Owned

LEMMA OwnedUndisturbed ==
    ASSUME Owned, RowsKept, UNCHANGED <<upstream, rows>>
    PROVE  Owned'
<1>1. \A s \in Sids : Settled(s)' => Settled(s) /\ rows'[s].hint = rows[s].hint
  BY DEF Settled
<1>2. QED BY <1>1, OwnedKept

(* What the board sends adds to what is not settled.                       *)
LEMMA SettledBefore ==
    ASSUME SysInv, UNCHANGED upstream \/ \E m : ToHost(m),
           NEW s, Settled(s)', rows'[s].live => rows[s].live
    PROVE  Settled(s)
<1>1. /\ upstream \in Seq(BoardTalk)
      /\ DOMAIN upstream = 1 .. Len(upstream) /\ Len(upstream) \in Nat
  BY FitTypes, LenProperties
<1>2. ASSUME NEW m, upstream' = Append(upstream, m),
             NEW i \in DOMAIN upstream
      PROVE  i \in DOMAIN upstream' /\ upstream'[i] = upstream[i]
  <2> DEFINE S == BoardTalk \cup {m}
             u == Append(upstream, m)
  <2>1. upstream \in Seq(S) /\ m \in S
    BY <1>1, SeqMonotonic
  <2> HIDE DEF S
  <2>2. u \in Seq(S) /\ Len(u) = Len(upstream) + 1 /\ u[i] = upstream[i]
    BY <1>1, <2>1, AppendProperties
  <2>3. DOMAIN u = 1 .. Len(u)
    BY <2>2, LenProperties
  <2> HIDE DEF u
  <2>4. i \in DOMAIN u
    BY <1>1, <2>2, <2>3
  <2>5. QED BY <1>2, <2>2, <2>4 DEF u
<1>3. \A i \in DOMAIN upstream : i \in DOMAIN upstream' /\ upstream'[i] = upstream[i]
  BY <1>2 DEF ToHost
<1>4. QED BY <1>3 DEF Settled

(* The daemon reads a message that the board sent before.                  *)
LEMMA SettledAfter ==
    ASSUME SysInv, upstream # <<>>, upstream' = Tail(upstream), UNCHANGED rows,
           NEW s, Settled(s)',
           Head(upstream).cmd \in {"SessionResponse", "SessionInvalid"} =>
               Head(upstream).sid # s
    PROVE  Settled(s)
<1>1. /\ upstream \in Seq(BoardTalk) /\ Len(upstream) \in Nat
      /\ DOMAIN upstream = 1 .. Len(upstream)
  BY FitTypes, LenProperties
<1>2. /\ Len(Tail(upstream)) = Len(upstream) - 1
      /\ \A i \in 1 .. Len(Tail(upstream)) : Tail(upstream)[i] = upstream[i + 1]
      /\ Tail(upstream) \in Seq(BoardTalk) /\ Head(upstream) = upstream[1]
  BY <1>1, HeadTailProperties
<1>3. DOMAIN Tail(upstream) = 1 .. Len(upstream) - 1
  BY <1>2, LenProperties
<1>4. ASSUME NEW i \in DOMAIN upstream,
             upstream[i].cmd \in {"SessionResponse", "SessionInvalid"}
      PROVE  upstream[i].sid # s
  <2>1. CASE i = 1
    BY <1>2, <1>4, <2>1
  <2>2. CASE i # 1
    <3>1. i - 1 \in DOMAIN Tail(upstream) /\ (i - 1) + 1 = i
      BY <1>1, <1>3, <2>2
    <3>2. Tail(upstream)[i - 1] = upstream[i]
      BY <1>1, <1>2, <1>3, <3>1
    <3>3. upstream'[i - 1] = upstream[i] /\ i - 1 \in DOMAIN upstream'
      BY <3>1, <3>2
    <3>4. QED BY <1>4, <3>3 DEF Settled
  <2>3. QED BY <2>1, <2>2
<1>5. rows[s].live
  BY DEF Settled
<1>6. QED BY <1>4, <1>5 DEF Settled

LEMMA ClientFits ==
    ASSUME "hid-error" \notin Inputs, SysInv, SysInv', Fits,
           SysClient \/ LinkStep
    PROVE  Fits'
<1>1. UNCHANGED <<upstream, rows>> /\ RowsKept
  BY ClientShape DEF boardVars
<1>2. Granted' = Granted
  BY <1>1 DEF Granted
<1>3. Owned'
  BY <1>1, OwnedUndisturbed DEF Fits
<1>4. CASE UNCHANGED pending_board_sessions /\ PostsQuiet
  <2>1. InLine(pending_board_sessions, Granted, Line')
    BY <1>4, GrantedBound, FitTypes, QuietLine DEF Fits
  <2>2. QED BY <1>1, <1>2, <1>3, <1>4, <2>1 DEF Fits
<1>5. ASSUME NEW slots \in Seq(Agents), Joins(slots) PROVE Fits'
  <2>1. InLine(pending_board_sessions', Granted, Line')
    BY <1>5, GrantedBound, JoiningLine DEF Fits
  <2>2. pending_board_sessions' = pending_board_sessions \o slots
    BY <1>5 DEF Joins
  <2>3. Own(pending_board_sessions', upstream, rows)
    BY <2>2, GrantedBound, FitTypes, OwnJoins DEF Fits
  <2>4. QED BY <1>1, <1>2, <1>3, <2>1, <2>3 DEF Fits
<1>6. QED BY <1>4, <1>5, ClientShape

LEMMA AbortFits ==
    ASSUME "hid-error" \notin Inputs, SysInv, SysInv', Fits,
           NEW a \in Agents, SysAbort(a), ~withdrawn'
    PROVE  Fits' /\ ~withdrawn
<1>1. /\ UNCHANGED <<upstream, rows>> /\ RowsKept /\ PostsQuiet
      /\ pending_board_sessions' = Retain(pending_board_sessions, {a})
      /\ ~withdrawn /\ a \notin ToSet(pending_board_sessions)
  BY AbortShape
<1>2. UNCHANGED pending_board_sessions
  BY <1>1, FitTypes, RetainLength
<1>3. InLine(pending_board_sessions, Granted, Line')
  BY <1>1, GrantedBound, FitTypes, QuietLine DEF Fits
<1>4. Owned'
  BY <1>1, OwnedUndisturbed DEF Fits
<1>5. Granted' = Granted
  BY <1>1 DEF Granted
<1>6. QED BY <1>1, <1>2, <1>3, <1>4, <1>5 DEF Fits

(* A grant that is the newest of its sid is one that nothing unsettles.    *)
LEMMA SettledIsNewest ==
    ASSUME SysInv, upstream # <<>>, upstream' = Tail(upstream),
           UNCHANGED rows, Head(upstream).cmd = "SessionResponse",
           NEW s, Head(upstream).sid = s, Settled(s)'
    PROVE  NewestGrant(upstream, 1) /\ rows[s].live
<1>1. /\ Len(upstream) \in Nat /\ Head(upstream) = upstream[1]
      /\ \A i \in 1 .. Len(Tail(upstream)) : Tail(upstream)[i] = upstream[i + 1]
      /\ Len(Tail(upstream)) = Len(upstream) - 1
      /\ DOMAIN Tail(upstream) = 1 .. Len(Tail(upstream))
  BY FitTypes, LenProperties, HeadTailProperties
<1>2. ASSUME NEW j \in 2 .. Len(upstream), upstream[j].cmd = "SessionResponse"
      PROVE  upstream[j].sid # s
  <2>1. j - 1 \in 1 .. Len(Tail(upstream)) /\ (j - 1) + 1 = j
    BY <1>1
  <2>2. j - 1 \in DOMAIN upstream' /\ upstream'[j - 1] = upstream[j]
    BY <1>1, <2>1
  <2>3. QED BY <1>1, <1>2, <2>2 DEF Settled
<1>3. 1 + 1 = 2 /\ upstream[1].sid = s /\ upstream[1].cmd = "SessionResponse"
  BY <1>1
<1>4. rows[s].live
  BY DEF Settled
<1>5. QED BY <1>2, <1>3, <1>4 DEF NewestGrant

LEMMA MessageFits ==
    ASSUME "hid-error" \notin Inputs, SysInv, SysInv', Fits, SysBoardMessage
    PROVE  Fits'
<1> DEFINE p == pending_board_sessions
           c == "SessionResponse"
           m == Head(upstream)
<1>1. /\ PostsQuiet /\ upstream # <<>> /\ m \in BoardTalk
      /\ upstream' = Tail(upstream) /\ UNCHANGED rows
  BY BoardMessageShape DEF history
<1>2. Granted = First(upstream, c) + Granted'
  <2>1. upstream \in Seq(BoardTalk)
    BY FitTypes
  <2>2. QED BY <1>1, <2>1, CarryingTail DEF Granted
<1>3. Granted' \in Nat /\ Granted \in Nat
  BY ServedTypes, ServedTypesNext
<1>4. /\ m.cmd # c => Own(p, upstream', rows)
      /\ m.cmd = c => /\ p # <<>> /\ Own(Tail(p), upstream', rows)
                      /\ NewestGrant(upstream, 1) /\ rows[m.sid].live =>
                            rows[m.sid].hint = Head(p)
  <2>1. /\ Own(p, upstream, rows) /\ Carrying(upstream, c) <= Len(p)
        /\ p \in Seq(Agents) /\ upstream \in Seq(BoardTalk)
    BY FitTypes, GrantedBound DEF Fits
  <2>2. QED BY <1>1, <2>1, OwnTail
<1>5. InLine(p, Granted, Line')
  BY <1>1, GrantedBound, FitTypes, QuietLine DEF Fits
<1>6. CASE m.cmd = c
  <2>1. p # <<>>
    BY <1>4, <1>6
  <2>2. p' = Tail(p) /\ RowGranted(Head(p), m.sid)
    BY <1>6, <2>1, BoardMessageShape
  <2>3. Granted = Granted' + 1
    BY <1>2, <1>3, <1>6 DEF First
  <2>4. InLine(p', Granted', Line')
    <3>1. InLine(p, Granted' + 1, Line')
      BY <1>5, <2>3
    <3>2. PICK g \in Nat, line \in Seq(Talk) : g = Granted' /\ line = Line'
      BY <1>3, LineTypeNext
    <3>3. p \in Seq(Agents) /\ InLine(p, g + 1, line)
      BY <3>1, <3>2, FitTypes
    <3>4. InLine(Tail(p), g, line)
      BY <2>1, <3>3, InLineTake
    <3>5. QED BY <2>2, <3>2, <3>4
  <2>5. ASSUME NEW a \in DOMAIN registered', NEW s \in Sids,
               registered'[a].board_sid = s, Settled(s)'
        PROVE  rows[s].hint = a
    <3>1. CASE a = Head(p)
      <4>1. s = m.sid
        BY <2>2, <2>5, <3>1 DEF RowGranted
      <4>2. NewestGrant(upstream, 1) /\ rows[m.sid].live
        BY <1>1, <1>6, <2>5, <4>1, SettledIsNewest
      <4>3. QED BY <1>4, <1>6, <3>1, <4>1, <4>2
    <3>2. CASE a # Head(p)
      <4>1. /\ a \in DOMAIN registered /\ registered[a].board_sid = s
            /\ s # m.sid
        BY <2>2, <2>5, <3>2, NoSidAssumption DEF RowGranted
      <4>2. Settled(s)
        BY <1>1, <2>5, <4>1, SettledAfter
      <4>3. QED BY <4>1, <4>2 DEF Fits, Owned
    <3>3. QED BY <3>1, <3>2
  <2>6. Owned'
    BY <1>1, <2>5 DEF Owned
  <2>7. QED BY <1>1, <1>4, <1>6, <2>2, <2>4, <2>6 DEF Fits
<1>7. CASE m.cmd # c
  <2>1. /\ UNCHANGED p /\ RowsKept
        /\ m.cmd = "SessionInvalid" =>
              \A a \in DOMAIN registered' : registered'[a].board_sid # m.sid
    <3>1. /\ UNCHANGED pending_board_sessions /\ RowsKept
          /\ Head(upstream).cmd = "SessionInvalid" =>
                \A a \in DOMAIN registered' :
                   registered'[a].board_sid # Head(upstream).sid
      BY <1>7, BoardMessageShape
    <3>2. QED BY <3>1
  <2>2. Granted = Granted'
    <3>1. First(upstream, c) = 0
      BY <1>7 DEF First
    <3>2. QED BY <1>2, <1>3, <3>1
  <2>3. ASSUME NEW a \in DOMAIN registered', NEW s \in Sids,
               registered'[a].board_sid = s, Settled(s)'
        PROVE  Settled(s) /\ rows'[s].hint = rows[s].hint
    <3>1. m.cmd \in {"SessionResponse", "SessionInvalid"} => m.sid # s
      BY <1>7, <2>1, <2>3
    <3>2. QED BY <1>1, <2>3, <3>1, SettledAfter
  <2>4. Owned'
    BY <2>1, <2>3, OwnedKept DEF Fits
  <2>5. QED BY <1>1, <1>4, <1>5, <1>7, <2>1, <2>2, <2>4 DEF Fits
<1>8. QED BY <1>6, <1>7

(* What the board does alone.                                              *)
LEMMA BoardAloneFits ==
    ASSUME SysInv, Fits, UNCHANGED vars,
           UNCHANGED upstream \/ \E m : ToHost(m),
           \A s \in Sids : rows'[s].live /\ Settled(s)' =>
               rows[s].live /\ rows'[s].hint = rows[s].hint
    PROVE  Owned'
<1>1. ASSUME NEW a \in DOMAIN registered', NEW s \in Sids,
             registered'[a].board_sid = s, Settled(s)'
      PROVE  rows'[s].hint = a
  <2>1. UNCHANGED registered /\ rows'[s].live
    BY <1>1 DEF vars, agentVars, Settled
  <2>2. rows[s].live /\ rows'[s].hint = rows[s].hint
    BY <1>1, <2>1
  <2>3. Settled(s)
    BY <1>1, <2>2, SettledBefore
  <2>4. QED BY <1>1, <2>1, <2>2, <2>3 DEF Fits, Owned
<1>2. QED BY <1>1 DEF Owned

LEMMA HeadTailConcat ==
    ASSUME NEW S, NEW s \in Seq(S), NEW t \in Seq(S), s # <<>>
    PROVE  /\ s \o t # <<>> /\ Head(s \o t) = Head(s)
           /\ Tail(s \o t) = Tail(s) \o t
<1> DEFINE u == s \o t
           v == Tail(s)
<1>1. /\ Len(s) \in Nat \ {0} /\ Len(t) \in Nat
      /\ u \in Seq(S) /\ Len(u) = Len(s) + Len(t)
      /\ \A i \in 1 .. Len(s) : u[i] = s[i]
      /\ \A i \in 1 .. Len(t) : u[Len(s) + i] = t[i]
  BY EmptySeq, LenProperties, ConcatProperties
<1>2. /\ v \in Seq(S) /\ Len(v) = Len(s) - 1 /\ Head(s) = s[1]
      /\ \A i \in 1 .. Len(v) : v[i] = s[i + 1]
  BY HeadTailProperties
<1> HIDE DEF u, v
<1>3. u # <<>>
  BY <1>1
<1>4. /\ Tail(u) \in Seq(S) /\ Len(Tail(u)) = Len(u) - 1 /\ Head(u) = u[1]
      /\ \A i \in 1 .. Len(Tail(u)) : Tail(u)[i] = u[i + 1]
  BY <1>1, <1>3, HeadTailProperties
<1>5. /\ v \o t \in Seq(S) /\ Len(v \o t) = Len(v) + Len(t)
      /\ \A i \in 1 .. Len(v) : (v \o t)[i] = v[i]
      /\ \A i \in 1 .. Len(t) : (v \o t)[Len(v) + i] = t[i]
  <2>1. v \in Seq(S)
    BY <1>2
  <2>2. QED BY <2>1, ConcatProperties
<1>6. ASSUME NEW i \in 1 .. Len(Tail(u)) PROVE Tail(u)[i] = (v \o t)[i]
  <2>1. CASE i \in 1 .. Len(v)
    <3>1. i + 1 \in 1 .. Len(s)
      BY <1>1, <1>2, <2>1
    <3>2. QED BY <1>1, <1>2, <1>4, <1>5, <2>1, <3>1
  <2>2. CASE i \notin 1 .. Len(v)
    <3>1. PICK k \in 1 .. Len(t) : i = Len(v) + k /\ i + 1 = Len(s) + k
      <4>1. /\ i - Len(v) \in 1 .. Len(t) /\ i = Len(v) + (i - Len(v))
            /\ i + 1 = Len(s) + (i - Len(v))
        BY <1>1, <1>2, <1>4, <2>2
      <4>2. QED BY <4>1
    <3>2. QED BY <1>1, <1>4, <1>5, <3>1
  <2>3. QED BY <2>1, <2>2
<1>7. Len(Tail(u)) = Len(v \o t)
  BY <1>1, <1>2, <1>4, <1>5
<1>8. Tail(u) = v \o t
  BY <1>4, <1>5, <1>6, <1>7, SeqEqual
<1>9. Head(u) = Head(s)
  BY <1>1, <1>2, <1>4
<1>10. QED BY <1>3, <1>8, <1>9 DEF u, v

(* The board reads the next message of the line.                           *)
LEMMA ReadFits ==
    ASSUME BoardEvents \subseteq {"fades"}, SysInv, Fits, BoardReads
    PROVE  Fits'
<1> DEFINE p == pending_board_sessions
           c == "SessionResponse"
           m == Head(wire)
<1>1. /\ wire # <<>> /\ m \in Talk /\ wire' = Tail(wire)
      /\ UNCHANGED <<vars, history>>
  BY BoardReadsShape
<1>2. UNCHANGED <<p, board_outbox>>
  BY <1>1 DEF vars, agentVars
<1>3. /\ Line \in Seq(Talk) /\ Line # <<>>
      /\ Head(Line) = m /\ Line' = Tail(Line)
  <2>1. wire \in Seq(Talk) /\ board_outbox \in Seq(Talk) /\ Line \in Seq(Talk)
    BY FitTypes
  <2>2. /\ Head(wire \o board_outbox) = Head(wire)
        /\ Tail(wire \o board_outbox) = Tail(wire) \o board_outbox
    BY <1>1, <2>1, HeadTailConcat
  <2>3. wire \o board_outbox # <<>>
    BY <1>1, <2>1
  <2>4. QED BY <1>1, <1>2, <2>1, <2>2, <2>3 DEF Line
<1>4. /\ p \in Seq(Agents) /\ Granted \in Nat /\ InLine(p, Granted, Line)
      /\ Own(p, upstream, rows) /\ upstream \in Seq(BoardTalk)
      /\ upstream \in Seq(UpTalk) /\ BoardTalk \subseteq UpTalk
  BY GrantedBound, FitTypes DEF Fits
<1>5. /\ m.cmd = "RequestSession" => /\ InLine(p, Granted + 1, Line')
                                     /\ p[Granted + 1] = m.agent
      /\ m.cmd # "RequestSession" => InLine(p, Granted, Line')
  BY <1>3, <1>4, InLineRead
<1>6. CASE m.cmd = "RequestSession" /\ BoardGrants(m.agent)
  <2>1. PICK s \in FreeSids :
            /\ rows' = [rows EXCEPT ![s] = [live |-> TRUE, hint |-> m.agent,
                                            prompts |-> {}]]
            /\ ToHost(Up(c, s, NoBody, NoDecision))
    BY <1>6 DEF BoardGrants
  <2> DEFINE u == Up(c, s, NoBody, NoDecision)
  <2>2. /\ s \in Sids /\ ~rows[s].live /\ rows \in [Sids -> Row]
        /\ u.cmd = c /\ u.sid = s
    BY <2>1 DEF FreeSids, SysInv, BoardInv, Up
  <2>3. u \in BoardTalk
    BY <2>2, UpType
  <2> HIDE DEF u
  <2>4. /\ rows'[s].hint = m.agent
        /\ \A t \in Sids \ {s} : rows'[t] = rows[t]
    BY <2>1, <2>2
  <2>5. Granted' = Granted + 1
    BY <2>1, <2>2, ToHostCounts DEF u, Granted
  <2>6. Own(p, Append(upstream, u), rows')
    <3>1. PICK rs2 \in [Sids -> Row] : rs2 = rows'
      <4>1. m.agent \in Agents \cup {NoAgent}
        BY <1>1 DEF Talk, HidMessage
      <4>2. QED BY <1>6, <4>1, GrantsType
    <3>2. SameHints(rows, rs2, Sids \ {u.sid})
      BY <2>2, <2>4, <3>1 DEF SameHints
    <3>3. rs2[u.sid].hint = p[Carrying(upstream, c) + 1]
      BY <1>5, <1>6, <2>2, <2>4, <3>1 DEF Granted
    <3>4. Own(p, Append(upstream, u), rs2)
      BY <1>4, <2>2, <2>3, <3>2, <3>3, OwnToHost
    <3>5. QED BY <3>1, <3>4
  <2>7. Own(p', upstream', rows')
    BY <1>2, <2>1, <2>6 DEF ToHost, u
  <2>8. ~Settled(s)'
    <3>1. upstream' = Append(upstream, u)
      BY <2>1 DEF ToHost, u
    <3>2. /\ upstream'[Len(upstream) + 1] = u
          /\ Len(upstream) + 1 \in DOMAIN upstream'
      BY <1>4, <2>3, <3>1, AppendProperties, LenProperties
    <3>3. QED BY <2>2, <3>2 DEF Settled
  <2>9. \A t \in Sids : rows'[t].live /\ Settled(t)' =>
            rows[t].live /\ rows'[t].hint = rows[t].hint
    BY <2>4, <2>8
  <2>10. Owned'
    BY <1>1, <2>1, <2>3, <2>9, BoardAloneFits DEF u
  <2>11. QED BY <1>2, <1>5, <1>6, <2>5, <2>7, <2>10 DEF Fits
<1>7. CASE /\ m.cmd # "RequestSession"
           /\ \/ UNCHANGED upstream
              \/ \E u \in BoardTalk : u.cmd # c /\ ToHost(u)
           /\ \A t \in Sids : rows'[t].live = rows[t].live
                              /\ rows'[t].hint = rows[t].hint
  <2>1. SameHints(rows, rows', Sids)
    BY <1>7 DEF SameHints
  <2>2. CASE UNCHANGED upstream
    <3>1. Own(p, upstream, rows') /\ Granted' = Granted
      BY <1>4, <2>1, <2>2, OwnRows DEF Granted
    <3>2. Owned'
      BY <1>1, <1>7, <2>2, BoardAloneFits
    <3>3. QED BY <1>2, <1>5, <1>7, <2>2, <3>1, <3>2 DEF Fits
  <2>3. ASSUME NEW u \in BoardTalk, u.cmd # c, ToHost(u) PROVE Fits'
    <3>1. Own(p, Append(upstream, u), rows')
      BY <1>4, <2>1, <2>3, OwnToHost
    <3>2. Own(p', upstream', rows')
      BY <1>2, <2>3, <3>1 DEF ToHost
    <3>3. Granted' = Granted
      BY <2>3, ToHostCounts DEF Granted
    <3>4. Owned'
      BY <1>1, <1>7, <2>3, BoardAloneFits
    <3>5. QED BY <1>2, <1>5, <1>7, <3>2, <3>3, <3>4 DEF Fits
  <2>4. QED BY <1>7, <2>2, <2>3
<1>8. ~BoardRejects
  BY DEF BoardRejects
<1>9. ASSUME m.cmd # "RequestSession", m.sid \in Sids, BoardShows(m)
      PROVE  Fits'
  <2>1. /\ \A t \in Sids : rows'[t].live = rows[t].live
                           /\ rows'[t].hint = rows[t].hint
        /\ \/ UNCHANGED upstream
           \/ ToHost(Up("SessionInvalid", m.sid, NoBody, NoDecision))
    BY <1>1, <1>9, ShowsType
  <2>2. /\ Up("SessionInvalid", m.sid, NoBody, NoDecision) \in BoardTalk
        /\ Up("SessionInvalid", m.sid, NoBody, NoDecision).cmd # c
    BY <1>9, UpType DEF Up
  <2>3. QED BY <1>7, <1>9, <2>1, <2>2
<1>10. QED BY <1>6, <1>7, <1>8, <1>9, BoardReadsShape

LEMMA UserFits ==
    ASSUME SysInv, Fits, UserAnswers
    PROVE  Fits'
<1>1. UNCHANGED vars /\ UNCHANGED wire
  BY DEF UserAnswers
<1>2. UNCHANGED <<pending_board_sessions, board_outbox, wire>>
  BY <1>1 DEF vars, agentVars
<1>3. PICK m \in BoardTalk' : m.cmd = "PermissionRes" /\ ToHost(m)
  BY AnswersType
<1>4. \A s \in Sids : rows'[s].live = rows[s].live /\ rows'[s].hint = rows[s].hint
  BY AnswersType
<1>5. Granted' = Granted
  BY <1>3, ToHostCounts DEF Granted
<1>6. m \in UpTalk /\ upstream \in Seq(UpTalk)
  BY FitTypes DEF BoardTalk, UpTalk
<1>7. SameHints(rows, rows', Sids)
  BY <1>4 DEF SameHints
<1>8. Own(pending_board_sessions, Append(upstream, m), rows')
  <2>1. m.cmd # "SessionResponse" /\ Own(pending_board_sessions, upstream, rows)
    BY <1>3 DEF Fits
  <2>2. pending_board_sessions \in Seq(Agents)
    BY FitTypes
  <2>3. QED BY <1>6, <1>7, <2>1, <2>2, OwnToHost
<1>9. Owned'
  BY <1>1, <1>3, <1>4, BoardAloneFits
<1>10. upstream' = Append(upstream, m)
  BY <1>3 DEF ToHost
<1>11. Own(pending_board_sessions', upstream', rows')
  BY <1>2, <1>8, <1>10
<1>12. InLine(pending_board_sessions', Granted', Line')
  BY <1>2, <1>5 DEF Fits, Line
<1>13. QED BY <1>9, <1>11, <1>12 DEF Fits

LEMMA FadesFit ==
    ASSUME SysInv, Fits, NEW s \in Sids, BoardFades(s)
    PROVE  Fits'
<1>1. /\ UNCHANGED <<vars, wire, upstream>>
      /\ rows' = [rows EXCEPT ![s] = NoRow] /\ rows \in [Sids -> Row]
  BY DEF BoardFades, SysInv, BoardInv
<1>2. \A t \in Sids : rows'[t].live => rows[t].live /\ rows'[t].hint = rows[t].hint
  BY <1>1 DEF NoRow
<1>3. UNCHANGED <<pending_board_sessions, board_outbox, wire, upstream>>
  BY <1>1 DEF vars, agentVars
<1>4. Own(pending_board_sessions, upstream, rows')
  <2>1. SameHints(rows, rows', Sids)
    BY <1>2 DEF SameHints
  <2>2. QED BY <2>1, FitTypes, OwnRows DEF Fits
<1>5. Owned'
  BY <1>1, <1>2, BoardAloneFits
<1>6. QED BY <1>3, <1>4, <1>5 DEF Fits, Granted, Line

LEMMA FitsStep ==
    ASSUME "hid-error" \notin Inputs, BoardEvents \subseteq {"fades"},
           SysInv, SysInv', ~withdrawn => Fits, [SysNext]_sysVars
    PROVE  ~withdrawn' => Fits'
<1>1. SUFFICES ASSUME ~withdrawn' PROVE Fits'
  OBVIOUS
<1>2. ASSUME NEW a \in Agents, SysAbort(a) PROVE Fits'
  <2>1. ~withdrawn
    BY <1>1, <1>2, AbortShape
  <2>2. QED BY <1>1, <1>2, <2>1, AbortFits
<1>3. CASE \/ SysClient \/ LinkStep \/ SysBoardMessage \/ BoardReads
           \/ UserAnswers \/ \E s \in Sids : BoardFades(s)
  <2>1. UNCHANGED withdrawn
    BY <1>3, ClientShape, BoardMessageShape, BoardReadsShape
       DEF UserAnswers, BoardFades, boardVars, history
  <2>2. Fits
    BY <1>1, <2>1
  <2>3. ASSUME NEW s \in Sids, BoardFades(s) PROVE Fits'
    BY <2>2, <2>3, FadesFit
  <2>4. QED BY <1>3, <2>2, <2>3, ClientFits, MessageFits, ReadFits, UserFits
<1>4. CASE UNCHANGED sysVars
  <2>1. UNCHANGED <<vars, wire, upstream, rows, withdrawn>>
    BY <1>4 DEF sysVars, boardVars, history
  <2>2. Fits
    BY <1>1, <2>1
  <2>3. UNCHANGED <<pending_board_sessions, Line, Granted, registered>>
    BY <2>1 DEF vars, agentVars, Line, Granted
  <2>4. QED BY <2>1, <2>2, <2>3 DEF Fits, Owned, Settled
<1>5. ~BoardRestarts
  BY DEF BoardRestarts
<1>6. QED BY <1>2, <1>3, <1>4, <1>5 DEF SysNext, LinkStep

(* The row an agent is bound to is the one the board made for that agent's *)
(* request, although the grant names no agent and the board may drop rows  *)
(* and grant their sids again: as long as reports of the link do not fail, *)
(* so that no request is sent twice, and the board neither rejects a       *)
(* request nor restarts.                                                   *)
THEOREM RowsGoToTheirAgents ==
    ASSUME "hid-error" \notin Inputs, BoardEvents \subseteq {"fades"}
    PROVE  SysSpec => []RowMadeForOwner
<1>1. SysInit => (~withdrawn => Fits)
  <2>1. SUFFICES ASSUME SysInit PROVE Fits
    OBVIOUS
  <2>2. /\ pending_board_sessions = <<>> /\ board_outbox = <<>>
        /\ wire = <<>> /\ upstream = <<>> /\ DOMAIN registered = {}
    BY <2>1 DEF SysInit, Init
  <2>3. Line = <<>>
    BY <2>2 DEF Line
  <2>4. Asked(<<>>) = 0 /\ Carrying(<<>>, "SessionResponse") = 0
    BY EmptySeq, CarryingType DEF Asked
  <2>5. Granted = 0
    BY <2>2, <2>4 DEF Granted
  <2>6. InLine(<<>>, 0, <<>>) /\ Own(<<>>, <<>>, rows)
    BY <2>4 DEF InLine, Own
  <2>7. Owned
    BY <2>2 DEF Owned
  <2>8. QED BY <2>2, <2>3, <2>5, <2>6, <2>7 DEF Fits
<1>2. SysInv /\ SysInv' /\ (~withdrawn => Fits) /\ [SysNext]_sysVars
         => (~withdrawn' => Fits')
  BY FitsStep
<1>3. SysInv /\ (~withdrawn => Fits) => RowMadeForOwner
  <2>1. SUFFICES ASSUME SysInv, ~withdrawn => Fits PROVE RowMadeForOwner
    OBVIOUS
  <2>2. SUFFICES ASSUME NEW a \in Agents, Bound(a), ~withdrawn,
                        Settled(registered[a].board_sid)
                 PROVE  rows[registered[a].board_sid].hint = a
    BY DEF RowMadeForOwner
  <2>3. a \in DOMAIN registered /\ registered[a].board_sid \in Sids
    BY <2>1, <2>2, FitTypes DEF Bound
  <2>4. QED BY <2>1, <2>2, <2>3 DEF Fits, Owned
<1>4. QED BY SysInvCorrect, <1>1, <1>2, <1>3, PTL DEF SysSpec

---------------------------------------------------------------------------
(* Where a pending permission is.  An agent that holds a sid and a pending *)
(* request held both before the step, or the step announces the request.   *)
Holds(a, s, req) ==
    /\ a \in DOMAIN registered /\ registered[a].board_sid = s
    /\ req \in ToSet(registered[a].pending_permissions)

Announcement(a, s, req) == Message("PermissionReq", s, a, req)

Announces ==
    \A a \in Agents, s \in Sids, req \in ReqIds :
        Holds(a, s, req)' =>
            \/ Holds(a, s, req)
            \/ Announcement(a, s, req) \in ToSet(board_outbox') \cup ToSet(wire')

LEMMA AnnouncesUnchanged ==
    ASSUME UNCHANGED registered
    PROVE  Announces
BY DEF Announces, Holds

(* A step that changes the record of one agent.                            *)
LEMMA AnnouncesUpdate ==
    ASSUME TypeOK, NEW a \in DOMAIN registered, NEW agent, Update(a, agent),
           agent.board_sid = registered[a].board_sid,
           \A req \in ReqIds :
              req \in ToSet(agent.pending_permissions) =>
                 \/ req \in ToSet(registered[a].pending_permissions)
                 \/ registered[a].board_sid \in Sids =>
                       Announcement(a, registered[a].board_sid, req)
                          \in ToSet(board_outbox') \cup ToSet(wire')
    PROVE  Announces
<1>1. /\ DOMAIN registered' = DOMAIN registered /\ registered'[a] = agent
      /\ \A b \in DOMAIN registered : b # a => registered'[b] = registered[b]
  BY DEF Update, TypeOK
<1>2. SUFFICES ASSUME NEW b \in Agents, NEW s \in Sids, NEW req \in ReqIds,
                      Holds(b, s, req)', ~Holds(b, s, req)
               PROVE  Announcement(b, s, req)
                         \in ToSet(board_outbox') \cup ToSet(wire')
  BY DEF Announces
<1>3. CASE b # a
  BY <1>1, <1>2, <1>3 DEF Holds
<1>4. CASE b = a
  BY <1>1, <1>2, <1>4 DEF Holds
<1>5. QED BY <1>3, <1>4

LEMMA RegisterAnnounces ==
    ASSUME TypeOK, NEW r \in Registrations, Register(r)
    PROVE  Announces
<1> DEFINE agent == Registered(r)
<1>1. registered' = With(r.agent, agent)
  BY DEF Register
<1>2. CASE r.agent \in DOMAIN registered
  <2>1. registered[r.agent] \in RegisteredAgent
    BY <1>2, RecordType
  <2>2. /\ agent.board_sid = registered[r.agent].board_sid
        /\ agent.pending_permissions = registered[r.agent].pending_permissions
    BY <1>2, <2>1 DEF Registered, RegisteredAgent
  <2> HIDE DEF agent
  <2>3. QED BY <1>1, <1>2, <2>2 DEF With, Announces, Holds
<1>3. CASE r.agent \notin DOMAIN registered
  <2>1. agent.board_sid = NoSid
    BY <1>3 DEF Registered, NewAgent
  <2> HIDE DEF agent
  <2>2. QED BY <1>1, <1>3, <2>1, NoSidAssumption DEF With, Announces, Holds
<1>4. QED BY <1>2, <1>3

LEMMA LastIsIn ==
    ASSUME NEW S, NEW s \in Seq(S), NEW e \in S
    PROVE  /\ ToSet(s) \subseteq ToSet(Append(s, e))
           /\ ToSet(Append(s, e)) = ToSet(s) \cup {e}
<1> DEFINE t == Append(s, e)
<1>1. /\ Len(s) \in Nat /\ t \in Seq(S) /\ Len(t) = Len(s) + 1
      /\ t[Len(s) + 1] = e
      /\ \A i \in 1 .. Len(s) : t[i] = s[i]
  BY LenProperties, AppendProperties
<1>2. DOMAIN s = 1 .. Len(s) /\ DOMAIN t = 1 .. Len(t)
  BY <1>1, LenProperties
<1> HIDE DEF t
<1>3. ToSet(s) \subseteq ToSet(t)
  BY <1>1, <1>2 DEF ToSet
<1>4. e \in ToSet(t)
  BY <1>1, <1>2 DEF ToSet
<1>5. ToSet(t) \subseteq ToSet(s) \cup {e}
  <2>1. SUFFICES ASSUME NEW i \in 1 .. Len(s) + 1 PROVE t[i] \in ToSet(s) \cup {e}
    BY <1>1, <1>2 DEF ToSet
  <2>2. CASE i \in 1 .. Len(s)
    BY <1>1, <1>2, <2>2 DEF ToSet
  <2>3. CASE i = Len(s) + 1
    BY <1>1, <2>3
  <2>4. QED BY <1>1, <2>2, <2>3
<1>6. QED BY <1>3, <1>4, <1>5 DEF t

LEMMA ConcatElements ==
    ASSUME NEW S, NEW s \in Seq(S), NEW t \in Seq(S)
    PROVE  ToSet(s \o t) = ToSet(s) \cup ToSet(t)
<1> DEFINE u == s \o t
<1>1. /\ Len(s) \in Nat /\ Len(t) \in Nat /\ u \in Seq(S)
      /\ Len(u) = Len(s) + Len(t)
  BY LenProperties, ConcatProperties
<1>2. \A i \in 1 .. Len(s) : u[i] = s[i]
  BY ConcatProperties
<1>3. \A i \in 1 .. Len(t) : u[Len(s) + i] = t[i]
  BY ConcatProperties
<1>4. /\ DOMAIN s = 1 .. Len(s) /\ DOMAIN t = 1 .. Len(t)
      /\ DOMAIN u = 1 .. Len(u)
  BY <1>1, LenProperties
<1> HIDE DEF u
<1>5. ToSet(s) \subseteq ToSet(u)
  BY <1>1, <1>2, <1>4 DEF ToSet
<1>6. ToSet(t) \subseteq ToSet(u)
  <2>1. SUFFICES ASSUME NEW i \in 1 .. Len(t) PROVE t[i] \in ToSet(u)
    BY <1>4 DEF ToSet
  <2>2. Len(s) + i \in DOMAIN u /\ u[Len(s) + i] = t[i]
    BY <1>1, <1>3, <1>4
  <2>3. QED BY <2>2 DEF ToSet
<1>7. ToSet(u) \subseteq ToSet(s) \cup ToSet(t)
  <2>1. SUFFICES ASSUME NEW i \in 1 .. Len(u) PROVE u[i] \in ToSet(s) \cup ToSet(t)
    BY <1>4 DEF ToSet
  <2>2. CASE i \in 1 .. Len(s)
    BY <1>2, <1>4, <2>2 DEF ToSet
  <2>3. CASE i \notin 1 .. Len(s)
    <3>1. i - Len(s) \in 1 .. Len(t) /\ Len(s) + (i - Len(s)) = i
      BY <1>1, <2>3
    <3>2. u[i] = t[i - Len(s)]
      BY <1>3, <3>1
    <3>3. QED BY <1>4, <3>1, <3>2 DEF ToSet
  <2>4. QED BY <2>2, <2>3
<1>8. QED BY <1>5, <1>6, <1>7 DEF u

LEMMA PermissionRequestAnnounces ==
    ASSUME SysInv, NEW a \in Agents, NEW req \in Asks[a],
           PermissionRequest(a, req)
    PROVE  Announces
<1> DEFINE agent == [registered[a] EXCEPT
                       !.resolved_permissions[req] = NoDecision,
                       !.pending_permissions = Append(@, req)]
           asked == permission_message_for_agent(a, agent, req)
           view == LivePassiveView(a, agent)
<1>1. /\ TypeOK /\ board_outbox \in Seq(Talk)
      /\ a \in DOMAIN registered /\ registered[a] \in RegisteredAgent
      /\ req \in ReqIds
  BY RecordType, AsksType DEF PermissionRequest, SysInv, DaemonInv, LinkInv
<1>2. Update(a, agent) /\ board_outbox' = board_outbox \o (asked \o view)
  BY DEF PermissionRequest, Enqueue
<1>3. /\ registered[a].pending_permissions \in Seq(ReqIds)
      /\ agent.pending_permissions = Append(registered[a].pending_permissions, req)
      /\ agent.board_sid = registered[a].board_sid
      /\ agent \in RegisteredAgent
  <2>1. Append(registered[a].pending_permissions, req) \in Seq(ReqIds)
    BY <1>1, AppendProperties DEF RegisteredAgent
  <2>2. QED BY <1>1, <2>1 DEF RegisteredAgent
<1> HIDE DEF agent
<1>4. asked \in Seq(Quiet) /\ view \in Seq(Quiet)
  BY <1>3, AgentMessagesQuiet, EmptySeq DEF LivePassiveView
<1>5. agent.board_sid \in Sids =>
         asked = <<Announcement(a, agent.board_sid, req)>>
  BY NoSidAssumption
     DEF permission_message_for_agent, Only, Announcement
<1>6. agent.board_sid \in Sids =>
         Announcement(a, agent.board_sid, req) \in ToSet(asked)
  BY <1>5 DEF ToSet
<1> HIDE DEF asked, view
<1>7. ToSet(asked) \subseteq ToSet(board_outbox')
  <2> DEFINE both == asked \o view
  <2>1. /\ asked \in Seq(Talk) /\ view \in Seq(Talk)
        /\ both \in Seq(Quiet) /\ both \in Seq(Talk)
    BY <1>4, ConcatProperties, QuietAsked
  <2>2. ToSet(both) = ToSet(asked) \cup ToSet(view)
    BY <2>1, ConcatElements
  <2> HIDE DEF both
  <2>3. ToSet(board_outbox \o both) = ToSet(board_outbox) \cup ToSet(both)
    BY <1>1, <2>1, ConcatElements
  <2>4. QED BY <1>2, <2>2, <2>3 DEF both
<1>8. ASSUME NEW q \in ReqIds, q \in ToSet(agent.pending_permissions),
             q \notin ToSet(registered[a].pending_permissions),
             registered[a].board_sid \in Sids
      PROVE  Announcement(a, registered[a].board_sid, q)
                \in ToSet(board_outbox') \cup ToSet(wire')
  <2>1. q = req
    BY <1>1, <1>3, <1>8, LastIsIn
  <2>2. QED BY <1>3, <1>6, <1>7, <1>8, <2>1
<1>9. QED BY <1>1, <1>2, <1>3, <1>8, AnnouncesUpdate

(* Polling or settling a request leaves no other request to announce.      *)
LEMMA SettlingAnnounces ==
    ASSUME TypeOK,
           \/ \E a \in Agents, req \in ReqIds :
                 PermissionResolve(a, req) \/ PermissionPoll(a, req)
           \/ \E sid \in Sids, req \in ReqIds, d \in Decisions :
                 PermissionRes(sid, req, d)
    PROVE  Announces
<1>1. ASSUME NEW a \in DOMAIN registered, NEW req
      PROVE  /\ registered[a] \in RegisteredAgent
             /\ ToSet(Retain(registered[a].pending_permissions, {req}))
                   \subseteq ToSet(registered[a].pending_permissions)
  <2>1. registered[a].pending_permissions \in Seq(ReqIds)
    BY RecordType DEF RegisteredAgent
  <2>2. QED BY <2>1, RecordType, RetainProperties
<1>2. ASSUME NEW a \in Agents, NEW req \in ReqIds, PermissionResolve(a, req)
      PROVE  Announces
  <2> DEFINE agent == [registered[a] EXCEPT !.pending_permissions =
                                                Retain(@, {req})]
  <2>1. a \in DOMAIN registered /\ Update(a, agent)
    BY <1>2 DEF PermissionResolve
  <2>2. /\ agent.board_sid = registered[a].board_sid
        /\ ToSet(agent.pending_permissions)
              \subseteq ToSet(registered[a].pending_permissions)
    BY <1>1, <2>1 DEF RegisteredAgent
  <2> HIDE DEF agent
  <2>3. QED BY <2>1, <2>2, AnnouncesUpdate
<1>3. ASSUME NEW a \in Agents, NEW req \in ReqIds, PermissionPoll(a, req)
      PROVE  Announces
  <2> DEFINE agent == [registered[a] EXCEPT !.resolved_permissions[req] =
                                                NoDecision]
  <2>1. a \in DOMAIN registered /\ Update(a, agent)
    BY <1>3 DEF PermissionPoll
  <2>2. /\ agent.board_sid = registered[a].board_sid
        /\ agent.pending_permissions = registered[a].pending_permissions
    BY <1>1, <2>1 DEF RegisteredAgent
  <2> HIDE DEF agent
  <2>3. QED BY <2>1, <2>2, AnnouncesUpdate
<1>4. ASSUME NEW sid \in Sids, NEW req \in ReqIds, NEW d \in Decisions,
             PermissionRes(sid, req, d)
      PROVE  Announces
  <2>1. PICK a \in Owners(sid) :
            Update(a, [registered[a] EXCEPT
                         !.pending_permissions = Retain(@, {req}),
                         !.resolved_permissions[req] = d])
    BY <1>4 DEF PermissionRes
  <2> DEFINE agent == [registered[a] EXCEPT
                         !.pending_permissions = Retain(@, {req}),
                         !.resolved_permissions[req] = d]
  <2>2. a \in DOMAIN registered /\ Update(a, agent)
    BY <2>1 DEF Owners
  <2>3. /\ agent.board_sid = registered[a].board_sid
        /\ ToSet(agent.pending_permissions)
              \subseteq ToSet(registered[a].pending_permissions)
    BY <1>1, <2>2 DEF RegisteredAgent
  <2> HIDE DEF agent
  <2>4. QED BY <2>2, <2>3, AnnouncesUpdate
<1>5. QED BY <1>2, <1>3, <1>4

(* Withdrawing a sid takes it away from its owners and announces nothing.  *)
LEMMA ClearedHolds ==
    ASSUME TypeOK, NEW sid \in Sids, NEW keep, NEW a \in DOMAIN registered
    PROVE  LET r == clear_board_sid_owners(sid, keep)[a]
           IN  /\ r \in RegisteredAgent
               /\ r.pending_permissions = registered[a].pending_permissions
               /\ r.board_sid = IF registered[a].board_sid = sid /\ a \notin keep
                                THEN NoSid ELSE registered[a].board_sid
<1>1. registered[a] \in RegisteredAgent
  BY RecordType
<1>2. QED BY <1>1 DEF clear_board_sid_owners, RegisteredAgent

LEMMA SessionInvalidAnnounces ==
    ASSUME TypeOK, NEW sid \in Sids, SessionInvalid(sid)
    PROVE  Announces
<1> DEFINE cleared == clear_board_sid_owners(sid, {})
<1>1. registered' = cleared
  BY DEF SessionInvalid
<1>2. /\ DOMAIN cleared = DOMAIN registered
      /\ \A a \in DOMAIN registered :
            /\ cleared[a].pending_permissions = registered[a].pending_permissions
            /\ cleared[a].board_sid \in {NoSid, registered[a].board_sid}
  BY ClearedHolds DEF clear_board_sid_owners
<1> HIDE DEF cleared
<1>3. QED BY <1>1, <1>2, NoSidAssumption DEF Announces, Holds

(* The request that PERMISSION_RES answers is not pending any more.        *)
LEMMA AnsweredIsSettled ==
    ASSUME TypeOK, SidUnique, NEW sid \in Sids, NEW req \in ReqIds,
           NEW d \in Decisions, PermissionRes(sid, req, d)
    PROVE  \A a \in Agents : ~Holds(a, sid, req)'
<1>1. PICK a \in Owners(sid) :
          Update(a, [registered[a] EXCEPT
                       !.pending_permissions = Retain(@, {req}),
                       !.resolved_permissions[req] = d])
  BY DEF PermissionRes
<1> DEFINE agent == [registered[a] EXCEPT
                       !.pending_permissions = Retain(@, {req}),
                       !.resolved_permissions[req] = d]
<1>2. /\ a \in DOMAIN registered /\ Update(a, agent)
      /\ registered[a].board_sid = sid /\ registered[a] \in RegisteredAgent
  BY <1>1, RecordType DEF Owners
<1>3. registered[a].pending_permissions \in Seq(ReqIds)
  BY <1>2 DEF RegisteredAgent
<1>4. req \notin ToSet(agent.pending_permissions)
  BY <1>2, <1>3, RetainProperties DEF RegisteredAgent
<1> HIDE DEF agent
<1>5. /\ DOMAIN registered' = DOMAIN registered /\ registered'[a] = agent
      /\ \A b \in DOMAIN registered : b # a => registered'[b] = registered[b]
  BY <1>2 DEF Update, TypeOK
<1>6. \A b \in DOMAIN registered : b # a => registered[b].board_sid # sid
  BY <1>2, NoSidAssumption DEF SidUnique
<1>7. QED BY <1>4, <1>5, <1>6 DEF Holds

LEMMA SliceHolds ==
    ASSUME NEW S, NEW q \in Seq(S), NEW lo \in 1 .. Len(q),
           NEW hi \in lo .. Len(q), NEW i \in lo .. hi
    PROVE  q[i] \in ToSet(SubSeq(q, lo, hi))
<1> DEFINE slice == SubSeq(q, lo, hi)
           k == i - lo + 1
<1>1. Len(q) \in Nat
  BY LenProperties
<1>2. \A j \in lo .. hi : q[j] \in S
  BY <1>1, ElementOfSeq
<1>3. /\ slice \in Seq(S) /\ Len(slice) = hi - lo + 1
      /\ \A j \in 1 .. hi - lo + 1 : slice[j] = q[lo + j - 1]
  BY <1>1, <1>2, SubSeqProperties
<1>4. k \in 1 .. Len(slice) /\ lo + k - 1 = i
  BY <1>1, <1>3
<1>5. k \in DOMAIN slice
  BY <1>3, <1>4, LenProperties
<1>6. slice[k] = q[i]
  BY <1>3, <1>4
<1> HIDE DEF slice, k
<1>7. QED BY <1>5, <1>6 DEF ToSet, slice

(* A flush sends a message of the queue or keeps it, also when a send      *)
(* fails, whether or not the board got the message that failed.            *)
LEMMA FlushKeeps ==
    ASSUME NEW S, NEW q \in Seq(S), flush_board_outbox(q)
    PROVE  ToSet(q) \subseteq ToSet(sent') \cup ToSet(board_outbox')
<1>1. Len(q) \in Nat /\ DOMAIN q = 1 .. Len(q)
  BY LenProperties
<1>2. CASE board_outbox' = q \/ sent' = q
  BY <1>2
<1>3. CASE \E n \in 1 .. Len(q) :
              sent' = SubSeq(q, 1, n) \o SubSeq(q, n, Len(q))
  <2>1. PICK n \in 1 .. Len(q) :
              sent' = SubSeq(q, 1, n) \o SubSeq(q, n, Len(q))
    BY <1>3
  <2> DEFINE front == SubSeq(q, 1, n)
             again == SubSeq(q, n, Len(q))
  <2>2. n \in 0 .. Len(q)
    BY <1>1
  <2>3. front \in Seq(S) /\ again \in Seq(S)
    BY <2>2, SplitCounts, MoreCounts
  <2>4. ASSUME NEW i \in 1 .. Len(q)
        PROVE  q[i] \in ToSet(front) \cup ToSet(again)
    <3>1. CASE i \in 1 .. n
      <4>1. 1 \in 1 .. Len(q) /\ n \in 1 .. Len(q)
        BY <1>1
      <4>2. QED BY <3>1, <4>1, SliceHolds
    <3>2. CASE i \in n .. Len(q)
      <4>1. n \in 1 .. Len(q) /\ Len(q) \in n .. Len(q)
        BY <1>1
      <4>2. QED BY <3>2, <4>1, SliceHolds
    <3>3. QED BY <1>1, <3>1, <3>2
  <2> HIDE DEF front, again
  <2>5. ToSet(front \o again) = ToSet(front) \cup ToSet(again)
    BY <2>3, ConcatElements
  <2>6. ToSet(q) \subseteq ToSet(front) \cup ToSet(again)
    BY <1>1, <2>4 DEF ToSet
  <2>7. QED BY <2>1, <2>5, <2>6 DEF front, again
<1>4. CASE \E n \in 0 .. Len(q) - 1 :
              /\ board_outbox' = SubSeq(q, n + 1, Len(q))
              /\ \E k \in {n, n + 1} : sent' = SubSeq(q, 1, k)
  <2>0. PICK n \in 0 .. Len(q) - 1 :
              /\ board_outbox' = SubSeq(q, n + 1, Len(q))
              /\ \E k \in {n, n + 1} : sent' = SubSeq(q, 1, k)
    BY <1>4
  <2>1. PICK k \in {n, n + 1} :
              /\ board_outbox' = SubSeq(q, n + 1, Len(q))
              /\ sent' = SubSeq(q, 1, k)
    BY <2>0
  <2>2. ASSUME NEW i \in 1 .. Len(q)
        PROVE  q[i] \in ToSet(SubSeq(q, 1, k))
                        \cup ToSet(SubSeq(q, n + 1, Len(q)))
    <3>1. CASE i \in 1 .. n
      <4>1. 1 \in 1 .. Len(q) /\ k \in 1 .. Len(q) /\ i \in 1 .. k
        BY <1>1, <3>1
      <4>2. QED BY <4>1, SliceHolds
    <3>2. CASE i \in n + 1 .. Len(q)
      <4>1. n + 1 \in 1 .. Len(q) /\ Len(q) \in n + 1 .. Len(q)
        BY <1>1
      <4>2. QED BY <3>2, <4>1, SliceHolds
    <3>3. QED BY <1>1, <3>1, <3>2
  <2>3. QED BY <1>1, <2>1, <2>2 DEF ToSet
<1>5. QED BY <1>2, <1>3, <1>4 DEF flush_board_outbox

(* Everything a step posts is queued or on the wire after it, and so is    *)
(* what was there before.                                                  *)
LEMMA PostsArrive ==
    ASSUME SysInv, SysInv', NEW messages \in Seq(Talk), Posts(messages)
    PROVE  ToSet(board_outbox) \cup ToSet(wire) \cup ToSet(messages)
              \subseteq ToSet(board_outbox') \cup ToSet(wire')
<1> DEFINE q == board_outbox \o messages
<1>1. /\ board_outbox \in Seq(Talk) /\ wire \in Seq(Talk) /\ q \in Seq(Talk)
      /\ TypeOK'
  BY ConcatProperties DEF SysInv, DaemonInv, LinkInv
<1>2. ToSet(q) = ToSet(board_outbox) \cup ToSet(messages)
  BY <1>1, ConcatElements
<1>3. /\ wire' = wire \o sent'
      /\ \/ flush_board_outbox(q)
         \/ board_outbox' = q /\ sent' = <<>>
  BY DEF Posts, OnWire
<1> HIDE DEF q
<1>4. ToSet(q) \subseteq ToSet(sent') \cup ToSet(board_outbox')
  BY <1>1, <1>3, FlushKeeps
<1>5. wire \in Seq(HidMessage) /\ sent' \in Seq(HidMessage)
  BY <1>1, QuietIsTalk, SeqMonotonic DEF TypeOK
<1>6. ToSet(wire \o sent') = ToSet(wire) \cup ToSet(sent')
  BY <1>5, ConcatElements
<1>7. QED BY <1>2, <1>3, <1>4, <1>6

(* A freshly bound row is told of every pending request.                   *)
LEMMA SyncAnnounces ==
    ASSUME NEW a \in Agents, NEW r \in RegisteredAgent,
           r.pending_permissions \in Seq(Asks[a]), r.board_sid # NoSid
    PROVE  \A req \in ToSet(r.pending_permissions) :
              Announcement(a, r.board_sid, req) \in ToSet(board_sync_messages(a, r))
<1> DEFINE sid == r.board_sid
           asked == r.pending_permissions
           meta == <<Message("AgentMeta", sid, a, NoBody)>>
           status == status_message_for_agent(a, r)
           token == token_message_for_agent(a, r)
           turn == Only(r.from_launch /\ r.turns,
                        Message("TurnAppend", sid, a, NoBody))
           before == meta \o status \o token \o turn
           prompts == [i \in 1 .. Len(asked) |->
                          Message("PermissionReq", sid, a, asked[i])]
<1>1. /\ sid \in Sids \cup {Broadcast} /\ asked \in Seq(Asks[a])
      /\ Len(asked) \in Nat /\ DOMAIN asked = 1 .. Len(asked)
      /\ r.from_launch \in BOOLEAN /\ r.turns \in BOOLEAN
  BY LenProperties DEF RegisteredAgent
<1>2. /\ {"AgentMeta", "TurnAppend", "PermissionReq"}
            \subseteq Cmds \ {"RequestSession"}
      /\ NoBody \in ReqIds \cup Screens \cup {NoBody}
      /\ Asks[a] \subseteq ReqIds \cup Screens \cup {NoBody}
  BY AsksType DEF Cmds
<1>3. /\ Message("AgentMeta", sid, a, NoBody) \in Quiet
      /\ Message("TurnAppend", sid, a, NoBody) \in Quiet
      /\ \A req \in Asks[a] : Message("PermissionReq", sid, a, req) \in Quiet
  BY <1>1, <1>2, QuietMessage
<1>4. meta \in Seq(Quiet) /\ turn \in Seq(Quiet)
  BY <1>1, <1>3, OnlyType
<1>5. board_sync_messages(a, r) = before \o prompts
  BY DEF board_sync_messages
<1>6. \A i \in 1 .. Len(asked) : asked[i] \in Asks[a]
  BY <1>1, ElementOfSeq
<1> HIDE DEF sid, asked, meta, turn, status, token
<1>7. prompts \in Seq(Quiet)
  <2>1. prompts \in [1 .. Len(asked) -> Quiet]
    BY <1>3, <1>6
  <2>2. QED BY <1>1, <2>1, SeqFromFunction
<1>8. before \in Seq(Quiet)
  <2>1. status \in Seq(Quiet) /\ token \in Seq(Quiet)
    BY AgentMessagesQuiet DEF status, token
  <2>2. QED BY <1>4, <2>1, ConcatProperties
<1>9. \A req \in ToSet(asked) : Announcement(a, sid, req) \in ToSet(prompts)
  BY <1>1 DEF ToSet, Announcement
<1> HIDE DEF before, prompts
<1>10. ToSet(prompts) \subseteq ToSet(before \o prompts)
  BY <1>7, <1>8, ConcatElements
<1>11. QED BY <1>5, <1>9, <1>10 DEF sid, asked

LEMMA SessionResponseAnnounces ==
    ASSUME SysInv, SysInv', NEW sid \in Sids, SessionResponse(sid), OnWire
    PROVE  /\ Announces
           /\ \A a \in Agents, req \in ReqIds :
                 Holds(a, sid, req)' =>
                    Announcement(a, sid, req) \in ToSet(board_outbox') \cup ToSet(wire')
<1> DEFINE key == Head(pending_board_sessions)
           cleared == clear_board_sid_owners(sid, {key})
           bound == [cleared[key] EXCEPT !.board_sid = sid]
           messages == board_sync_messages(key, bound)
<1>1. /\ TypeOK /\ TypeOK' /\ RowsInv /\ PermsAsked
      /\ pending_board_sessions # <<>> /\ pending_board_sessions \in Seq(Agents)
      /\ board_outbox \in Seq(Talk) /\ wire \in Seq(Talk)
  BY DEF SessionResponse, TypeOK, SysInv, DaemonInv, LinkInv
<1>2. key \in ToSet(pending_board_sessions) /\ key \in Agents
  BY <1>1, EmptySeq, LenProperties, HeadTailProperties DEF ToSet
<1>3. key \in DOMAIN registered
  BY <1>1, <1>2, PendingSoundAsSet DEF RowsInv
<1>4. /\ registered' = [cleared EXCEPT ![key] = bound]
      /\ flush_board_outbox(board_outbox \o messages)
  BY <1>3 DEF SessionResponse, BoardMessage
<1>5. /\ DOMAIN cleared = DOMAIN registered
      /\ \A a \in DOMAIN registered :
            /\ cleared[a] \in RegisteredAgent
            /\ cleared[a].pending_permissions = registered[a].pending_permissions
            /\ cleared[a].board_sid =
                  IF registered[a].board_sid = sid /\ a \notin {key}
                  THEN NoSid ELSE registered[a].board_sid
  BY <1>1, ClearedHolds DEF clear_board_sid_owners
<1> HIDE DEF cleared, key
<1>6. /\ bound \in RegisteredAgent /\ bound.board_sid = sid /\ sid # NoSid
      /\ bound.pending_permissions = registered[key].pending_permissions
      /\ bound.pending_permissions \in Seq(Asks[key])
  BY <1>1, <1>3, <1>5, NoSidAssumption DEF RegisteredAgent, PermsAsked
<1> HIDE DEF bound
<1>7. messages \in Seq(Quiet) /\ messages \in Seq(Talk)
  BY <1>2, <1>6, BoardSyncQuiet, QuietAsked
<1>8. \A req \in ToSet(bound.pending_permissions) :
         Announcement(key, sid, req) \in ToSet(messages)
  BY <1>2, <1>6, SyncAnnounces
<1> HIDE DEF messages
<1>9. ToSet(messages) \subseteq ToSet(board_outbox') \cup ToSet(wire')
  <2>1. Posts(messages)
    BY <1>4 DEF Posts
  <2>2. QED BY <1>7, <2>1, PostsArrive
<1>10. /\ DOMAIN registered' = DOMAIN registered /\ registered'[key] = bound
       /\ \A a \in DOMAIN registered : a # key => registered'[a] = cleared[a]
  BY <1>3, <1>4, <1>5
<1>11. ASSUME NEW a \in Agents, NEW req \in ReqIds, Holds(a, sid, req)'
       PROVE  a = key
  BY <1>5, <1>10, <1>11, NoSidAssumption DEF Holds
<1>12. ASSUME NEW a \in Agents, NEW s \in Sids, NEW req \in ReqIds,
              a = key, Holds(a, s, req)'
       PROVE  s = sid /\ Announcement(a, s, req) \in ToSet(messages)
  <2>1. registered'[a] = bound
    BY <1>10, <1>12
  <2>2. s = sid /\ req \in ToSet(bound.pending_permissions)
    BY <1>6, <1>12, <2>1 DEF Holds
  <2>3. QED BY <1>8, <1>12, <2>2
<1>13. ASSUME NEW a \in Agents, NEW s \in Sids, NEW req \in ReqIds,
              a # key, Holds(a, s, req)'
       PROVE  Holds(a, s, req)
  <2>1. a \in DOMAIN registered /\ registered'[a] = cleared[a]
    BY <1>10, <1>13 DEF Holds
  <2>2. cleared[a].board_sid = s /\ req \in ToSet(cleared[a].pending_permissions)
    BY <1>13, <2>1 DEF Holds
  <2>3. QED BY <1>5, <2>1, <2>2, NoSidAssumption DEF Holds
<1>14. Announces
  BY <1>9, <1>12, <1>13 DEF Announces
<1>15. QED BY <1>9, <1>11, <1>12, <1>14

(* The invariant: under a sid that host and board agree on, and that was   *)
(* not granted anew to nobody, each pending request of its owner is queued *)
(* or on the wire, shown, or answered.                                     *)
Under(a, s, req) ==
    \/ Announcement(a, s, req) \in InFlight
    \/ <<a, req>> \in rows[s].prompts
    \/ \E d \in Decisions : Up("PermissionRes", s, req, d) \in ToSet(upstream)

AsksKept ==
    \A a \in Agents, s \in Sids, req \in ReqIds :
        Holds(a, s, req) /\ Settled(s) /\ s \notin reissued => Under(a, s, req)

LEMMA ClientAnnounces ==
    ASSUME SysInv, SysClient \/ LinkStep
    PROVE  Announces
<1>1. TypeOK
  BY DEF SysInv, DaemonInv
<1>2. ASSUME NEW a \in Agents, NEW req \in Asks[a],
             \/ PermissionRequest(a, req) \/ PermissionResolve(a, req)
             \/ PermissionPoll(a, req)
      PROVE  Announces
  <2>1. req \in ReqIds
    BY AsksType
  <2>2. QED BY <1>1, <1>2, <2>1, PermissionRequestAnnounces, SettlingAnnounces
<1>3. CASE \/ ClientFlush \/ ClientGone \/ HeartbeatWakes \/ HidOpens
           \/ HidReadFails \/ HeartbeatLocks
  <2>1. UNCHANGED registered
    BY <1>3 DEF ClientFlush, ClientGone, HeartbeatWakes, HidOpens,
                HidReadFails, HeartbeatLocks, agentVars
  <2>2. QED BY <2>1, AnnouncesUnchanged
<1>4. CASE SysClient
  BY <1>1, <1>2, <1>3, <1>4, RegisterAnnounces DEF SysClient
<1>5. CASE LinkStep
  BY <1>3, <1>5 DEF LinkStep, SysHeartbeatWakes, SysHeartbeatLocks,
                    SysHidOpens, SysHidReadFails
<1>6. QED BY <1>4, <1>5

LEMMA NothingVanishes ==
    ASSUME SysInv, SysInv',
           PostsQuiet \/ \E slots \in Seq(Agents) : Joins(slots)
    PROVE  InFlight \subseteq InFlight'
<1>1. PICK messages \in Seq(Talk) : Posts(messages)
  BY QuietAsked DEF PostsQuiet, Joins
<1>2. QED BY <1>1, PostsArrive DEF InFlight

(* A daemon step that reads nothing of the board.                          *)
LEMMA DaemonKept ==
    ASSUME SysInv, SysInv', AsksKept, Announces,
           UNCHANGED <<upstream, rows, reissued>>,
           PostsQuiet \/ \E slots \in Seq(Agents) : Joins(slots)
    PROVE  AsksKept'
<1>1. InFlight \subseteq InFlight'
  BY NothingVanishes
<1>2. SUFFICES ASSUME NEW a \in Agents, NEW s \in Sids, NEW req \in ReqIds,
                      Holds(a, s, req)', Settled(s)', s \notin reissued'
               PROVE  Under(a, s, req)'
  BY DEF AsksKept
<1>3. CASE Announcement(a, s, req) \in ToSet(board_outbox') \cup ToSet(wire')
  BY <1>3 DEF Under, InFlight, Announcement
<1>4. CASE Holds(a, s, req)
  <2>1. Settled(s) /\ s \notin reissued
    BY <1>2 DEF Settled
  <2>2. Under(a, s, req)
    BY <1>4, <2>1 DEF AsksKept
  <2>3. QED BY <1>1, <2>2 DEF Under, Announcement
<1>5. QED BY <1>2, <1>3, <1>4 DEF Announces

LEMMA ClientKept ==
    ASSUME SysInv, SysInv', AsksKept, SysClient \/ LinkStep
    PROVE  AsksKept'
<1>1. UNCHANGED <<upstream, rows, reissued>> /\ Announces
  BY ClientShape, ClientAnnounces DEF boardVars, history
<1>2. QED BY <1>1, ClientShape, DaemonKept

(* An aborted agent holds nothing, and its prompts go with it.             *)
LEMMA AbortKept ==
    ASSUME SysInv, SysInv', AsksKept, NEW a \in Agents, SysAbort(a)
    PROVE  AsksKept'
<1>1. Announces
  BY DEF SysAbort, Abort, Without, Announces, Holds
<1>2. UNCHANGED <<upstream, rows, reissued>> /\ PostsQuiet
  BY AbortShape
<1>3. QED BY <1>1, <1>2, DaemonKept

(* The daemon reads a grant or an answer.                                  *)
LEMMA MessageAnnounces ==
    ASSUME SysInv, SysInv', SysBoardMessage
    PROVE  /\ Announces
           /\ \A a \in Agents, s \in Sids, req \in ReqIds :
                 s = Head(upstream).sid /\ Holds(a, s, req)' =>
                    /\ Head(upstream).cmd # "SessionInvalid"
                    /\ Head(upstream).cmd = "PermissionRes" =>
                          req # Head(upstream).req
                    /\ Head(upstream).cmd = "SessionResponse" =>
                          \/ Announcement(a, s, req)
                                \in ToSet(board_outbox') \cup ToSet(wire')
                          \/ s \in reissued'
<1> DEFINE m == Head(upstream)
<1>1. /\ TypeOK /\ SidUnique /\ OnWire /\ Dispatch(m) /\ m \in BoardTalk
      /\ reissued' = Reissued(m)
  BY BoardMessageShape DEF SysInv, DaemonInv, RowsInv, SysBoardMessage
<1>2. /\ m.cmd # "SessionRejected" => m.sid \in Sids
      /\ m.cmd = "PermissionRes" => m.req \in ReqIds /\ m.decision \in Decisions
  BY <1>1 DEF BoardTalk, Taken
<1>3. m.cmd = "SessionInvalid" =>
         \A a \in Agents, s \in Sids, req \in ReqIds :
             s = m.sid => ~Holds(a, s, req)'
  BY BoardMessageShape DEF Holds
<1> HIDE DEF m
<1>4. CASE m.cmd = "SessionResponse" /\ pending_board_sessions # <<>>
  <2>1. m.sid \in Sids /\ SessionResponse(m.sid)
    BY <1>1, <1>2, <1>4 DEF Dispatch
  <2>2. ASSUME NEW s \in Sids, s = m.sid
        PROVE  /\ Announces
               /\ \A a \in Agents, req \in ReqIds : Holds(a, s, req)' =>
                    Announcement(a, s, req) \in ToSet(board_outbox') \cup ToSet(wire')
    BY <1>1, <2>1, <2>2, SessionResponseAnnounces
  <2>3. QED BY <1>4, <2>1, <2>2 DEF m
<1>5. CASE m.cmd = "SessionResponse" /\ pending_board_sessions = <<>>
  <2>1. UNCHANGED registered
    BY <1>1, <1>5 DEF Dispatch, SessionRejected
  <2>2. Owners(m.sid) # {} => m.sid \in reissued'
    BY <1>1, <1>5 DEF Reissued
  <2>3. ASSUME NEW s, s = m.sid, NEW a \in Agents, NEW req,
               Holds(a, s, req)', s \notin reissued'
        PROVE  FALSE
    BY <2>1, <2>2, <2>3 DEF Holds, Owners
  <2>4. QED BY <1>5, <2>1, <2>3, AnnouncesUnchanged DEF m
<1>6. CASE m.cmd = "PermissionRes"
  <2>1. CASE Owners(m.sid) = {}
    <3>1. OtherBoardMessage
      BY <1>1, <1>6, <2>1 DEF Dispatch
    <3>2. UNCHANGED registered
      BY <3>1 DEF OtherBoardMessage
    <3>3. ASSUME NEW s, s = m.sid, NEW a \in Agents, NEW req
          PROVE  ~Holds(a, s, req)'
      BY <2>1, <3>2, <3>3 DEF Holds, Owners
    <3>4. QED BY <1>6, <3>2, <3>3, AnnouncesUnchanged DEF m
  <2>2. CASE Owners(m.sid) # {}
    <3>1. PermissionRes(m.sid, m.req, m.decision)
      BY <1>1, <1>6, <2>2 DEF Dispatch
    <3>2. Announces
      BY <1>1, <1>2, <1>6, <3>1, SettlingAnnounces
    <3>3. ASSUME NEW s \in Sids, NEW req \in ReqIds, s = m.sid, req = m.req
          PROVE  \A a \in Agents : ~Holds(a, s, req)'
      BY <1>1, <1>2, <1>6, <3>1, <3>3, AnsweredIsSettled
    <3>4. QED BY <1>2, <1>6, <3>2, <3>3 DEF m
  <2>3. QED BY <2>1, <2>2
<1>7. CASE m.cmd = "SessionInvalid"
  <2>1. SessionInvalid(m.sid)
    BY <1>1, <1>7 DEF Dispatch
  <2>2. Announces
    BY <1>1, <1>2, <1>7, <2>1, SessionInvalidAnnounces
  <2>3. QED BY <1>3, <1>7, <2>2 DEF m
<1>8. CASE m.cmd = "SessionRejected"
  <2>1. SessionRejected
    BY <1>1, <1>8 DEF Dispatch
  <2>2. QED BY <1>8, <2>1, AnnouncesUnchanged DEF SessionRejected, m
<1>9. QED BY <1>1, <1>4, <1>5, <1>6, <1>7, <1>8 DEF Dispatch

LEMMA HeadAndRest ==
    ASSUME NEW S, NEW s \in Seq(S), s # <<>>
    PROVE  ToSet(s) = {Head(s)} \cup ToSet(Tail(s))
<1> DEFINE t == Tail(s)
<1>1. /\ Len(s) \in Nat \ {0} /\ Head(s) = s[1]
      /\ t \in Seq(S) /\ Len(t) = Len(s) - 1
      /\ \A i \in 1 .. Len(t) : t[i] = s[i + 1]
  BY EmptySeq, LenProperties, HeadTailProperties
<1>2. DOMAIN s = 1 .. Len(s) /\ DOMAIN t = 1 .. Len(t)
  BY <1>1, LenProperties
<1> HIDE DEF t
<1>3. ToSet(s) \subseteq {Head(s)} \cup ToSet(t)
  <2>1. SUFFICES ASSUME NEW i \in 1 .. Len(s) PROVE s[i] \in {s[1]} \cup ToSet(t)
    BY <1>1, <1>2 DEF ToSet
  <2>2. CASE i = 1
    BY <2>2
  <2>3. CASE i # 1
    <3>1. i - 1 \in 1 .. Len(t) /\ (i - 1) + 1 = i
      BY <1>1, <2>3
    <3>2. t[i - 1] = s[i]
      BY <1>1, <3>1
    <3>3. QED BY <1>2, <3>1, <3>2 DEF ToSet
  <2>4. QED BY <2>2, <2>3
<1>4. ToSet(t) \subseteq ToSet(s)
  <2>1. SUFFICES ASSUME NEW i \in 1 .. Len(t) PROVE t[i] \in ToSet(s)
    BY <1>2 DEF ToSet
  <2>2. i + 1 \in 1 .. Len(s) /\ t[i] = s[i + 1]
    BY <1>1
  <2>3. QED BY <1>2, <2>2 DEF ToSet
<1>5. Head(s) \in ToSet(s)
  <2>1. 1 \in 1 .. Len(s)
    BY <1>1
  <2>2. QED BY <1>1, <1>2, <2>1 DEF ToSet
<1>6. QED BY <1>3, <1>4, <1>5 DEF t

LEMMA ToHostAdds ==
    ASSUME SysInv, NEW m, ToHost(m)
    PROVE  ToSet(upstream') = ToSet(upstream) \cup {m}
<1> DEFINE S == BoardTalk \cup {m}
           u == upstream
<1>1. u \in Seq(BoardTalk) /\ BoardTalk \subseteq S /\ m \in S
  BY FitTypes
<1> HIDE DEF S
<1>2. u \in Seq(S)
  BY <1>1, SeqMonotonic
<1> HIDE DEF u
<1>3. ToSet(Append(u, m)) = ToSet(u) \cup {m}
  BY <1>1, <1>2, LastIsIn
<1>4. QED BY <1>3 DEF ToHost, u

LEMMA MessageKept ==
    ASSUME SysInv, SysInv', AsksKept, SysBoardMessage
    PROVE  AsksKept'
<1> DEFINE m == Head(upstream)
<1>1. /\ upstream # <<>> /\ upstream' = Tail(upstream) /\ UNCHANGED rows
      /\ upstream \in Seq(BoardTalk) /\ PostsQuiet
      /\ reissued' = Reissued(m)
  BY BoardMessageShape, FitTypes
<1>2. InFlight \subseteq InFlight'
  BY <1>1, NothingVanishes
<1>3. ToSet(upstream) = {m} \cup ToSet(upstream')
  BY <1>1, HeadAndRest
<1>4. SUFFICES ASSUME NEW a \in Agents, NEW s \in Sids, NEW req \in ReqIds,
                      Holds(a, s, req)', Settled(s)', s \notin reissued'
               PROVE  Under(a, s, req)'
  BY DEF AsksKept
<1>5. /\ Announces
      /\ s = m.sid =>
            /\ m.cmd # "SessionInvalid"
            /\ m.cmd = "PermissionRes" => req # m.req
            /\ m.cmd = "SessionResponse" =>
                  Announcement(a, s, req) \in ToSet(board_outbox') \cup ToSet(wire')
  BY <1>4, MessageAnnounces
<1> HIDE DEF m
<1>6. CASE Announcement(a, s, req) \in ToSet(board_outbox') \cup ToSet(wire')
  BY <1>6 DEF Under, InFlight, Announcement
<1>7. CASE /\ Holds(a, s, req)
           /\ ~(m.cmd = "SessionResponse" /\ s = m.sid)
  <2>1. m.cmd \in {"SessionResponse", "SessionInvalid"} => m.sid # s
    BY <1>5, <1>7
  <2>2. Settled(s)
    BY <1>1, <1>4, <2>1, SettledAfter DEF m
  <2>3. s \notin reissued
    BY <1>1, <1>4, <2>1 DEF Reissued
  <2>4. Under(a, s, req)
    BY <1>7, <2>2, <2>3 DEF AsksKept
  <2>5. \A d \in Decisions : Up("PermissionRes", s, req, d) # m
    BY <1>5 DEF Up
  <2>6. QED BY <1>1, <1>2, <1>3, <2>4, <2>5 DEF Under, Announcement
<1>8. QED BY <1>4, <1>5, <1>6, <1>7 DEF Announces

(* What the board does with a message takes no announced request away.     *)
LEMMA ReadKept ==
    ASSUME SysInv, AsksKept, BoardReads
    PROVE  AsksKept'
<1> DEFINE m == Head(wire)
<1>1. /\ wire # <<>> /\ wire \in Seq(Talk) /\ wire' = Tail(wire) /\ m \in Talk
      /\ UNCHANGED <<registered, board_outbox, reissued>>
      /\ rows \in [Sids -> Row]
  BY BoardReadsShape, FitTypes
     DEF vars, agentVars, history, SysInv, BoardInv
<1>2. InFlight = {m} \cup InFlight'
  <2>1. ToSet(wire) = {m} \cup ToSet(wire')
    BY <1>1, HeadAndRest
  <2>2. QED BY <1>1, <2>1 DEF InFlight
<1>3. UNCHANGED upstream \/ \E u : ToHost(u)
  BY BoardReadsShape DEF BoardGrants, BoardRejects, BoardShows
<1>4. ToSet(upstream) \subseteq ToSet(upstream')
  <2>1. ASSUME NEW u, ToHost(u) PROVE ToSet(upstream) \subseteq ToSet(upstream')
    BY <2>1, ToHostAdds
  <2>2. QED BY <1>3, <2>1
<1>5. SUFFICES ASSUME NEW a \in Agents, NEW s \in Sids, NEW req \in ReqIds,
                      Holds(a, s, req)', Settled(s)', s \notin reissued'
               PROVE  Under(a, s, req)'
  BY DEF AsksKept
<1>6. Holds(a, s, req) /\ s \notin reissued
  BY <1>1, <1>5 DEF Holds
<1>7. ASSUME rows'[s].live => rows[s].live,
             rows[s].prompts \subseteq rows'[s].prompts,
             Announcement(a, s, req) = m => <<a, req>> \in rows'[s].prompts
      PROVE  Under(a, s, req)'
  <2>1. Settled(s)
    BY <1>3, <1>5, <1>7, SettledBefore
  <2>2. Under(a, s, req)
    BY <1>6, <2>1 DEF AsksKept
  <2>3. QED BY <1>2, <1>4, <1>7, <2>2 DEF Under, Announcement
<1> HIDE DEF m
<1>8. Announcement(a, s, req) = m =>
         m.cmd = "PermissionReq" /\ m.sid = s /\ m.agent = a /\ m.body = req
  BY DEF Announcement, Message
<1>9. CASE m.cmd = "RequestSession" /\ BoardGrants(m.agent)
  <2>1. PICK t \in FreeSids :
          /\ rows' = [rows EXCEPT ![t] = [live |-> TRUE, hint |-> m.agent,
                                          prompts |-> {}]]
          /\ ToHost(Up("SessionResponse", t, NoBody, NoDecision))
    BY <1>9 DEF BoardGrants
  <2>2. CASE s = t
    <3>1. Up("SessionResponse", t, NoBody, NoDecision) \in ToSet(upstream')
      BY <2>1, ToHostAdds
    <3>2. PICK i \in DOMAIN upstream' :
              upstream'[i] = Up("SessionResponse", t, NoBody, NoDecision)
      BY <3>1 DEF ToSet
    <3>3. QED BY <1>5, <2>2, <3>2 DEF Settled, Up
  <2>3. CASE s # t
    <3>1. rows'[s] = rows[s]
      BY <1>1, <2>1, <2>3
    <3>2. QED BY <1>7, <1>8, <1>9, <3>1
  <2>4. QED BY <2>2, <2>3
<1>10. CASE m.cmd = "RequestSession" /\ BoardRejects
  <2>1. rows' = rows
    BY <1>10 DEF BoardRejects
  <2>2. QED BY <1>7, <1>8, <1>10, <2>1
<1>11. CASE m.sid \in Sids /\ BoardShows(m)
  <2>1. rows'[s].live = rows[s].live
    BY <1>1, <1>11, ShowsType
  <2>2. rows[s].live
    BY <1>5, <2>1 DEF Settled
  <2>3. rows[s].prompts \subseteq rows'[s].prompts
    BY <1>1, <1>11 DEF BoardShows, Row
  <2>4. ASSUME Announcement(a, s, req) = m PROVE <<a, req>> \in rows'[s].prompts
    BY <1>1, <1>8, <1>11, <2>2, <2>4 DEF BoardShows, Row
  <2>5. QED BY <1>7, <2>1, <2>3, <2>4
<1>12. CASE m.sid = Broadcast /\ UNCHANGED rows
  BY <1>7, <1>8, <1>12, NoSidAssumption
<1>13. QED BY <1>9, <1>10, <1>11, <1>12, BoardReadsShape DEF m

(* An answered prompt is on its way back.                                  *)
LEMMA UserKept ==
    ASSUME SysInv, AsksKept, UserAnswers
    PROVE  AsksKept'
<1>1. /\ UNCHANGED <<registered, board_outbox, wire, reissued>>
      /\ rows \in [Sids -> Row]
  BY DEF UserAnswers, vars, agentVars, SysInv, BoardInv
<1>2. PICK t \in Sids, d \in Decisions : \E p \in rows[t].prompts :
          /\ rows' = [rows EXCEPT ![t].prompts = @ \ {p}]
          /\ ToHost(Up("PermissionRes", t, p[2], d))
  BY DEF UserAnswers
<1>3. PICK p \in rows[t].prompts :
          /\ rows' = [rows EXCEPT ![t].prompts = @ \ {p}]
          /\ ToHost(Up("PermissionRes", t, p[2], d))
  BY <1>2
<1>4. ToSet(upstream') = ToSet(upstream)
                         \cup {Up("PermissionRes", t, p[2], d)}
  BY <1>3, ToHostAdds
<1>5. SUFFICES ASSUME NEW a \in Agents, NEW s \in Sids, NEW req \in ReqIds,
                      Holds(a, s, req)', Settled(s)', s \notin reissued'
               PROVE  Under(a, s, req)'
  BY DEF AsksKept
<1>6. rows'[s].live = rows[s].live
  BY AnswersType
<1>7. Settled(s)
  BY <1>3, <1>5, <1>6, SettledBefore
<1>8. Under(a, s, req)
  BY <1>1, <1>5, <1>7 DEF AsksKept, Holds
<1>9. CASE <<a, req>> \in rows[s].prompts /\ <<a, req>> \notin rows'[s].prompts
  <2>1. s = t /\ p = <<a, req>>
    BY <1>1, <1>3, <1>9 DEF Row
  <2>2. Up("PermissionRes", s, req, d) \in ToSet(upstream')
    BY <1>4, <2>1
  <2>3. QED BY <2>2 DEF Under, Up
<1>10. CASE <<a, req>> \in rows[s].prompts => <<a, req>> \in rows'[s].prompts
  BY <1>1, <1>4, <1>8, <1>10 DEF Under, InFlight, Announcement
<1>11. QED BY <1>9, <1>10

LEMMA KeptStep ==
    ASSUME SysInv, SysInv', AsksKept, [SysNext]_sysVars
    PROVE  AsksKept'
<1>1. ASSUME NEW s \in Sids, BoardFades(s) PROVE AsksKept'
  <2>1. /\ UNCHANGED <<registered, board_outbox, wire, upstream, reissued>>
        /\ rows' = [rows EXCEPT ![s] = NoRow] /\ rows \in [Sids -> Row]
    BY <1>1 DEF BoardFades, vars, agentVars, history, SysInv, BoardInv
  <2>2. ~Settled(s)'
    BY <2>1 DEF Settled, NoRow
  <2>3. \A t \in Sids : t # s => rows'[t] = rows[t]
    BY <2>1
  <2>4. SUFFICES ASSUME NEW a \in Agents, NEW t \in Sids, NEW req \in ReqIds,
                        Holds(a, t, req)', Settled(t)', t \notin reissued'
                 PROVE  Under(a, t, req)'
    BY DEF AsksKept
  <2>5. t # s /\ rows'[t] = rows[t]
    BY <2>2, <2>3, <2>4
  <2>6. Holds(a, t, req) /\ Settled(t) /\ t \notin reissued
    BY <2>1, <2>4, <2>5 DEF Holds, Settled
  <2>7. Under(a, t, req)
    BY <2>6 DEF AsksKept
  <2>8. QED BY <2>1, <2>5, <2>7 DEF Under, InFlight, Announcement
<1>2. CASE BoardRestarts
  <2>1. \A s \in Sids : ~Settled(s)'
    BY <1>2 DEF BoardRestarts, Settled, NoRow
  <2>2. QED BY <2>1 DEF AsksKept
<1>3. CASE UNCHANGED sysVars
  <2>1. UNCHANGED <<registered, board_outbox, wire, upstream, rows, reissued>>
    BY <1>3 DEF sysVars, boardVars, history, vars, agentVars
  <2>2. QED BY <2>1 DEF AsksKept, Holds, Settled, Under, InFlight, Announcement
<1>4. QED BY <1>1, <1>2, <1>3, ClientKept, AbortKept, MessageKept, ReadKept,
             UserKept DEF SysNext, LinkStep

(* No permission request of an agent with a row is lost between the daemon *)
(* and the user, whatever the board rejects, forgets or loses by a         *)
(* restart, whatever sends fail or are repeated, whichever agents are      *)
(* aborted, in whatever order requests and sids come.  Only where the      *)
(* board dropped a row and granted its sid again while nobody waited, so   *)
(* that the agent that still holds it was not told, may the new row miss   *)
(* prompts.                                                                *)
THEOREM PermissionsAreNotLost == SysSpec => []NoLostPermission
<1>1. SysInit => AsksKept
  BY DEF SysInit, Init, AsksKept, Holds
<1>2. SysInv /\ SysInv' /\ AsksKept /\ [SysNext]_sysVars => AsksKept'
  BY KeptStep
<1>3. SysInv /\ AsksKept => NoLostPermission
  <2>1. SUFFICES ASSUME SysInv, AsksKept, NEW a \in Agents, Bound(a),
                        Settled(registered[a].board_sid),
                        registered[a].board_sid \notin reissued,
                        NEW req \in ToSet(registered[a].pending_permissions)
                 PROVE  Under(a, registered[a].board_sid, req)
    BY DEF NoLostPermission, Under, Announcement
  <2>2. /\ a \in DOMAIN registered /\ registered[a].board_sid \in Sids
        /\ registered[a].pending_permissions \in Seq(ReqIds)
    BY <2>1, FitTypes, RecordType
       DEF Bound, SysInv, DaemonInv, RegisteredAgent
  <2>3. req \in ReqIds
    <3> DEFINE asked == registered[a].pending_permissions
    <3>1. asked \in Seq(ReqIds) /\ DOMAIN asked = 1 .. Len(asked)
      BY <2>2, LenProperties
    <3> HIDE DEF asked
    <3>2. \A i \in 1 .. Len(asked) : asked[i] \in ReqIds
      BY <3>1, ElementOfSeq
    <3>3. QED BY <2>1, <3>1, <3>2 DEF ToSet, asked
  <2>4. QED BY <2>1, <2>2, <2>3 DEF AsksKept, Holds
<1>4. QED BY SysInvCorrect, <1>1, <1>2, <1>3, PTL DEF SysSpec
=============================================================================
