-------------------------- MODULE BridgeDaemonProofs --------------------------
(***************************************************************************)
(* The daemon's invariants and action properties, proved for every set of  *)
(* agents, sids, requests and bounds.  First the lemmas about the          *)
(* functions of AgentRegistry; then the type invariant, step by step, and  *)
(* the safety invariants that follow from it; last what a step of the      *)
(* daemon may do: each is a step of the abstract table of session ids,     *)
(* SidTable, or leaves it alone, and what it queues or sends, and what it  *)
(* does to a session, stays within the action properties.                  *)
(***************************************************************************)
EXTENDS BridgeDaemon, FiniteSetTheorems, SequenceTheorems, TLAPS

---------------------------------------------------------------------------
(* AgentRegistry: what Retain keeps, and the messages built from a record. *)

(* The positions Retain keeps, and the rank of a position among them. *)
Kept(s, out) == {i \in DOMAIN s : s[i] \notin out}
Rank(keep, i) == Cardinality({k \in keep : k <= i})

(* A sequence is a function on its positions, and conversely: what the     *)
(* lemmas about the sequences the code builds position by position need.   *)
LEMMA SeqFromFunction ==
    ASSUME NEW S, NEW n \in Nat, NEW f \in [1 .. n -> S]
    PROVE  /\ f \in Seq(S)
           /\ Len(f) = n
BY LenProperties

(* Ranks number the kept positions from 1 to their count.                  *)
LEMMA RankIsBijection ==
    ASSUME NEW n \in Nat, NEW keep \in SUBSET (1 .. n)
    PROVE  /\ Cardinality(keep) \in Nat
           /\ \A i \in keep : Rank(keep, i) \in 1 .. Cardinality(keep)
           /\ \A i, j \in keep : Rank(keep, i) = Rank(keep, j) => i = j
           /\ \A r \in 1 .. Cardinality(keep) :
                 \E i \in keep : Rank(keep, i) = r
<1> DEFINE upto(i) == {k \in keep : k <= i}
           f == [i \in keep |-> Rank(keep, i)]
<1>1. IsFiniteSet(keep) /\ Cardinality(keep) \in Nat
  <2>1. IsFiniteSet(1 .. n)
    BY FS_Interval
  <2>2. QED BY <2>1, FS_Subset, FS_CardinalityType
<1>2. ASSUME NEW i \in keep
      PROVE  /\ IsFiniteSet(upto(i))
             /\ Cardinality(upto(i)) \in 1 .. Cardinality(keep)
  <2>1. upto(i) \subseteq keep
    OBVIOUS
  <2>2. /\ IsFiniteSet(upto(i))
        /\ Cardinality(upto(i)) <= Cardinality(keep)
    BY <1>1, <2>1, FS_Subset
  <2>3. Cardinality(upto(i)) \in Nat /\ Cardinality(upto(i)) # 0
    <3>1. i \in upto(i)
      OBVIOUS
    <3>2. QED BY <2>2, <3>1, FS_EmptySet, FS_CardinalityType
  <2>4. QED BY <1>1, <2>2, <2>3
<1>3. ASSUME NEW i \in keep, NEW j \in keep, i < j
      PROVE  Cardinality(upto(i)) < Cardinality(upto(j))
  <2>1. /\ i \in Nat /\ j \in Nat /\ keep \subseteq Nat
    OBVIOUS
  <2>2. i <= j /\ j <= j /\ ~(j <= i)
    BY <1>3, <2>1
  <2>3. upto(i) \subseteq upto(j)
    <3>1. ASSUME NEW k \in keep, k <= i PROVE k <= j
      BY <2>1, <2>2, <3>1
    <3>2. QED BY <3>1
  <2>4. j \in upto(j) /\ j \notin upto(i)
    BY <2>2
  <2>5. QED BY <1>2, <2>3, <2>4, FS_Subset
<1>4. \A i, j \in keep : Rank(keep, i) = Rank(keep, j) => i = j
  <2>1. \A i \in keep : Rank(keep, i) = Cardinality(upto(i))
    BY DEF Rank
  <2>2. SUFFICES ASSUME NEW i \in keep, NEW j \in keep,
                        Rank(keep, i) = Rank(keep, j), i # j
                 PROVE  FALSE
    OBVIOUS
  <2>3. i < j \/ j < i
    BY <2>2
  <2> HIDE DEF upto
  <2>4. QED BY <1>2, <1>3, <2>1, <2>2, <2>3
<1>5. f \in [keep -> 1 .. Cardinality(keep)]
  BY <1>2 DEF Rank
<1>6. f \in Injection(keep, 1 .. Cardinality(keep))
  BY <1>4, <1>5 DEF Injection, IsInjective
<1>7. /\ IsFiniteSet(1 .. Cardinality(keep))
      /\ Cardinality(1 .. Cardinality(keep)) = Cardinality(keep)
  BY <1>1, FS_Interval
<1>8. f \in Surjection(keep, 1 .. Cardinality(keep))
  BY <1>6, <1>7, FS_Injection
<1>9. QED BY <1>1, <1>4, <1>5, <1>8 DEF Surjection

(* Vec::retain keeps what is not in `out`, keeps no element twice that     *)
(* occurred once, and keeps every element that is not in `out`.            *)
LEMMA RetainProperties ==
    ASSUME NEW S, NEW s \in Seq(S), NEW out
    PROVE  /\ Retain(s, out) \in Seq(S)
           /\ ToSet(Retain(s, out)) = ToSet(s) \ out
           /\ IsInjective(s) => IsInjective(Retain(s, out))
<1> DEFINE keep == Kept(s, out)
           n == Cardinality(keep)
           at(j) == CHOOSE i \in keep : Rank(keep, i) = j
           f == [j \in 1 .. n |-> s[at(j)]]
<1>1. keep \in SUBSET (1 .. Len(s)) /\ Len(s) \in Nat /\ DOMAIN s = 1 .. Len(s)
  BY LenProperties DEF Kept
<1>2. /\ n \in Nat
      /\ \A i \in keep : Rank(keep, i) \in 1 .. n
      /\ \A i, j \in keep : Rank(keep, i) = Rank(keep, j) => i = j
      /\ \A r \in 1 .. n : \E i \in keep : Rank(keep, i) = r
  <2> HIDE DEF keep
  <2>1. QED BY <1>1, RankIsBijection
<1>3. Retain(s, out) = f
  BY DEF Retain, Kept, Rank
<1>4. \A j \in 1 .. n : at(j) \in keep /\ Rank(keep, at(j)) = j
  <2> HIDE DEF keep
  <2>1. QED BY <1>2
<1>5. \A i \in keep : s[i] \in S /\ s[i] \in ToSet(s) \ out
  BY <1>1, ElementOfSeq DEF Kept, ToSet
<1>6. f \in Seq(S) /\ DOMAIN f = 1 .. n
  <2>1. f \in [1 .. n -> S]
    <3> HIDE DEF keep, at
    <3>1. QED BY <1>4, <1>5
  <2>2. QED BY <1>2, <2>1, SeqFromFunction
<1>7. ToSet(f) \subseteq ToSet(s) \ out
  <2> HIDE DEF keep, at
  <2>1. QED BY <1>4, <1>5 DEF ToSet
<1>8. ToSet(s) \ out \subseteq ToSet(f)
  <2>1. SUFFICES ASSUME NEW e \in ToSet(s) \ out
                 PROVE  \E j \in 1 .. n : f[j] = e
    BY DEF ToSet
  <2>2. PICK i \in keep : s[i] = e
    BY DEF ToSet, Kept
  <2> HIDE DEF keep
  <2>3. Rank(keep, i) \in 1 .. n
    BY <1>2
  <2>4. at(Rank(keep, i)) = i
    BY <1>2, <1>4, <2>3
  <2>5. QED BY <2>2, <2>3, <2>4
<1>9. ASSUME IsInjective(s) PROVE IsInjective(f)
  <2>1. ASSUME NEW j \in 1 .. n, NEW k \in 1 .. n, f[j] = f[k]
        PROVE  j = k
    <3>1. s[at(j)] = s[at(k)]
      BY <2>1
    <3>2. at(j) \in DOMAIN s /\ at(k) \in DOMAIN s
      BY <1>4, <1>1
    <3> HIDE DEF keep, at
    <3>3. at(j) = at(k)
      BY <1>9, <3>1, <3>2 DEF IsInjective
    <3>4. QED BY <1>4, <3>3
  <2>2. QED BY <2>1 DEF IsInjective
<1>10. QED BY <1>3, <1>6, <1>7, <1>8, <1>9

(* Retain lengthens nothing, and where there is nothing to drop it changes *)
(* nothing.                                                                *)
LEMMA RetainLength ==
    ASSUME NEW S, NEW s \in Seq(S), NEW out
    PROVE  /\ Len(Retain(s, out)) \in 0 .. Len(s)
           /\ ToSet(s) \cap out = {} => Retain(s, out) = s
<1> DEFINE keep == Kept(s, out)
           n == Cardinality(keep)
           at(j) == CHOOSE i \in keep : Rank(keep, i) = j
           f == [j \in 1 .. n |-> s[at(j)]]
<1>1. keep \in SUBSET (1 .. Len(s)) /\ Len(s) \in Nat /\ DOMAIN s = 1 .. Len(s)
  BY LenProperties DEF Kept
<1>2. Retain(s, out) = f
  BY DEF Retain, Kept, Rank
<1>3. \A i \in Nat : IsFiniteSet(1 .. i) /\ Cardinality(1 .. i) = i
  BY FS_Interval
<1>4. IsFiniteSet(keep) /\ n <= Len(s)
  <2>1. IsFiniteSet(1 .. Len(s)) /\ Cardinality(1 .. Len(s)) = Len(s)
    BY <1>1, <1>3
  <2> HIDE DEF keep
  <2>2. IsFiniteSet(keep) /\ Cardinality(keep) <= Cardinality(1 .. Len(s))
    BY <1>1, <2>1, FS_Subset
  <2>3. QED BY <2>1, <2>2
<1>5. n \in Nat
  <2> HIDE DEF keep
  <2>1. QED BY <1>4, FS_CardinalityType
<1>6. Len(f) = n
  <2>1. DOMAIN f = 1 .. n
    OBVIOUS
  <2> HIDE DEF f, n
  <2>2. QED BY <1>5, <2>1
<1>7. ASSUME ToSet(s) \cap out = {} PROVE f = s
  <2>1. keep = 1 .. Len(s)
    BY <1>1, <1>7 DEF Kept, ToSet
  <2>2. n = Len(s)
    BY <1>1, <1>3, <2>1
  <2>3. ASSUME NEW i \in keep PROVE Rank(keep, i) = i
    <3>1. {k \in keep : k <= i} = 1 .. i /\ i \in Nat
      BY <1>1, <2>1, <2>3
    <3>2. Cardinality(1 .. i) = i
      BY <1>3, <3>1
    <3>3. QED BY <3>1, <3>2 DEF Rank
  <2>4. ASSUME NEW j \in 1 .. n PROVE at(j) = j
    <3>1. j \in keep
      BY <2>1, <2>2
    <3> HIDE DEF keep
    <3>2. at(j) \in keep /\ Rank(keep, at(j)) = j
      BY <2>3, <3>1
    <3>3. QED BY <2>3, <3>2
  <2> HIDE DEF keep, at
  <2>5. f = [j \in 1 .. Len(s) |-> s[j]]
    BY <2>2, <2>4
  <2>6. QED BY <1>1, <2>5, LenProperties
<1> HIDE DEF n, f
<1>8. QED BY <1>2, <1>4, <1>5, <1>6, <1>7

(* A queue followed by newcomers holds both, each once.                    *)
LEMMA ConcatInjective ==
    ASSUME NEW S, NEW s \in Seq(S), NEW t \in Seq(S)
    PROVE  /\ ToSet(s \o t) = ToSet(s) \cup ToSet(t)
           /\ /\ IsInjective(s) /\ IsInjective(t)
              /\ ToSet(s) \cap ToSet(t) = {}
              => IsInjective(s \o t)
<1> DEFINE m == Len(s)
           n == Len(t)
           st == s \o t
<1>1. /\ m \in Nat /\ n \in Nat
      /\ DOMAIN s = 1 .. m /\ DOMAIN t = 1 .. n
  BY LenProperties
<1>2. st \in Seq(S) /\ Len(st) = m + n /\ DOMAIN st = 1 .. m + n
  BY ConcatProperties, LenProperties
<1>3. /\ \A i \in 1 .. m : st[i] = s[i]
      /\ \A i \in m + 1 .. m + n : st[i] = t[i - m]
  BY <1>1, ConcatProperties
<1> HIDE DEF m, n, st
<1>4. ToSet(st) \subseteq ToSet(s) \cup ToSet(t)
  <2>1. SUFFICES ASSUME NEW i \in 1 .. m + n
                 PROVE  st[i] \in ToSet(s) \cup ToSet(t)
    BY <1>2 DEF ToSet
  <2>2. CASE i <= m
    <3>1. i \in 1 .. m
      BY <1>1, <2>2
    <3>2. QED BY <1>1, <1>3, <3>1 DEF ToSet
  <2>3. CASE ~(i <= m)
    <3>1. i \in m + 1 .. m + n /\ i - m \in 1 .. n
      BY <1>1, <2>3
    <3>2. QED BY <1>1, <1>3, <3>1 DEF ToSet
  <2>4. QED BY <2>2, <2>3
<1>5. ToSet(s) \subseteq ToSet(st)
  <2>1. \A i \in 1 .. m : i \in 1 .. m + n
    BY <1>1
  <2>2. QED BY <1>1, <1>2, <1>3, <2>1 DEF ToSet
<1>6. ToSet(t) \subseteq ToSet(st)
  <2>1. SUFFICES ASSUME NEW j \in 1 .. n PROVE t[j] \in ToSet(st)
    BY <1>1 DEF ToSet
  <2>2. m + j \in m + 1 .. m + n /\ (m + j) - m = j /\ m + j \in 1 .. m + n
    BY <1>1
  <2>3. st[m + j] = t[j]
    BY <1>3, <2>2
  <2>4. QED BY <1>2, <2>2, <2>3 DEF ToSet
<1>7. ASSUME IsInjective(s), IsInjective(t), ToSet(s) \cap ToSet(t) = {}
      PROVE  IsInjective(st)
  <2>1. SUFFICES ASSUME NEW i \in 1 .. m + n, NEW j \in 1 .. m + n,
                        st[i] = st[j]
                 PROVE  i = j
    BY <1>2 DEF IsInjective
  <2>2. \A k \in 1 .. m : st[k] \in ToSet(s)
    BY <1>1, <1>3 DEF ToSet
  <2>3. \A k \in m + 1 .. m + n : k - m \in 1 .. n /\ st[k] \in ToSet(t)
    <3>1. SUFFICES ASSUME NEW k \in m + 1 .. m + n
                   PROVE  k - m \in 1 .. n /\ st[k] \in ToSet(t)
      OBVIOUS
    <3>2. k - m \in 1 .. n
      BY <1>1
    <3>3. QED BY <1>1, <1>3, <3>2 DEF ToSet
  <2>4. CASE i <= m /\ j <= m
    <3>1. i \in 1 .. m /\ j \in 1 .. m
      BY <1>1, <2>4
    <3>2. QED BY <1>1, <1>3, <1>7, <2>1, <3>1 DEF IsInjective
  <2>5. CASE ~(i <= m) /\ ~(j <= m)
    <3>1. i \in m + 1 .. m + n /\ j \in m + 1 .. m + n
      BY <1>1, <2>5
    <3>2. t[i - m] = t[j - m] /\ i - m \in 1 .. n /\ j - m \in 1 .. n
      BY <1>3, <2>1, <2>3, <3>1
    <3>3. i - m = j - m
      BY <1>1, <1>7, <3>2 DEF IsInjective
    <3>4. QED BY <1>1, <3>1, <3>3
  <2>6. CASE i <= m /\ ~(j <= m)
    <3>1. i \in 1 .. m /\ j \in m + 1 .. m + n
      BY <1>1, <2>6
    <3>2. QED BY <1>7, <2>1, <2>2, <2>3, <3>1
  <2>7. CASE ~(i <= m) /\ j <= m
    <3>1. j \in 1 .. m /\ i \in m + 1 .. m + n
      BY <1>1, <2>7
    <3>2. QED BY <1>7, <2>1, <2>2, <2>3, <3>1
  <2>8. QED BY <2>4, <2>5, <2>6, <2>7
<1>8. QED BY <1>4, <1>5, <1>6, <1>7 DEF st

(* Serving the head of a queue that names nobody twice removes just it.    *)
LEMMA TailInjective ==
    ASSUME NEW S, NEW s \in Seq(S), s # <<>>, IsInjective(s)
    PROVE  /\ IsInjective(Tail(s))
           /\ ToSet(Tail(s)) = ToSet(s) \ {Head(s)}
<1> DEFINE n == Len(s)
<1>1. n \in Nat \ {0} /\ DOMAIN s = 1 .. n
  BY EmptySeq, LenProperties
<1>2. /\ Tail(s) \in Seq(S) /\ DOMAIN Tail(s) = 1 .. n - 1
      /\ \A i \in 1 .. n - 1 : Tail(s)[i] = s[i + 1]
  BY HeadTailProperties, LenProperties
<1>3. Head(s) = s[1]
  OBVIOUS
<1> HIDE DEF n
<1>4. \A i \in 1 .. n - 1 : i + 1 \in 2 .. n /\ i + 1 \in 1 .. n
  BY <1>1
<1>5. IsInjective(Tail(s))
  <2>1. SUFFICES ASSUME NEW i \in 1 .. n - 1, NEW j \in 1 .. n - 1,
                        Tail(s)[i] = Tail(s)[j]
                 PROVE  i = j
    BY <1>2 DEF IsInjective
  <2>2. i + 1 = j + 1
    BY <1>1, <1>2, <1>4, <2>1 DEF IsInjective
  <2>3. QED BY <1>1, <2>2
<1>6. ToSet(Tail(s)) \subseteq ToSet(s) \ {Head(s)}
  <2>1. SUFFICES ASSUME NEW e \in ToSet(Tail(s))
                 PROVE  e \in ToSet(s) /\ e # s[1]
    BY <1>3
  <2>2. PICK i \in 1 .. n - 1 : e = s[i + 1]
    BY <1>2 DEF ToSet
  <2>3. i + 1 # 1 /\ 1 \in 1 .. n /\ i + 1 \in 1 .. n
    BY <1>1
  <2>4. QED BY <1>1, <2>2, <2>3 DEF ToSet, IsInjective
<1>7. ToSet(s) \ {Head(s)} \subseteq ToSet(Tail(s))
  <2>1. SUFFICES ASSUME NEW e \in ToSet(s), e # s[1]
                 PROVE  e \in ToSet(Tail(s))
    BY <1>3
  <2>2. PICK k \in 1 .. n : e = s[k]
    BY <1>1 DEF ToSet
  <2>3. k - 1 \in 1 .. n - 1 /\ (k - 1) + 1 = k
    BY <1>1, <2>1, <2>2
  <2>4. Tail(s)[k - 1] = e
    BY <1>2, <2>2, <2>3
  <2>5. QED BY <1>2, <2>3, <2>4 DEF ToSet
<1>8. QED BY <1>5, <1>6, <1>7

(* Only yields at most the one message, and that only if it is wanted.     *)
LEMMA OnlyType ==
    ASSUME NEW S, NEW c \in BOOLEAN, NEW m, c => m \in S
    PROVE  Only(c, m) \in Seq(S)
BY DEF Only

(* Message builds a HidMessage from fields of the right types.             *)
LEMMA MessageType ==
    ASSUME NEW cmd \in Cmds, NEW sid \in Sids \cup {Broadcast},
           NEW a \in Agents \cup {NoAgent},
           NEW body \in ReqIds \cup Screens \cup {NoBody}
    PROVE  Message(cmd, sid, a, body) \in HidMessage
BY DEF Message, HidMessage

(* What may be queued under the row of one agent, and of that all but the  *)
(* bytes for the terminal view.                                            *)
MessagesOf(a, sid) == {m \in HidMessage : m.agent = a /\ m.sid = sid}
UpdatesOf(a, sid) == {m \in MessagesOf(a, sid) : m.cmd # "Vt100Stream"}

LEMMA MessagesOfAreMessages ==
    ASSUME NEW a, NEW sid
    PROVE  /\ UpdatesOf(a, sid) \subseteq MessagesOf(a, sid)
           /\ MessagesOf(a, sid) \subseteq HidMessage
BY DEF UpdatesOf, MessagesOf

LEMMA UpdateMessage ==
    ASSUME NEW a \in Agents, NEW sid \in Sids \cup {Broadcast},
           NEW cmd \in Cmds \ {"Vt100Stream"},
           NEW body \in ReqIds \cup Screens \cup {NoBody}
    PROVE  Message(cmd, sid, a, body) \in UpdatesOf(a, sid)
BY MessageType DEF Message, UpdatesOf, MessagesOf

(* What is built from a record of a registered agent speaks about that     *)
(* agent, under the sid in its record.                                     *)
LEMMA AgentMessagesOf ==
    ASSUME NEW a \in Agents, NEW r \in RegisteredAgent
    PROVE  /\ status_message_for_agent(a, r) \in Seq(UpdatesOf(a, r.board_sid))
           /\ token_message_for_agent(a, r) \in Seq(UpdatesOf(a, r.board_sid))
           /\ \A req \in ReqIds :
                 permission_message_for_agent(a, r, req)
                    \in Seq(UpdatesOf(a, r.board_sid))
           /\ terminal_replay_message_for_agent(a, r)
                 \in Seq(MessagesOf(a, r.board_sid))
<1> DEFINE sid == r.board_sid
<1>1. /\ sid \in Sids \cup {NoSid}
      /\ r.usage \in BOOLEAN /\ r.terminal_buffer \in BOOLEAN
  BY DEF RegisteredAgent
<1>2. /\ {"StatusUpdate", "TokenUsage", "PermissionReq"}
            \subseteq Cmds \ {"Vt100Stream"}
      /\ NoBody \in ReqIds \cup Screens \cup {NoBody}
      /\ ReqIds \subseteq ReqIds \cup Screens \cup {NoBody}
  BY DEF Cmds
<1>3. ASSUME sid # NoSid, NEW cmd \in Cmds \ {"Vt100Stream"},
             NEW body \in ReqIds \cup Screens \cup {NoBody}
      PROVE  Message(cmd, sid, a, body) \in UpdatesOf(a, sid)
  BY <1>1, <1>3, UpdateMessage
<1> HIDE DEF sid
<1>4. status_message_for_agent(a, r) \in Seq(UpdatesOf(a, sid))
  BY <1>2, <1>3, OnlyType DEF status_message_for_agent, sid
<1>5. token_message_for_agent(a, r) \in Seq(UpdatesOf(a, sid))
  BY <1>1, <1>2, <1>3, OnlyType DEF token_message_for_agent, sid
<1>6. ASSUME NEW req \in ReqIds
      PROVE  permission_message_for_agent(a, r, req) \in Seq(UpdatesOf(a, sid))
  BY <1>2, <1>3, OnlyType DEF permission_message_for_agent, sid
<1>7. terminal_replay_message_for_agent(a, r) \in Seq(MessagesOf(a, sid))
  <2> DEFINE screen == IF r.terminal_buffer THEN "clear+buffer"
                       ELSE IF r.from_launch THEN "clear" ELSE "placeholder"
  <2>1. /\ screen \in ReqIds \cup Screens \cup {NoBody}
        /\ "Vt100Stream" \in Cmds
    BY DEF Screens, Cmds
  <2> HIDE DEF screen
  <2>2. sid # NoSid => Vt100(sid, a, screen) \in MessagesOf(a, sid)
    BY <1>1, <2>1, MessageType DEF Vt100, Message, MessagesOf
  <2>3. Only(/\ sid # NoSid
             /\ r.terminal_buffer \/ r.attached_terminal = NoAgent,
             Vt100(sid, a, screen)) \in Seq(MessagesOf(a, sid))
    BY <1>1, <2>2, OnlyType
  <2>4. QED BY <2>3 DEF terminal_replay_message_for_agent, screen, sid
<1>8. QED BY <1>4, <1>5, <1>6, <1>7 DEF sid

(* So does the announcement of a freshly bound row.                        *)
LEMMA BoardSyncOf ==
    ASSUME NEW a \in Agents, NEW r \in RegisteredAgent
    PROVE  board_sync_messages(a, r) \in Seq(UpdatesOf(a, r.board_sid))
<1>1. CASE r.board_sid = NoSid
  BY <1>1, EmptySeq DEF board_sync_messages
<1>2. CASE r.board_sid # NoSid
  <2> DEFINE sid == r.board_sid
             asked == r.pending_permissions
             meta == <<Message("AgentMeta", sid, a, NoBody)>>
             turn == Only(r.from_launch /\ r.turns,
                          Message("TurnAppend", sid, a, NoBody))
             prompts == [i \in 1 .. Len(asked) |->
                            Message("PermissionReq", sid, a, asked[i])]
  <2>1. /\ sid \in Sids \cup {Broadcast} /\ asked \in Seq(ReqIds)
        /\ r.from_launch \in BOOLEAN /\ r.turns \in BOOLEAN
    BY <1>2 DEF RegisteredAgent
  <2>2. ASSUME NEW cmd \in Cmds \ {"Vt100Stream"},
               NEW body \in ReqIds \cup Screens \cup {NoBody}
        PROVE  Message(cmd, sid, a, body) \in UpdatesOf(a, sid)
    BY <2>1, UpdateMessage
  <2>3. {"AgentMeta", "TurnAppend", "PermissionReq"}
           \subseteq Cmds \ {"Vt100Stream"}
    BY DEF Cmds
  <2>4. meta \in Seq(UpdatesOf(a, sid))
    BY <2>2, <2>3
  <2>5. turn \in Seq(UpdatesOf(a, sid))
    BY <2>1, <2>2, <2>3, OnlyType
  <2>6. prompts \in Seq(UpdatesOf(a, sid))
    <3>1. Len(asked) \in Nat /\ \A i \in 1 .. Len(asked) : asked[i] \in ReqIds
      BY <2>1, LenProperties, ElementOfSeq
    <3> HIDE DEF sid, asked
    <3>2. prompts \in [1 .. Len(asked) -> UpdatesOf(a, sid)]
      BY <2>2, <2>3, <3>1
    <3>3. QED BY <3>1, <3>2, SeqFromFunction
  <2>7. /\ status_message_for_agent(a, r) \in Seq(UpdatesOf(a, sid))
        /\ token_message_for_agent(a, r) \in Seq(UpdatesOf(a, sid))
    BY AgentMessagesOf
  <2>8. board_sync_messages(a, r) =
           meta \o status_message_for_agent(a, r)
           \o token_message_for_agent(a, r) \o turn \o prompts
    BY <1>2 DEF board_sync_messages
  <2> HIDE DEF meta, turn, prompts
  <2>9. board_sync_messages(a, r) \in Seq(UpdatesOf(a, sid))
    BY <2>4, <2>5, <2>6, <2>7, <2>8, ConcatProperties
  <2>10. QED BY <2>9
<1>3. QED BY <1>1, <1>2

(* All of it can be queued.                                                *)
LEMMA AgentMessagesType ==
    ASSUME NEW a \in Agents, NEW r \in RegisteredAgent
    PROVE  /\ RequestSession(a) \in HidMessage
           /\ status_message_for_agent(a, r) \in Seq(HidMessage)
           /\ token_message_for_agent(a, r) \in Seq(HidMessage)
           /\ \A req \in ReqIds :
                 permission_message_for_agent(a, r, req) \in Seq(HidMessage)
           /\ terminal_replay_message_for_agent(a, r) \in Seq(HidMessage)
           /\ board_sync_messages(a, r) \in Seq(HidMessage)
<1>1. RequestSession(a) \in HidMessage
  BY MessageType DEF RequestSession, Cmds
<1>2. /\ UpdatesOf(a, r.board_sid) \subseteq HidMessage
      /\ MessagesOf(a, r.board_sid) \subseteq HidMessage
  BY MessagesOfAreMessages
<1>3. QED BY <1>1, <1>2, AgentMessagesOf, BoardSyncOf, SeqMonotonic

---------------------------------------------------------------------------
(* TypeOK in two parts: the agents, and the path to the HID.               *)
TableOK(t) == DOMAIN t \subseteq Agents /\ t \in [DOMAIN t -> RegisteredAgent]

AgentsTypeOK ==
    /\ TableOK(registered)
    /\ pending_board_sessions \in Seq(Agents)
    /\ passive_missing_counts \in [Agents -> 0 .. GracePolls - 1]
    /\ focused_board_sid \in Sids \cup {NoSid}

LinkTypeOK ==
    /\ board_outbox \in Seq(HidMessage)
    /\ connected \in BOOLEAN
    /\ replying \in 0 .. MaxClients
    /\ heartbeat \in {"asleep", "due"}
    /\ sent \in Seq(HidMessage)

LEMMA TypeParts ==
    /\ TypeOK <=> AgentsTypeOK /\ LinkTypeOK
    /\ TypeOK' <=> AgentsTypeOK' /\ LinkTypeOK'
BY DEF TypeOK, AgentsTypeOK, LinkTypeOK, TableOK

---------------------------------------------------------------------------
(* The helpers of the actions keep the types.                              *)

(* A flush keeps a queue of messages a queue of messages, and hands only   *)
(* queued messages to the link.                                            *)
LEMMA FlushType ==
    ASSUME LinkTypeOK, NEW q \in Seq(HidMessage), flush_board_outbox(q)
    PROVE  /\ board_outbox' \in Seq(HidMessage)
           /\ sent' \in Seq(HidMessage)
           /\ connected' \in BOOLEAN
<1>1. /\ Len(q) \in Nat
      /\ \A i \in 1 .. Len(q) : q[i] \in HidMessage
  BY LenProperties, ElementOfSeq
<1>2. ASSUME NEW m \in Nat, NEW n \in Nat, 1 <= m, n <= Len(q)
      PROVE  SubSeq(q, m, n) \in Seq(HidMessage)
  <2>1. \A i \in m .. n : q[i] \in HidMessage
    BY <1>1, <1>2
  <2>2. QED BY <2>1, SubSeqProperties
<1>3. CASE ~connected /\ board_outbox' = q /\ sent' = <<>> /\ UNCHANGED connected
  BY <1>3, EmptySeq DEF LinkTypeOK
<1>4. CASE connected /\ board_outbox' = <<>> /\ sent' = q /\ UNCHANGED connected
  BY <1>4 DEF LinkTypeOK
<1>5. CASE /\ connected
           /\ board_outbox' = <<>>
           /\ \E n \in 1 .. Len(q) :
                 sent' = SubSeq(q, 1, n) \o SubSeq(q, n, Len(q))
           /\ UNCHANGED connected
  <2>1. PICK n \in 1 .. Len(q) :
                 sent' = SubSeq(q, 1, n) \o SubSeq(q, n, Len(q))
    BY <1>5
  <2>2. /\ SubSeq(q, 1, n) \in Seq(HidMessage)
        /\ SubSeq(q, n, Len(q)) \in Seq(HidMessage)
    BY <1>1, <1>2
  <2>3. sent' \in Seq(HidMessage)
    BY <2>1, <2>2, ConcatProperties
  <2>4. QED BY <1>5, <2>3 DEF LinkTypeOK
<1>6. CASE /\ connected
           /\ \E n \in 0 .. Len(q) - 1 :
                 /\ board_outbox' = SubSeq(q, n + 1, Len(q))
                 /\ \E k \in {n, n + 1} : sent' = SubSeq(q, 1, k)
           /\ connected' = FALSE
  <2>1. PICK n \in 0 .. Len(q) - 1 :
                 /\ board_outbox' = SubSeq(q, n + 1, Len(q))
                 /\ \E k \in {n, n + 1} : sent' = SubSeq(q, 1, k)
    BY <1>6
  <2>2. PICK k \in {n, n + 1} : sent' = SubSeq(q, 1, k)
    BY <2>1
  <2>3. SubSeq(q, 1, k) \in Seq(HidMessage)
    BY <1>1, <1>2
  <2>4. SubSeq(q, n + 1, Len(q)) \in Seq(HidMessage)
    BY <1>1, <1>2
  <2>5. QED BY <1>6, <2>1, <2>2, <2>3, <2>4
<1>7. QED BY <1>3, <1>4, <1>5, <1>6 DEF flush_board_outbox

(* A client line queues messages and leaves the rest of the link alone.    *)
LEMMA ClientLineType ==
    ASSUME LinkTypeOK, NEW name, NEW messages \in Seq(HidMessage),
           ClientLine(name), Enqueue(messages)
    PROVE  LinkTypeOK'
<1>1. board_outbox' \in Seq(HidMessage)
  BY ConcatProperties DEF LinkTypeOK, Enqueue
<1>2. QED BY <1>1, BoundsAssumption, EmptySeq DEF LinkTypeOK, ClientLine

(* A board message does, too, after a flush.                               *)
LEMMA BoardMessageType ==
    ASSUME LinkTypeOK, NEW name, NEW q \in Seq(HidMessage),
           BoardMessage(name, q)
    PROVE  LinkTypeOK'
BY FlushType DEF LinkTypeOK, BoardMessage

LEMMA NewAgentType ==
    ASSUME NEW hook \in BOOLEAN, NEW launch \in BOOLEAN,
           NEW parent \in Agents \cup {NoAgent}
    PROVE  NewAgent(hook, launch, parent) \in RegisteredAgent
BY EmptySeq DEF NewAgent, RegisteredAgent

LEMMA UpdateType ==
    ASSUME TableOK(registered), NEW a \in DOMAIN registered,
           NEW r \in RegisteredAgent, Update(a, r)
    PROVE  TableOK(registered')
BY DEF TableOK, Update

LEMMA WithType ==
    ASSUME TableOK(registered), NEW a \in Agents, NEW r \in RegisteredAgent
    PROVE  TableOK(With(a, r))
BY DEF TableOK, With

LEMMA WithoutType ==
    ASSUME NEW table, TableOK(table), NEW out
    PROVE  TableOK(Without(table, out))
BY DEF TableOK, Without

(* The field updates of the handlers stay inside the struct.               *)
LEMMA FieldUpdatesType ==
    ASSUME NEW r \in RegisteredAgent, NEW req \in ReqIds,
           NEW d \in Decisions \cup {NoDecision}
    PROVE  /\ \A b \in BOOLEAN : [r EXCEPT !.usage = b] \in RegisteredAgent
           /\ [r EXCEPT !.turns = TRUE] \in RegisteredAgent
           /\ [r EXCEPT !.resolved_permissions[req] = d] \in RegisteredAgent
           /\ \A s \in Sids \cup {NoSid} :
                 [r EXCEPT !.board_sid = s] \in RegisteredAgent
BY DEF RegisteredAgent

LEMMA RequestsType ==
    ASSUME NEW keys \in Seq(Agents)
    PROVE  Requests(keys) \in Seq(HidMessage)
<1>1. Len(keys) \in Nat /\ \A i \in 1 .. Len(keys) : keys[i] \in Agents
  BY LenProperties, ElementOfSeq
<1>2. \A a \in Agents : RequestSession(a) \in HidMessage
  BY MessageType DEF RequestSession, Cmds
<1>3. Requests(keys) \in [1 .. Len(keys) -> HidMessage]
  BY <1>1, <1>2 DEF Requests
<1>4. QED BY <1>1, <1>3, SeqFromFunction

(* The order in which a HashMap yields some of its keys.                   *)
LEMMA OrderType ==
    ASSUME NEW S \in SUBSET Agents, NEW order \in SetToSeqs(S)
    PROVE  /\ order \in Seq(S)
           /\ IsInjective(order)
           /\ ToSet(order) \subseteq S
<1>1. Cardinality(S) \in Nat
  BY AgentsFinite, FS_Subset, FS_CardinalityType
<1>2. order \in [1 .. Cardinality(S) -> S]
  BY DEF SetToSeqs
<1>3. \A i, j \in 1 .. Cardinality(S) : i # j => order[i] # order[j]
  BY DEF SetToSeqs
<1>4. QED BY <1>1, <1>2, <1>3, SeqFromFunction DEF IsInjective, ToSet

(* The agents that get a slot do not have one, and get one each.           *)
LEMMA NewSlotsProperties ==
    ASSUME NEW keys \in Seq(Agents)
    PROVE  /\ NewSlots(keys) \in Seq(Agents)
           /\ ToSet(NewSlots(keys)) = ToSet(keys) \ ToSet(pending_board_sessions)
           /\ IsInjective(keys) => IsInjective(NewSlots(keys))
BY RetainProperties DEF NewSlots

LEMMA LivePassiveViewType ==
    ASSUME NEW a \in Agents, NEW r \in RegisteredAgent
    PROVE  LivePassiveView(a, r) \in Seq(HidMessage)
BY AgentMessagesType, EmptySeq DEF LivePassiveView

LEMMA ClearedType ==
    ASSUME TableOK(registered), NEW sid, NEW keep
    PROVE  /\ TableOK(clear_board_sid_owners(sid, keep))
           /\ DOMAIN clear_board_sid_owners(sid, keep) = DOMAIN registered
<1>1. \A a \in DOMAIN registered :
         /\ registered[a] \in RegisteredAgent
         /\ [registered[a] EXCEPT !.board_sid = NoSid] \in RegisteredAgent
  BY DEF TableOK, RegisteredAgent
<1>2. QED BY <1>1 DEF TableOK, clear_board_sid_owners

LEMMA RegisterLineType ==
    ASSUME NEW r \in RegisterLines
    PROVE  /\ r.agent \in Agents /\ r.from_launch \in BOOLEAN
           /\ r.attached_terminal \in Agents \cup {NoAgent}
           /\ r.agent \in Terminals => r.from_launch
BY DEF RegisterLines

LEMMA RegisteredType ==
    ASSUME TableOK(registered), NEW r \in RegisterLines
    PROVE  Registered(r) \in RegisteredAgent
<1>1. /\ r.agent \in Agents /\ r.from_launch \in BOOLEAN
      /\ r.attached_terminal \in Agents \cup {NoAgent}
  BY RegisterLineType
<1>2. CASE r.agent \notin DOMAIN registered
  BY <1>1, <1>2, NewAgentType DEF Registered
<1>3. CASE r.agent \in DOMAIN registered
  <2> DEFINE old == registered[r.agent]
             parent == IF r.attached_terminal = NoAgent
                       THEN old.attached_terminal ELSE r.attached_terminal
  <2>1. old \in RegisteredAgent
    BY <1>3 DEF TableOK
  <2>2. /\ old.from_launch \/ r.from_launch \in BOOLEAN
        /\ parent \in Agents \cup {NoAgent}
    BY <1>1, <2>1 DEF RegisteredAgent
  <2>3. Registered(r) = [old EXCEPT !.from_hook = TRUE,
                                    !.from_launch = old.from_launch \/ r.from_launch,
                                    !.attached_terminal = parent]
    BY <1>3 DEF Registered
  <2> HIDE DEF old, parent
  <2>4. QED BY <2>1, <2>2, <2>3 DEF RegisteredAgent
<1>4. QED BY <1>2, <1>3

---------------------------------------------------------------------------
(* The initial state has the types.                                        *)
LEMMA TypeInit == Init => TypeOK
<1>1. SUFFICES ASSUME Init PROVE TypeOK
  OBVIOUS
<1>2. DOMAIN registered = {} /\ TableOK(registered)
  BY <1>1 DEF Init, TableOK
<1>3. passive_missing_counts \in [Agents -> 0 .. GracePolls - 1]
  BY <1>1, GracePollsAssumption DEF Init
<1>4. AgentsTypeOK
  BY <1>1, <1>2, <1>3, EmptySeq DEF Init, AgentsTypeOK
<1>5. LinkTypeOK
  <2>1. MaxClients \in Nat
    BY BoundsAssumption
  <2>2. replying \in 0 .. MaxClients
    BY <1>1, <2>1 DEF Init
  <2>3. QED BY <1>1, <2>2, EmptySeq DEF Init, LinkTypeOK
<1>6. QED BY <1>4, <1>5, TypeParts

(* One lemma per action that changes the agents: the step keeps the types. *)
LEMMA RegisterType ==
    ASSUME TypeOK, NEW r \in RegisterLines, Register(r)
    PROVE  TypeOK'
<1> DEFINE agent == Registered(r)
           keys == Only(NeedsSid(r.agent, agent), r.agent)
           slots == NewSlots(keys)
<1>1. AgentsTypeOK /\ LinkTypeOK
  BY TypeParts
<1>2. agent \in RegisteredAgent /\ r.agent \in Agents
  BY <1>1, RegisteredType, RegisterLineType DEF AgentsTypeOK
<1>3. keys \in Seq(Agents)
  BY <1>2, OnlyType DEF NeedsSid
<1> HIDE DEF agent, keys
<1>4. slots \in Seq(Agents)
  BY <1>3, NewSlotsProperties
<1> HIDE DEF slots
<1>5. /\ registered' = With(r.agent, agent)
      /\ pending_board_sessions' = pending_board_sessions \o slots
      /\ UNCHANGED <<passive_missing_counts, focused_board_sid>>
      /\ ClientLine("agent.register") /\ Enqueue(Requests(slots))
  BY DEF Register, agent, keys, slots
<1>6. LinkTypeOK'
  BY <1>1, <1>4, <1>5, RequestsType, ClientLineType
<1>7. TableOK(registered')
  BY <1>1, <1>2, <1>5, WithType DEF AgentsTypeOK
<1>8. pending_board_sessions' \in Seq(Agents)
  BY <1>1, <1>4, <1>5, ConcatProperties DEF AgentsTypeOK
<1>9. AgentsTypeOK'
  BY <1>1, <1>5, <1>7, <1>8 DEF AgentsTypeOK, TableOK
<1>10. QED BY <1>6, <1>9, TypeParts

(* A client line that updates one agent's record and queues messages.      *)
LEMMA AgentUpdateType ==
    ASSUME TypeOK, NEW name, NEW a \in DOMAIN registered,
           NEW agent \in RegisteredAgent, NEW messages \in Seq(HidMessage),
           ClientLine(name), Update(a, agent), Enqueue(messages),
           UNCHANGED <<pending_board_sessions, passive_missing_counts,
                       focused_board_sid>>
    PROVE  TypeOK'
<1>1. AgentsTypeOK /\ LinkTypeOK
  BY TypeParts
<1>2. TableOK(registered')
  BY <1>1, UpdateType DEF AgentsTypeOK
<1>3. AgentsTypeOK'
  BY <1>1, <1>2 DEF AgentsTypeOK, TableOK
<1>4. QED BY <1>1, <1>3, ClientLineType, TypeParts

LEMMA RecordType ==
    ASSUME TypeOK, NEW a \in DOMAIN registered
    PROVE  a \in Agents /\ registered[a] \in RegisteredAgent
BY DEF TypeOK

LEMMA ActivityType ==
    ASSUME TypeOK, NEW a \in Agents, Activity(a)
    PROVE  TypeOK'
<1>1. AgentsTypeOK /\ LinkTypeOK
  BY TypeParts
<1>2. /\ registered[a] \in RegisteredAgent
      /\ ClientLine("agent.activity") /\ UNCHANGED agentVars
      /\ Enqueue(status_message_for_agent(a, registered[a]))
  BY RecordType DEF Activity
<1>3. LinkTypeOK'
  BY <1>1, <1>2, AgentMessagesType, ClientLineType
<1>4. AgentsTypeOK'
  BY <1>1, <1>2 DEF AgentsTypeOK, agentVars, TableOK
<1>5. QED BY <1>3, <1>4, TypeParts

LEMMA TokenUpdateType ==
    ASSUME TypeOK, NEW a \in Agents, NEW usage \in BOOLEAN,
           TokenUpdate(a, usage)
    PROVE  TypeOK'
<1> DEFINE agent == [registered[a] EXCEPT !.usage = usage]
<1>1. a \in DOMAIN registered /\ agent \in RegisteredAgent
  BY RecordType DEF TokenUpdate, RegisteredAgent
<1>2. /\ ClientLine("token.update") /\ Update(a, agent)
      /\ Enqueue(token_message_for_agent(a, agent))
      /\ UNCHANGED <<pending_board_sessions, passive_missing_counts,
                     focused_board_sid>>
  BY DEF TokenUpdate
<1> HIDE DEF agent
<1>3. token_message_for_agent(a, agent) \in Seq(HidMessage)
  BY <1>1, AgentMessagesType
<1>4. QED BY <1>1, <1>2, <1>3, AgentUpdateType

LEMMA TurnAppendType ==
    ASSUME TypeOK, NEW a \in Agents, TurnAppend(a)
    PROVE  TypeOK'
<1> DEFINE agent == [registered[a] EXCEPT !.turns = TRUE]
<1>1. a \in DOMAIN registered /\ agent \in RegisteredAgent
  BY RecordType DEF TurnAppend, RegisteredAgent
<1>2. /\ ClientLine("turn.append") /\ Update(a, agent)
      /\ Enqueue(LivePassiveView(a, agent))
      /\ UNCHANGED <<pending_board_sessions, passive_missing_counts,
                     focused_board_sid>>
  BY DEF TurnAppend
<1> HIDE DEF agent
<1>3. LivePassiveView(a, agent) \in Seq(HidMessage)
  BY <1>1, LivePassiveViewType
<1>4. QED BY <1>1, <1>2, <1>3, AgentUpdateType

LEMMA PermissionRequestType ==
    ASSUME TypeOK, NEW a \in Agents, NEW req \in ReqIds,
           PermissionRequest(a, req)
    PROVE  TypeOK'
<1> DEFINE agent == [registered[a] EXCEPT
                       !.resolved_permissions[req] = NoDecision,
                       !.pending_permissions = Append(@, req)]
<1>1. a \in DOMAIN registered /\ registered[a] \in RegisteredAgent
  BY RecordType DEF PermissionRequest
<1>2. /\ ClientLine("permission.request") /\ Update(a, agent)
      /\ Enqueue(permission_message_for_agent(a, agent, req)
                 \o LivePassiveView(a, agent))
      /\ UNCHANGED <<pending_board_sessions, passive_missing_counts,
                     focused_board_sid>>
  BY DEF PermissionRequest
<1>3. agent \in RegisteredAgent
  <2>1. Append(registered[a].pending_permissions, req) \in Seq(ReqIds)
    BY <1>1, AppendProperties DEF RegisteredAgent
  <2>2. QED BY <1>1, <2>1 DEF RegisteredAgent
<1> HIDE DEF agent
<1>4. permission_message_for_agent(a, agent, req) \o LivePassiveView(a, agent)
         \in Seq(HidMessage)
  BY <1>3, AgentMessagesType, LivePassiveViewType, ConcatProperties
<1>5. QED BY <1>1, <1>2, <1>3, <1>4, AgentUpdateType

LEMMA PermissionResolveType ==
    ASSUME TypeOK, NEW a \in Agents, NEW req \in ReqIds,
           PermissionResolve(a, req)
    PROVE  TypeOK'
<1> DEFINE agent == [registered[a] EXCEPT
                       !.pending_permissions = Retain(@, {req})]
<1>1. a \in DOMAIN registered /\ registered[a] \in RegisteredAgent
  BY RecordType DEF PermissionResolve
<1>2. /\ ClientLine("permission.resolve") /\ Update(a, agent)
      /\ Enqueue(<<>>)
      /\ UNCHANGED <<pending_board_sessions, passive_missing_counts,
                     focused_board_sid>>
  BY DEF PermissionResolve
<1>3. agent \in RegisteredAgent
  <2>1. Retain(registered[a].pending_permissions, {req}) \in Seq(ReqIds)
    BY <1>1, RetainProperties DEF RegisteredAgent
  <2>2. QED BY <1>1, <2>1 DEF RegisteredAgent
<1> HIDE DEF agent
<1>4. QED BY <1>1, <1>2, <1>3, EmptySeq, AgentUpdateType

LEMMA PermissionPollType ==
    ASSUME TypeOK, NEW a \in Agents, NEW req \in ReqIds,
           PermissionPoll(a, req)
    PROVE  TypeOK'
<1> DEFINE agent == [registered[a] EXCEPT
                       !.resolved_permissions[req] = NoDecision]
<1>1. a \in DOMAIN registered /\ registered[a] \in RegisteredAgent
  BY RecordType DEF PermissionPoll
<1>2. /\ ClientLine("permission.poll") /\ Update(a, agent)
      /\ Enqueue(<<>>)
      /\ UNCHANGED <<pending_board_sessions, passive_missing_counts,
                     focused_board_sid>>
  BY DEF PermissionPoll
<1>3. agent \in RegisteredAgent
  BY <1>1 DEF RegisteredAgent
<1> HIDE DEF agent
<1>4. QED BY <1>1, <1>2, <1>3, EmptySeq, AgentUpdateType

LEMMA TerminalStreamType ==
    ASSUME TypeOK, NEW a \in Agents, TerminalStream(a)
    PROVE  TypeOK'
<1> DEFINE focused == {b \in Mirrors(a) : InFocus(b)}
           live(order) == [i \in 1 .. Len(order) |->
                              Vt100(focused_board_sid, order[i], "live")]
<1>1. AgentsTypeOK /\ LinkTypeOK
  BY TypeParts
<1>2. focused \in SUBSET Agents
  BY <1>1 DEF Mirrors, AgentsTypeOK, TableOK
<1>3. /\ ClientLine("terminal.stream")
      /\ registered' = [b \in DOMAIN registered |->
                          [registered[b] EXCEPT !.terminal_buffer =
                                                    @ \/ b \in Mirrors(a)]]
      /\ \E order \in SetToSeqs(focused) : Enqueue(live(order))
      /\ UNCHANGED <<pending_board_sessions, passive_missing_counts,
                     focused_board_sid>>
  BY DEF TerminalStream
<1> HIDE DEF focused
<1>4. PICK order \in SetToSeqs(focused) : Enqueue(live(order))
  BY <1>3
<1>5. live(order) \in Seq(HidMessage)
  <2>1. order \in Seq(focused)
    BY <1>2, OrderType
  <2>2. Len(order) \in Nat /\ \A i \in 1 .. Len(order) : order[i] \in focused
    BY <2>1, LenProperties, ElementOfSeq
  <2>3. ASSUME NEW b \in focused
        PROVE  Vt100(focused_board_sid, b, "live") \in HidMessage
    <3>1. focused_board_sid \in Sids
      BY <1>1 DEF focused, InFocus, AgentsTypeOK
    <3>2. b \in Agents
      BY <1>2
    <3>3. QED BY <3>1, <3>2, MessageType DEF Vt100, Cmds, Screens
  <2>4. live(order) \in [1 .. Len(order) -> HidMessage]
    BY <2>2, <2>3
  <2>5. QED BY <2>2, <2>4, SeqFromFunction
<1> HIDE DEF live
<1>6. LinkTypeOK'
  BY <1>1, <1>3, <1>4, <1>5, ClientLineType
<1>7. TableOK(registered')
  <2>1. \A b \in DOMAIN registered :
           [registered[b] EXCEPT !.terminal_buffer = @ \/ b \in Mirrors(a)]
              \in RegisteredAgent
    BY RecordType DEF RegisteredAgent
  <2>2. QED BY <1>1, <1>3, <2>1 DEF AgentsTypeOK, TableOK
<1>8. AgentsTypeOK'
  BY <1>1, <1>3, <1>7 DEF AgentsTypeOK, TableOK
<1>9. QED BY <1>6, <1>8, TypeParts

LEMMA AbortType ==
    ASSUME TypeOK, NEW a \in Agents, Abort(a)
    PROVE  TypeOK'
<1>1. AgentsTypeOK /\ LinkTypeOK
  BY TypeParts
<1>2. LinkTypeOK'
  BY <1>1, EmptySeq, ClientLineType DEF Abort
<1>3. TableOK(registered')
  BY <1>1, WithoutType DEF Abort, AgentsTypeOK
<1>4. pending_board_sessions' \in Seq(Agents)
  BY <1>1, RetainProperties DEF Abort, AgentsTypeOK
<1>5. AgentsTypeOK'
  BY <1>1, <1>3, <1>4 DEF Abort, AgentsTypeOK, TableOK
<1>6. QED BY <1>2, <1>5, TypeParts

(* Steps that leave the agents alone.                                      *)
LEMMA AgentsUnchangedType ==
    ASSUME AgentsTypeOK, UNCHANGED agentVars
    PROVE  AgentsTypeOK'
BY DEF AgentsTypeOK, agentVars, TableOK

LEMMA ClientLinkStepType ==
    ASSUME TypeOK, LineWithoutEffect \/ ClientFlush \/ ClientGone
    PROVE  TypeOK'
<1>1. AgentsTypeOK /\ LinkTypeOK
  BY TypeParts
<1>2. AgentsTypeOK'
  BY <1>1, AgentsUnchangedType DEF LineWithoutEffect, ClientFlush, ClientGone
<1>3. CASE LineWithoutEffect
  BY <1>1, <1>2, <1>3, EmptySeq, ClientLineType, TypeParts
     DEF LineWithoutEffect
<1>4. CASE ClientFlush
  <2>1. replying' \in 0 .. MaxClients
    BY <1>1, <1>4, BoundsAssumption DEF ClientFlush, LinkTypeOK
  <2>2. LinkTypeOK'
    BY <1>1, <1>4, <2>1, FlushType DEF ClientFlush, LinkTypeOK
  <2>3. QED BY <1>2, <2>2, TypeParts
<1>5. CASE ClientGone
  <2>1. replying' \in 0 .. MaxClients
    BY <1>1, <1>5, BoundsAssumption DEF ClientGone, LinkTypeOK
  <2>2. LinkTypeOK'
    BY <1>1, <1>5, <2>1, EmptySeq DEF ClientGone, LinkTypeOK
  <2>3. QED BY <1>2, <2>2, TypeParts
<1>6. QED BY <1>3, <1>4, <1>5

LEMMA SessionResponseType ==
    ASSUME TypeOK, NEW sid \in Sids, SessionResponse(sid)
    PROVE  TypeOK'
<1> DEFINE key == Head(pending_board_sessions)
           cleared == clear_board_sid_owners(sid, {key})
           bound == [cleared[key] EXCEPT !.board_sid = sid]
           known == key \in DOMAIN registered
           queue == board_outbox \o (IF known
                                     THEN board_sync_messages(key, bound)
                                     ELSE <<>>)
<1>1. AgentsTypeOK /\ LinkTypeOK
  BY TypeParts
<1>2. /\ pending_board_sessions # <<>>
      /\ pending_board_sessions' = Tail(pending_board_sessions)
      /\ registered' = IF known THEN [cleared EXCEPT ![key] = bound]
                                ELSE cleared
      /\ focused_board_sid' \in {sid, focused_board_sid}
      /\ BoardMessage("SessionResponse", queue)
  BY DEF SessionResponse
<1>3. key \in Agents /\ pending_board_sessions' \in Seq(Agents)
  BY <1>1, <1>2, HeadTailProperties DEF AgentsTypeOK
<1>4. TableOK(cleared) /\ DOMAIN cleared = DOMAIN registered
  BY <1>1, ClearedType DEF AgentsTypeOK
<1>5. known => bound \in RegisteredAgent
  <2> HIDE DEF cleared, key
  <2>1. known => cleared[key] \in RegisteredAgent
    BY <1>4 DEF TableOK
  <2>2. QED BY <2>1 DEF RegisteredAgent
<1> HIDE DEF cleared, bound
<1>6. TableOK(registered')
  BY <1>2, <1>4, <1>5 DEF TableOK
<1>7. queue \in Seq(HidMessage)
  <2>1. board_outbox \in Seq(HidMessage)
    BY <1>1 DEF LinkTypeOK
  <2>2. (IF known THEN board_sync_messages(key, bound) ELSE <<>>)
            \in Seq(HidMessage)
    BY <1>3, <1>5, AgentMessagesType, EmptySeq
  <2>3. QED BY <2>1, <2>2, ConcatProperties
<1> HIDE DEF queue, known, key
<1>8. LinkTypeOK'
  BY <1>1, <1>2, <1>7, BoardMessageType
<1>9. AgentsTypeOK'
  <2>1. passive_missing_counts' = passive_missing_counts
    BY <1>2 DEF BoardMessage
  <2>2. QED BY <1>1, <1>2, <1>3, <1>6, <2>1 DEF AgentsTypeOK, TableOK
<1>10. QED BY <1>8, <1>9, TypeParts

LEMMA SessionInvalidType ==
    ASSUME TypeOK, NEW sid \in Sids, SessionInvalid(sid)
    PROVE  TypeOK'
<1>1. AgentsTypeOK /\ LinkTypeOK
  BY TypeParts
<1>2. TableOK(registered')
  BY <1>1, ClearedType DEF SessionInvalid, AgentsTypeOK
<1>3. LinkTypeOK'
  BY <1>1, BoardMessageType DEF SessionInvalid, LinkTypeOK
<1>4. AgentsTypeOK'
  BY <1>1, <1>2 DEF SessionInvalid, BoardMessage, AgentsTypeOK, TableOK
<1>5. QED BY <1>3, <1>4, TypeParts

LEMMA SessionFocusType ==
    ASSUME TypeOK, NEW sid \in Sids, SessionFocus(sid)
    PROVE  TypeOK'
<1>1. AgentsTypeOK /\ LinkTypeOK
  BY TypeParts
<1>2. board_outbox \in Seq(HidMessage)
  BY <1>1 DEF LinkTypeOK
<1>3. LinkTypeOK'
  <2>1. CASE BoardMessage("SessionFocus", board_outbox)
    BY <1>1, <1>2, <2>1, BoardMessageType
  <2>2. ASSUME NEW a \in Owners(sid),
               BoardMessage("SessionFocus", board_outbox \o
                   terminal_replay_message_for_agent(a, registered[a]))
        PROVE  LinkTypeOK'
    <3>1. terminal_replay_message_for_agent(a, registered[a])
             \in Seq(HidMessage)
      BY RecordType, AgentMessagesType DEF Owners
    <3>2. board_outbox \o terminal_replay_message_for_agent(a, registered[a])
             \in Seq(HidMessage)
      BY <1>2, <3>1, ConcatProperties
    <3>3. QED BY <1>1, <2>2, <3>2, BoardMessageType
  <2>3. QED BY <2>1, <2>2 DEF SessionFocus
<1>4. AgentsTypeOK'
  <2>1. /\ UNCHANGED <<registered, pending_board_sessions,
                       passive_missing_counts>>
        /\ focused_board_sid' = sid
    BY DEF SessionFocus, BoardMessage
  <2>2. QED BY <1>1, <2>1 DEF AgentsTypeOK, TableOK
<1>5. QED BY <1>3, <1>4, TypeParts

LEMMA PermissionResType ==
    ASSUME TypeOK, NEW sid \in Sids, NEW req \in ReqIds, NEW d \in Decisions,
           PermissionRes(sid, req, d)
    PROVE  TypeOK'
<1>1. AgentsTypeOK /\ LinkTypeOK
  BY TypeParts
<1>2. PICK a \in Owners(sid) :
          Update(a, [registered[a] EXCEPT
                       !.pending_permissions = Retain(@, {req}),
                       !.resolved_permissions[req] = d])
  BY DEF PermissionRes
<1>3. a \in DOMAIN registered /\ registered[a] \in RegisteredAgent
  BY RecordType DEF Owners
<1>4. [registered[a] EXCEPT !.pending_permissions = Retain(@, {req}),
                            !.resolved_permissions[req] = d]
         \in RegisteredAgent
  <2>1. Retain(registered[a].pending_permissions, {req}) \in Seq(ReqIds)
    BY <1>3, RetainProperties DEF RegisteredAgent
  <2>2. QED BY <1>3, <2>1 DEF RegisteredAgent
<1>5. TableOK(registered')
  BY <1>1, <1>2, <1>3, <1>4, UpdateType DEF AgentsTypeOK
<1>6. LinkTypeOK'
  BY <1>1, BoardMessageType DEF PermissionRes, LinkTypeOK
<1>7. AgentsTypeOK'
  BY <1>1, <1>5 DEF PermissionRes, BoardMessage, AgentsTypeOK, TableOK
<1>8. QED BY <1>6, <1>7, TypeParts

LEMMA OtherBoardStepType ==
    ASSUME TypeOK, SessionRejected \/ OtherBoardMessage
    PROVE  TypeOK'
<1>1. AgentsTypeOK /\ LinkTypeOK
  BY TypeParts
<1>2. LinkTypeOK'
  BY <1>1, BoardMessageType DEF SessionRejected, OtherBoardMessage, LinkTypeOK
<1>3. AgentsTypeOK'
  BY <1>1, AgentsUnchangedType
     DEF SessionRejected, OtherBoardMessage, BoardMessage, agentVars
<1>4. QED BY <1>2, <1>3, TypeParts

LEMMA HeartbeatType ==
    ASSUME TypeOK, HeartbeatWakes \/ HeartbeatLocks
    PROVE  TypeOK'
<1>1. AgentsTypeOK /\ LinkTypeOK
  BY TypeParts
<1>2. AgentsTypeOK'
  BY <1>1, AgentsUnchangedType DEF HeartbeatWakes, HeartbeatLocks
<1>3. CASE HeartbeatWakes
  <2>1. LinkTypeOK'
    BY <1>1, <1>3, EmptySeq DEF HeartbeatWakes, LinkTypeOK
  <2>2. QED BY <1>2, <2>1, TypeParts
<1>4. CASE HeartbeatLocks
  <2> DEFINE owners == {a \in DOMAIN registered :
                           registered[a].board_sid # NoSid}
             own == <<Heartbeat(Broadcast, NoAgent)>>
             beats(order) ==
                 [i \in 1 .. Len(order) |->
                    Heartbeat(registered[order[i]].board_sid, order[i])]
  <2>1. owners \in SUBSET Agents
    BY <1>1 DEF AgentsTypeOK, TableOK
  <2>2. /\ heartbeat' = "asleep" /\ UNCHANGED replying
        /\ \E order \in SetToSeqs(owners) :
              flush_board_outbox(board_outbox \o own \o beats(order))
    BY <1>4 DEF HeartbeatLocks
  <2>3. own \in Seq(HidMessage)
    BY MessageType DEF Heartbeat, Cmds
  <2>4. ASSUME NEW a \in owners
        PROVE  Heartbeat(registered[a].board_sid, a) \in HidMessage
    <3>1. a \in Agents /\ registered[a].board_sid \in Sids
      BY RecordType DEF RegisteredAgent
    <3>2. QED BY <3>1, MessageType DEF Heartbeat, Cmds
  <2> HIDE DEF owners, own
  <2>5. PICK order \in SetToSeqs(owners) :
                 flush_board_outbox(board_outbox \o own \o beats(order))
    BY <2>2
  <2>6. order \in Seq(owners)
    BY <2>1, OrderType
  <2>7. Len(order) \in Nat /\ \A i \in 1 .. Len(order) : order[i] \in owners
    BY <2>6, LenProperties, ElementOfSeq
  <2>8. beats(order) \in Seq(HidMessage)
    <3>1. beats(order) \in [1 .. Len(order) -> HidMessage]
      BY <2>4, <2>7
    <3>2. QED BY <2>7, <3>1, SeqFromFunction
  <2> HIDE DEF beats
  <2>9. board_outbox \o own \o beats(order) \in Seq(HidMessage)
    BY <1>1, <2>3, <2>8, ConcatProperties DEF LinkTypeOK
  <2>10. LinkTypeOK'
    BY <1>1, <2>2, <2>5, <2>9, FlushType DEF LinkTypeOK
  <2>11. QED BY <1>2, <2>10, TypeParts
<1>5. QED BY <1>3, <1>4

(* A transcript snapshot names each session once, and never a terminal.    *)
LEMMA SnapshotType ==
    ASSUME NEW snapshot \in Snapshots
    PROVE  /\ snapshot \in Seq(Agents)
           /\ IsInjective(snapshot)
           /\ ToSet(snapshot) \subseteq Agents \ Terminals
<1>1. PICK S \in SUBSET Discoverable : snapshot \in SetToSeqs(S)
  BY DEF Snapshots
<1>2. S \in SUBSET Agents /\ S \subseteq Agents \ Terminals
  BY DiscoverableAssumption
<1>3. QED BY <1>1, <1>2, OrderType, SeqMonotonic

LEMMA DiscoveredProperties ==
    ASSUME NEW snapshot \in Snapshots
    PROVE  /\ Discovered(snapshot) \in Seq(Agents)
           /\ IsInjective(Discovered(snapshot))
           /\ ToSet(Discovered(snapshot)) \subseteq Agents \ Terminals
           /\ ToSet(Discovered(snapshot)) \cap DOMAIN registered = {}
BY SnapshotType, RetainProperties DEF Discovered

LEMMA PassivePollType ==
    ASSUME TypeOK, NEW snapshot \in Snapshots,
           NEW spoke \in SUBSET Discoverable, PassivePoll(snapshot, spoke)
    PROVE  TypeOK'
<1> DEFINE new == ToSet(Discovered(snapshot))
           slots == NewSlots(Discovered(snapshot))
           table == RegisteredAndIngested(snapshot, spoke)
           missed == PruneCandidates(table) \ ToSet(snapshot)
           dropped == {a \in missed : GraceOver(a)}
           queue == board_outbox \o Requests(slots)
<1>1. AgentsTypeOK /\ LinkTypeOK
  BY TypeParts
<1>2. /\ registered' = Without(table, dropped)
      /\ pending_board_sessions' =
            Retain(pending_board_sessions \o slots, dropped)
      /\ passive_missing_counts' = MissingCounts(snapshot, missed, dropped)
      /\ flush_board_outbox(queue)
      /\ UNCHANGED <<focused_board_sid, replying, heartbeat>>
  BY DEF PassivePoll
<1>3. TableOK(table)
  <2>1. DOMAIN registered \cup new \subseteq Agents
    BY <1>1, DiscoveredProperties DEF AgentsTypeOK, TableOK
  <2>2. NewAgent(FALSE, FALSE, NoAgent) \in RegisteredAgent
    BY NewAgentType
  <2>3. ASSUME NEW r \in RegisteredAgent, NEW a
        PROVE  [r EXCEPT !.turns = @ \/ a \in spoke] \in RegisteredAgent
    BY DEF RegisteredAgent
  <2> DEFINE agent(a) == IF a \in DOMAIN registered THEN registered[a]
                         ELSE NewAgent(FALSE, FALSE, NoAgent)
  <2>4. \A a : agent(a) \in RegisteredAgent
    BY <2>2, RecordType
  <2>5. table = [a \in DOMAIN registered \cup new |->
                    [agent(a) EXCEPT !.turns = @ \/ a \in spoke]]
    BY DEF RegisteredAndIngested
  <2> HIDE DEF agent, table, new
  <2>6. QED BY <2>1, <2>3, <2>4, <2>5 DEF TableOK
<1>4. slots \in Seq(Agents)
  BY DiscoveredProperties, NewSlotsProperties
<1>5. ASSUME NEW a \in missed \ dropped
      PROVE  passive_missing_counts[a] + 1 \in 0 .. GracePolls - 1
  <2>1. a \in Agents
    BY <1>3 DEF PruneCandidates, TableOK
  <2>2. passive_missing_counts[a] \in Nat /\ GracePolls \in Nat
    BY <1>1, <2>1, GracePollsAssumption DEF AgentsTypeOK
  <2>3. QED BY <2>2 DEF GraceOver
<1> HIDE DEF table, missed, dropped, slots
<1>6. passive_missing_counts' \in [Agents -> 0 .. GracePolls - 1]
  <2>1. 0 \in 0 .. GracePolls - 1
    BY GracePollsAssumption
  <2>2. \A a \in Agents : passive_missing_counts[a] \in 0 .. GracePolls - 1
    BY <1>1 DEF AgentsTypeOK
  <2>3. QED BY <1>2, <1>5, <2>1, <2>2 DEF MissingCounts
<1>7. TableOK(registered')
  BY <1>2, <1>3, WithoutType
<1>8. pending_board_sessions' \in Seq(Agents)
  BY <1>1, <1>2, <1>4, ConcatProperties, RetainProperties DEF AgentsTypeOK
<1>9. queue \in Seq(HidMessage)
  BY <1>1, <1>4, RequestsType, ConcatProperties DEF LinkTypeOK
<1> HIDE DEF queue
<1>10. LinkTypeOK'
  BY <1>1, <1>2, <1>9, FlushType DEF LinkTypeOK
<1>11. AgentsTypeOK'
  BY <1>1, <1>2, <1>6, <1>7, <1>8 DEF AgentsTypeOK, TableOK
<1>12. QED BY <1>10, <1>11, TypeParts

LEMMA HidStepType ==
    ASSUME TypeOK, HidOpens \/ HidReadFails
    PROVE  TypeOK'
<1>1. AgentsTypeOK /\ LinkTypeOK
  BY TypeParts
<1>2. AgentsTypeOK'
  BY <1>1, AgentsUnchangedType DEF HidOpens, HidReadFails
<1>3. LinkTypeOK'
  BY <1>1, EmptySeq DEF HidOpens, HidReadFails, LinkTypeOK
<1>4. QED BY <1>2, <1>3, TypeParts

(* Every step keeps the types. *)
LEMMA TypeStep == TypeOK /\ [Next]_vars => TypeOK'
<1>1. SUFFICES ASSUME TypeOK, [Next]_vars PROVE TypeOK'
  OBVIOUS
<1>2. CASE UNCHANGED vars
  BY <1>1, <1>2 DEF vars, TypeOK
<1>3. CASE ClientStep
  <2>1. ASSUME NEW r \in Registrations, Register(r) PROVE TypeOK'
    BY <1>1, <2>1, RegistrationsAssumption, RegisterType
  <2>2. QED BY <1>1, <1>3, <2>1, ActivityType, TurnAppendType,
               TerminalStreamType, AbortType, TokenUpdateType,
               PermissionRequestType, PermissionResolveType,
               PermissionPollType, ClientLinkStepType DEF ClientStep
<1>4. CASE BoardStep
  BY <1>1, <1>4, SessionResponseType, SessionInvalidType, SessionFocusType,
     PermissionResType, OtherBoardStepType DEF BoardStep
<1>5. CASE PassiveStep
  BY <1>1, <1>5, PassivePollType DEF PassiveStep
<1>6. CASE OtherStep
  BY <1>1, <1>6, HeartbeatType, HidStepType DEF OtherStep
<1>7. QED BY <1>1, <1>2, <1>3, <1>4, <1>5, <1>6 DEF Next

(* Every field of the daemon keeps the type of the Rust struct, whatever   *)
(* clients, board, transcripts and HID do.                                 *)
THEOREM TypeCorrect == Spec => []TypeOK
BY TypeInit, TypeStep, PTL DEF Spec

---------------------------------------------------------------------------
(* The rows on the board: who owns a sid and who waits for one.  The three *)
(* invariants are inductive only together.  SESSION_RESPONSE binds a sid   *)
(* to the head of the queue without a look at it, so a slot of an agent    *)
(* that is gone, has a sid, or is a terminal would break the other two;    *)
(* and the queue stays free of such slots because every handler that       *)
(* removes or binds an agent takes its only slot away.                     *)
RowsInv == SidUnique /\ PendingSound /\ TerminalsHaveNoRow

(* What a step can do to the rows.  All but two kinds of step keep every   *)
(* sid where it is and move agents in (`joining`), into the queue          *)
(* (`asking`), and out with their slot and their row (`gone`).             *)
RowsMoved(joining, asking, gone) ==
    /\ DOMAIN registered' = (DOMAIN registered \cup joining) \ gone
    /\ \A a \in DOMAIN registered' \cap DOMAIN registered :
          /\ registered'[a].board_sid = registered[a].board_sid
          /\ registered[a].from_launch => registered'[a].from_launch
    /\ \A a \in DOMAIN registered' \ DOMAIN registered :
          /\ registered'[a].board_sid = NoSid
          /\ a \in Terminals => registered'[a].from_launch
    /\ IsInjective(pending_board_sessions')
    /\ ToSet(pending_board_sessions') =
          (ToSet(pending_board_sessions) \cup asking) \ gone
    /\ asking \subseteq (DOMAIN registered \cup joining) \ Terminals
    /\ \A a \in asking \cap DOMAIN registered : registered[a].board_sid = NoSid

(* SESSION_RESPONSE moves one agent from the queue to the row.             *)
RowGranted(key, sid) ==
    /\ key \in ToSet(pending_board_sessions)
    /\ DOMAIN registered' = DOMAIN registered
    /\ \A a \in DOMAIN registered :
          /\ registered'[a].board_sid =
                IF a = key THEN sid
                ELSE IF registered[a].board_sid = sid THEN NoSid
                ELSE registered[a].board_sid
          /\ a # key => registered'[a].from_launch = registered[a].from_launch
    /\ IsInjective(pending_board_sessions')
    /\ ToSet(pending_board_sessions') = ToSet(pending_board_sessions) \ {key}

(* SESSION_INVALID takes the row away from whoever owns it.                *)
RowRevoked(sid) ==
    /\ DOMAIN registered' = DOMAIN registered
    /\ \A a \in DOMAIN registered :
          /\ registered'[a].board_sid = IF registered[a].board_sid = sid
                                        THEN NoSid ELSE registered[a].board_sid
          /\ registered'[a].from_launch = registered[a].from_launch
    /\ UNCHANGED pending_board_sessions

(* PendingSound without positions: nobody queues twice, and whoever queues *)
(* is registered and without a sid.                                        *)
LEMMA PendingSoundAsSet ==
    /\ PendingSound <=>
          /\ IsInjective(pending_board_sessions)
          /\ \A a \in ToSet(pending_board_sessions) :
                a \in DOMAIN registered /\ registered[a].board_sid = NoSid
    /\ PendingSound' <=>
          /\ IsInjective(pending_board_sessions')
          /\ \A a \in ToSet(pending_board_sessions') :
                a \in DOMAIN registered' /\ registered'[a].board_sid = NoSid
BY DEF PendingSound, IsInjective, ToSet

(* Each kind of step keeps the invariants. *)
LEMMA MovedKeepsRows ==
    ASSUME RowsInv, NEW joining, NEW asking, NEW gone,
           RowsMoved(joining, asking, gone)
    PROVE  RowsInv'
<1>1. SidUnique'
  BY DEF RowsInv, RowsMoved, SidUnique
<1>2. PendingSound'
  <2>1. \A a \in ToSet(pending_board_sessions) :
           a \in DOMAIN registered /\ registered[a].board_sid = NoSid
    BY PendingSoundAsSet DEF RowsInv
  <2>2. \A a \in ToSet(pending_board_sessions') :
           a \in DOMAIN registered' /\ registered'[a].board_sid = NoSid
    BY <2>1 DEF RowsMoved
  <2>3. QED BY <2>2, PendingSoundAsSet DEF RowsMoved
<1>3. TerminalsHaveNoRow'
  BY DEF RowsInv, RowsMoved, TerminalsHaveNoRow
<1>4. QED BY <1>1, <1>2, <1>3 DEF RowsInv

LEMMA GrantedKeepsRows ==
    ASSUME RowsInv, NEW key, NEW sid \in Sids, RowGranted(key, sid)
    PROVE  RowsInv'
<1>1. SidUnique'
  BY NoSidAssumption DEF RowsInv, RowGranted, SidUnique
<1>2. PendingSound'
  BY PendingSoundAsSet DEF RowsInv, RowGranted
<1>3. TerminalsHaveNoRow'
  BY DEF RowsInv, RowGranted, TerminalsHaveNoRow
<1>4. QED BY <1>1, <1>2, <1>3 DEF RowsInv

LEMMA RevokedKeepsRows ==
    ASSUME RowsInv, NEW sid, RowRevoked(sid)
    PROVE  RowsInv'
<1>1. SidUnique'
  BY DEF RowsInv, RowRevoked, SidUnique
<1>2. PendingSound'
  BY DEF RowsInv, RowRevoked, PendingSound
<1>3. TerminalsHaveNoRow'
  BY DEF RowsInv, RowRevoked, TerminalsHaveNoRow
<1>4. QED BY <1>1, <1>2, <1>3 DEF RowsInv

(* Steps that move no sid, no agent and no slot.                           *)
LEMMA SameRows ==
    ASSUME RowsInv,
           DOMAIN registered' = DOMAIN registered,
           \A a \in DOMAIN registered :
              /\ registered'[a].board_sid = registered[a].board_sid
              /\ registered[a].from_launch => registered'[a].from_launch,
           UNCHANGED pending_board_sessions
    PROVE  RowsMoved({}, {}, {})
BY PendingSoundAsSet DEF RowsInv, RowsMoved

(* Steps that leave the agents alone altogether.                           *)
LEMMA UnchangedRows ==
    ASSUME RowsInv, UNCHANGED <<registered, pending_board_sessions>>
    PROVE  RowsMoved({}, {}, {})
BY SameRows

(* Steps that only rewrite fields of one agent other than the sid.         *)
LEMMA UpdatedRows ==
    ASSUME TypeOK, RowsInv, NEW a \in DOMAIN registered, NEW agent,
           Update(a, agent),
           agent.board_sid = registered[a].board_sid,
           agent.from_launch = registered[a].from_launch,
           UNCHANGED pending_board_sessions
    PROVE  RowsMoved({}, {}, {})
<1>1. /\ DOMAIN registered' = DOMAIN registered
      /\ \A b \in DOMAIN registered :
            registered'[b] = IF b = a THEN agent ELSE registered[b]
  BY DEF Update, TypeOK
<1>2. QED BY <1>1, SameRows

LEMMA TurnAppendRows ==
    ASSUME TypeOK, RowsInv, NEW a \in Agents, TurnAppend(a)
    PROVE  RowsMoved({}, {}, {})
<1>1. PICK agent : /\ agent = [registered[a] EXCEPT !.turns = TRUE]
                   /\ Update(a, agent)
  BY DEF TurnAppend
<1>2. a \in DOMAIN registered /\ UNCHANGED pending_board_sessions
  BY DEF TurnAppend
<1>3. /\ agent.board_sid = registered[a].board_sid
      /\ agent.from_launch = registered[a].from_launch
  BY <1>1, <1>2, RecordType DEF RegisteredAgent
<1>4. QED BY <1>1, <1>2, <1>3, UpdatedRows

LEMMA TokenUpdateRows ==
    ASSUME TypeOK, RowsInv, NEW a \in Agents, NEW usage \in BOOLEAN, TokenUpdate(a, usage)
    PROVE  RowsMoved({}, {}, {})
<1>1. PICK agent : /\ agent = [registered[a] EXCEPT !.usage = usage]
                   /\ Update(a, agent)
  BY DEF TokenUpdate
<1>2. a \in DOMAIN registered /\ UNCHANGED pending_board_sessions
  BY DEF TokenUpdate
<1>3. /\ agent.board_sid = registered[a].board_sid
      /\ agent.from_launch = registered[a].from_launch
  BY <1>1, <1>2, RecordType DEF RegisteredAgent
<1>4. QED BY <1>1, <1>2, <1>3, UpdatedRows

LEMMA PermissionRows ==
    ASSUME TypeOK, RowsInv, NEW a \in Agents, NEW req \in ReqIds,
           \/ PermissionRequest(a, req) \/ PermissionResolve(a, req)
           \/ PermissionPoll(a, req)
    PROVE  RowsMoved({}, {}, {})
<1>1. PICK agent, pending, resolved :
          /\ agent = [registered[a] EXCEPT !.pending_permissions = pending,
                                           !.resolved_permissions = resolved]
          /\ Update(a, agent)
  <2> DEFINE r == registered[a]
  <2>0. a \in DOMAIN registered /\ r \in RegisteredAgent
    BY RecordType DEF PermissionRequest, PermissionResolve, PermissionPoll
  <2>1. CASE PermissionRequest(a, req)
    <3>1. [r EXCEPT !.resolved_permissions[req] = NoDecision,
                    !.pending_permissions = Append(@, req)]
          = [r EXCEPT !.pending_permissions = Append(r.pending_permissions, req),
                      !.resolved_permissions =
                          [r.resolved_permissions EXCEPT ![req] = NoDecision]]
      BY <2>0 DEF RegisteredAgent
    <3>2. QED BY <2>1, <3>1 DEF PermissionRequest
  <2>2. CASE PermissionResolve(a, req)
    <3>1. [r EXCEPT !.pending_permissions = Retain(@, {req})]
          = [r EXCEPT !.pending_permissions = Retain(r.pending_permissions, {req}),
                      !.resolved_permissions = r.resolved_permissions]
      BY <2>0 DEF RegisteredAgent
    <3>2. QED BY <2>2, <3>1 DEF PermissionResolve
  <2>3. CASE PermissionPoll(a, req)
    <3>1. [r EXCEPT !.resolved_permissions[req] = NoDecision]
          = [r EXCEPT !.pending_permissions = r.pending_permissions,
                      !.resolved_permissions =
                          [r.resolved_permissions EXCEPT ![req] = NoDecision]]
      BY <2>0 DEF RegisteredAgent
    <3>2. QED BY <2>3, <3>1 DEF PermissionPoll
  <2>4. QED BY <2>1, <2>2, <2>3
<1>2. a \in DOMAIN registered /\ UNCHANGED pending_board_sessions
  BY DEF PermissionRequest, PermissionResolve, PermissionPoll
<1>3. /\ agent.board_sid = registered[a].board_sid
      /\ agent.from_launch = registered[a].from_launch
  BY <1>1, <1>2, RecordType DEF RegisteredAgent
<1>4. QED BY <1>1, <1>2, <1>3, UpdatedRows

LEMMA TerminalStreamRows ==
    ASSUME TypeOK, RowsInv, NEW a \in Agents, TerminalStream(a)
    PROVE  RowsMoved({}, {}, {})
<1>1. /\ UNCHANGED pending_board_sessions
      /\ registered' = [b \in DOMAIN registered |->
                          [registered[b] EXCEPT !.terminal_buffer =
                                                    @ \/ b \in Mirrors(a)]]
  BY DEF TerminalStream
<1>2. \A b \in DOMAIN registered :
         /\ registered'[b].board_sid = registered[b].board_sid
         /\ registered'[b].from_launch = registered[b].from_launch
  BY <1>1, RecordType DEF RegisteredAgent
<1>3. QED BY <1>1, <1>2, SameRows

LEMMA PermissionResRows ==
    ASSUME TypeOK, RowsInv, NEW sid \in Sids, NEW req \in ReqIds,
           NEW d \in Decisions, PermissionRes(sid, req, d)
    PROVE  RowsMoved({}, {}, {})
<1>0. PICK a \in Owners(sid) :
          Update(a, [registered[a] EXCEPT
                       !.pending_permissions = Retain(@, {req}),
                       !.resolved_permissions[req] = d])
  BY DEF PermissionRes
<1>1. PICK agent : /\ agent = [registered[a] EXCEPT
                                 !.pending_permissions = Retain(@, {req}),
                                 !.resolved_permissions[req] = d]
                   /\ Update(a, agent)
  BY <1>0
<1>2. a \in DOMAIN registered /\ UNCHANGED pending_board_sessions
  BY DEF PermissionRes, Owners
<1>3. /\ agent.board_sid = registered[a].board_sid
      /\ agent.from_launch = registered[a].from_launch
  BY <1>1, <1>2, RecordType DEF RegisteredAgent
<1>4. QED BY <1>1, <1>2, <1>3, UpdatedRows

(* Steps of the link, and board messages that reach no agent.              *)
LEMMA LinkRows ==
    ASSUME RowsInv,
           \/ LineWithoutEffect \/ ClientFlush \/ ClientGone
           \/ SessionRejected \/ OtherBoardMessage
           \/ \E sid \in Sids : SessionFocus(sid)
           \/ HeartbeatWakes \/ HeartbeatLocks \/ HidOpens \/ HidReadFails
    PROVE  RowsMoved({}, {}, {})
<1>1. UNCHANGED <<registered, pending_board_sessions>>
  BY DEF LineWithoutEffect, ClientFlush, ClientGone, SessionRejected,
         OtherBoardMessage, SessionFocus, HeartbeatWakes, HeartbeatLocks,
         HidOpens, HidReadFails, agentVars
<1>2. QED BY <1>1, UnchangedRows

(* agent.register makes the agent known; it asks for a row if it needs one *)
(* and has no slot yet.                                                    *)
LEMMA RegisterRows ==
    ASSUME TypeOK, RowsInv, NEW r \in RegisterLines, Register(r)
    PROVE  \E asking \in SUBSET {r.agent} : RowsMoved({r.agent}, asking, {})
<1> DEFINE agent == Registered(r)
           keys == Only(NeedsSid(r.agent, agent), r.agent)
           slots == NewSlots(keys)
           known == r.agent \in DOMAIN registered
<1>1. /\ registered' = With(r.agent, agent)
      /\ pending_board_sessions' = pending_board_sessions \o slots
      /\ pending_board_sessions \in Seq(Agents)
      /\ r.agent \in Agents /\ r.from_launch \in BOOLEAN
  BY RegisterLineType DEF Register, TypeOK
<1>2. agent \in RegisteredAgent
  BY RegisteredType DEF TypeOK, TableOK
<1>3. /\ known => /\ agent.board_sid = registered[r.agent].board_sid
                  /\ registered[r.agent].from_launch => agent.from_launch
      /\ ~known => agent.board_sid = NoSid
      /\ r.from_launch => agent.from_launch
  <2>1. CASE known
    BY <1>1, <2>1, RecordType DEF Registered, RegisteredAgent
  <2>2. CASE ~known
    BY <1>1, <2>2 DEF Registered, NewAgent
  <2>3. QED BY <2>1, <2>2
<1>4. keys \in Seq(Agents) /\ IsInjective(keys)
  BY <1>1, <1>2 DEF NeedsSid, Only, IsInjective
<1>5. ToSet(keys) = IF NeedsSid(r.agent, agent) THEN {r.agent} ELSE {}
  BY DEF Only, ToSet
<1> HIDE DEF agent, keys, known
<1>6. /\ slots \in Seq(Agents) /\ IsInjective(slots)
      /\ ToSet(slots) = ToSet(keys) \ ToSet(pending_board_sessions)
  BY <1>4, NewSlotsProperties
<1> HIDE DEF slots
<1>7. /\ DOMAIN registered' = DOMAIN registered \cup {r.agent}
      /\ registered'[r.agent] = agent
      /\ \A a \in DOMAIN registered \ {r.agent} : registered'[a] = registered[a]
  BY <1>1 DEF With
<1>8. /\ IsInjective(pending_board_sessions')
      /\ ToSet(pending_board_sessions') =
            ToSet(pending_board_sessions) \cup ToSet(slots)
  BY <1>1, <1>6, ConcatInjective, PendingSoundAsSet DEF RowsInv
<1>9. r.agent \in Terminals => agent.from_launch /\ agent.board_sid = NoSid
  BY <1>3, RegisterLineType DEF RowsInv, TerminalsHaveNoRow, known
<1>10. /\ ToSet(slots) \subseteq {r.agent} \ Terminals
       /\ r.agent \in ToSet(slots) => agent.board_sid = NoSid
  BY <1>5, <1>6, <1>9 DEF NeedsSid, is_transport_only_terminal
<1>11. /\ \A a \in DOMAIN registered :
             /\ registered'[a].board_sid = registered[a].board_sid
             /\ registered[a].from_launch => registered'[a].from_launch
       /\ \A a \in DOMAIN registered' \ DOMAIN registered :
             /\ registered'[a].board_sid = NoSid
             /\ a \in Terminals => registered'[a].from_launch
  BY <1>3, <1>7, <1>9 DEF known
<1>12. \A a \in ToSet(slots) \cap DOMAIN registered :
          registered[a].board_sid = NoSid
  BY <1>3, <1>10 DEF known
<1>13. RowsMoved({r.agent}, ToSet(slots), {})
  BY <1>7, <1>8, <1>10, <1>11, <1>12 DEF RowsMoved
<1>14. QED BY <1>10, <1>13

(* session.abort forgets the agent, its row and its slot.                  *)
LEMMA AbortRows ==
    ASSUME TypeOK, RowsInv, NEW a \in Agents, Abort(a)
    PROVE  RowsMoved({}, {}, {a})
<1>1. /\ DOMAIN registered' = DOMAIN registered \ {a}
      /\ \A b \in DOMAIN registered' : registered'[b] = registered[b]
  BY DEF Abort, Without
<1>2. /\ IsInjective(pending_board_sessions')
      /\ ToSet(pending_board_sessions') = ToSet(pending_board_sessions) \ {a}
  BY RetainProperties, PendingSoundAsSet DEF Abort, TypeOK, RowsInv
<1>3. QED BY <1>1, <1>2 DEF RowsMoved

(* Every agent a sid is taken from owns none afterwards; the others keep   *)
(* theirs.                                                                 *)
LEMMA ClearedRows ==
    ASSUME TypeOK, NEW sid, NEW keep
    PROVE  \A a \in DOMAIN registered :
              /\ clear_board_sid_owners(sid, keep)[a].board_sid =
                    IF registered[a].board_sid = sid /\ a \notin keep
                    THEN NoSid ELSE registered[a].board_sid
              /\ clear_board_sid_owners(sid, keep)[a].from_launch =
                    registered[a].from_launch
BY RecordType DEF clear_board_sid_owners, RegisteredAgent

LEMMA SessionInvalidRows ==
    ASSUME TypeOK, NEW sid \in Sids, SessionInvalid(sid)
    PROVE  RowRevoked(sid)
BY ClearedRows, ClearedType DEF SessionInvalid, TypeOK, TableOK, RowRevoked

LEMMA SessionResponseRows ==
    ASSUME TypeOK, RowsInv, NEW sid \in Sids, SessionResponse(sid)
    PROVE  RowGranted(Head(pending_board_sessions), sid)
<1> DEFINE key == Head(pending_board_sessions)
           cleared == clear_board_sid_owners(sid, {key})
           bound == [cleared[key] EXCEPT !.board_sid = sid]
<1>1. /\ pending_board_sessions # <<>>
      /\ pending_board_sessions \in Seq(Agents)
      /\ pending_board_sessions' = Tail(pending_board_sessions)
  BY DEF SessionResponse, TypeOK
<1>2. key \in ToSet(pending_board_sessions)
  BY <1>1, EmptySeq, LenProperties DEF ToSet
<1>3. key \in DOMAIN registered
  BY <1>2, PendingSoundAsSet DEF RowsInv
<1>4. /\ IsInjective(pending_board_sessions')
      /\ ToSet(pending_board_sessions') = ToSet(pending_board_sessions) \ {key}
  BY <1>1, TailInjective, PendingSoundAsSet DEF RowsInv
<1>5. registered' = [cleared EXCEPT ![key] = bound]
  BY <1>3 DEF SessionResponse
<1>6. /\ DOMAIN cleared = DOMAIN registered
      /\ \A a \in DOMAIN registered \ {key} :
            /\ cleared[a].board_sid = IF registered[a].board_sid = sid
                                      THEN NoSid ELSE registered[a].board_sid
            /\ cleared[a].from_launch = registered[a].from_launch
  BY ClearedRows, ClearedType DEF TypeOK, TableOK
<1>7. bound.board_sid = sid
  <2>1. cleared[key] \in RegisteredAgent
    BY <1>3, ClearedType DEF TypeOK, TableOK
  <2> HIDE DEF cleared
  <2>2. QED BY <2>1 DEF RegisteredAgent
<1> HIDE DEF key, cleared, bound
<1>8. /\ DOMAIN registered' = DOMAIN registered
      /\ \A a \in DOMAIN registered :
            registered'[a] = IF a = key THEN bound ELSE cleared[a]
  BY <1>5, <1>6
<1>9. RowGranted(key, sid)
  BY <1>2, <1>4, <1>6, <1>7, <1>8 DEF RowGranted
<1>10. QED BY <1>9 DEF key

(* A poll makes the sessions it discovers known and lets them ask for a    *)
(* row, and forgets the ones whose grace is over.                          *)
LEMMA PassivePollRows ==
    ASSUME TypeOK, RowsInv, NEW snapshot \in Snapshots,
           NEW spoke \in SUBSET Discoverable, PassivePoll(snapshot, spoke)
    PROVE  \E new, dropped \in SUBSET Agents : RowsMoved(new, new, dropped)
<1> DEFINE new == ToSet(Discovered(snapshot))
           slots == NewSlots(Discovered(snapshot))
           table == RegisteredAndIngested(snapshot, spoke)
           missed == PruneCandidates(table) \ ToSet(snapshot)
           dropped == {a \in missed : GraceOver(a)}
           queue == pending_board_sessions \o slots
<1>1. /\ registered' = Without(table, dropped)
      /\ pending_board_sessions' = Retain(queue, dropped)
      /\ pending_board_sessions \in Seq(Agents)
      /\ DOMAIN registered \subseteq Agents
  BY DEF PassivePoll, TypeOK
<1>2. /\ Discovered(snapshot) \in Seq(Agents)
      /\ IsInjective(Discovered(snapshot))
      /\ new \subseteq Agents \ Terminals /\ new \cap DOMAIN registered = {}
  BY DiscoveredProperties
<1>3. /\ slots \in Seq(Agents) /\ IsInjective(slots)
      /\ ToSet(slots) = new \ ToSet(pending_board_sessions)
  BY <1>2, NewSlotsProperties
<1>4. /\ DOMAIN table = DOMAIN registered \cup new
      /\ \A a \in DOMAIN registered :
            /\ table[a].board_sid = registered[a].board_sid
            /\ table[a].from_launch = registered[a].from_launch
      /\ \A a \in new : table[a].board_sid = NoSid
  <2>1. DOMAIN table = DOMAIN registered \cup new
    BY DEF RegisteredAndIngested
  <2>2. ASSUME NEW a \in DOMAIN registered
        PROVE  /\ table[a].board_sid = registered[a].board_sid
               /\ table[a].from_launch = registered[a].from_launch
    BY RecordType DEF RegisteredAndIngested, RegisteredAgent
  <2>3. ASSUME NEW a \in new
        PROVE  table[a].board_sid = NoSid
    BY <1>2 DEF RegisteredAndIngested, NewAgent
  <2>4. QED BY <2>1, <2>2, <2>3
<1>5. dropped \subseteq DOMAIN table
  BY DEF PruneCandidates
<1> HIDE DEF new, slots, table, dropped
<1>6. /\ queue \in Seq(Agents) /\ IsInjective(queue)
      /\ ToSet(queue) = ToSet(pending_board_sessions) \cup new
  <2>1. IsInjective(pending_board_sessions)
    BY PendingSoundAsSet DEF RowsInv
  <2>2. ToSet(pending_board_sessions) \cap ToSet(slots) = {}
    BY <1>3
  <2>3. QED BY <1>1, <1>3, <2>1, <2>2, ConcatInjective, ConcatProperties
<1> HIDE DEF queue
<1>7. /\ IsInjective(pending_board_sessions')
      /\ ToSet(pending_board_sessions') = ToSet(queue) \ dropped
  BY <1>1, <1>6, RetainProperties
<1>8. /\ DOMAIN registered' = DOMAIN table \ dropped
      /\ \A a \in DOMAIN registered' : registered'[a] = table[a]
  BY <1>1 DEF Without
<1>9. RowsMoved(new, new, dropped)
  BY <1>2, <1>4, <1>6, <1>7, <1>8 DEF RowsMoved
<1>10. QED BY <1>1, <1>2, <1>4, <1>5, <1>9

(* Of the steps that are no polls, registrations and aborts move agents;   *)
(* the others grant a row, revoke one, or move none.                       *)
LEMMA OtherRows ==
    ASSUME TypeOK, RowsInv,
           ClientStep \/ BoardStep \/ OtherStep \/ UNCHANGED vars
    PROVE  \/ \E r \in Registrations : Register(r)
           \/ \E a \in Agents : Abort(a)
           \/ \E sid \in Sids :
                 RowRevoked(sid) \/ RowGranted(Head(pending_board_sessions), sid)
           \/ RowsMoved({}, {}, {})
<1>1. CASE UNCHANGED vars
  BY <1>1, UnchangedRows DEF vars
<1>2. CASE ClientStep
  <2>1. ASSUME NEW a \in Agents, Activity(a) PROVE RowsMoved({}, {}, {})
    BY <2>1, UnchangedRows DEF Activity, agentVars
  <2>2. ASSUME NEW a \in Agents, TurnAppend(a) \/ TerminalStream(a)
        PROVE  RowsMoved({}, {}, {})
    BY <2>2, TurnAppendRows, TerminalStreamRows
  <2>3. ASSUME NEW a \in Agents, NEW usage \in BOOLEAN, TokenUpdate(a, usage)
        PROVE  RowsMoved({}, {}, {})
    BY <2>3, TokenUpdateRows
  <2>4. ASSUME NEW a \in Agents, NEW req \in ReqIds,
               \/ PermissionRequest(a, req) \/ PermissionResolve(a, req)
               \/ PermissionPoll(a, req)
        PROVE  RowsMoved({}, {}, {})
    BY <2>4, PermissionRows
  <2>5. CASE LineWithoutEffect \/ ClientFlush \/ ClientGone
    BY <2>5, LinkRows
  <2>6. QED BY <1>2, <2>1, <2>2, <2>3, <2>4, <2>5 DEF ClientStep
<1>3. CASE BoardStep
  <2>1. ASSUME NEW sid \in Sids, SessionResponse(sid)
        PROVE  RowGranted(Head(pending_board_sessions), sid)
    BY <2>1, SessionResponseRows
  <2>2. ASSUME NEW sid \in Sids, SessionInvalid(sid) PROVE RowRevoked(sid)
    BY <2>2, SessionInvalidRows
  <2>3. ASSUME NEW sid \in Sids, NEW req \in ReqIds, NEW d \in Decisions,
               PermissionRes(sid, req, d)
        PROVE  RowsMoved({}, {}, {})
    BY <2>3, PermissionResRows
  <2>4. CASE \/ SessionRejected \/ OtherBoardMessage
             \/ \E sid \in Sids : SessionFocus(sid)
    BY <2>4, LinkRows
  <2>5. QED BY <1>3, <2>1, <2>2, <2>3, <2>4 DEF BoardStep
<1>4. CASE OtherStep
  BY <1>4, LinkRows DEF OtherStep
<1>5. QED BY <1>1, <1>2, <1>3, <1>4

(* So much for the rows: every step of the daemon moves agents, grants one *)
(* sid to an agent in the queue, or revokes one.                           *)
LEMMA RowsSteps ==
    ASSUME TypeOK, RowsInv, [Next]_vars
    PROVE  \/ \E joining, asking, gone \in SUBSET Agents :
                 RowsMoved(joining, asking, gone)
           \/ \E sid \in Sids :
                 RowRevoked(sid) \/ RowGranted(Head(pending_board_sessions), sid)
<1>1. ASSUME NEW r \in Registrations, Register(r)
      PROVE  \E joining, asking, gone \in SUBSET Agents :
                RowsMoved(joining, asking, gone)
  <2>1. PICK asking \in SUBSET {r.agent} : RowsMoved({r.agent}, asking, {})
    BY <1>1, RegistrationsAssumption, RegisterRows
  <2>2. {r.agent} \in SUBSET Agents /\ asking \in SUBSET Agents
    BY RegistrationsAssumption, RegisterLineType
  <2>3. QED BY <2>1, <2>2
<1>2. ASSUME NEW a \in Agents, Abort(a)
      PROVE  \E joining, asking, gone \in SUBSET Agents :
                RowsMoved(joining, asking, gone)
  <2>1. RowsMoved({}, {}, {a}) /\ {a} \in SUBSET Agents
    BY <1>2, AbortRows
  <2>2. QED BY <2>1
<1>3. ASSUME PassiveStep
      PROVE  \E joining, asking, gone \in SUBSET Agents :
                RowsMoved(joining, asking, gone)
  <2>1. PICK snapshot \in Snapshots, spoke \in SUBSET Discoverable :
                PassivePoll(snapshot, spoke)
    BY <1>3 DEF PassiveStep
  <2>2. QED BY <2>1, PassivePollRows
<1>4. QED BY <1>1, <1>2, <1>3, OtherRows DEF Next

(* Every step keeps the three invariants. *)
LEMMA RowsStep == TypeOK /\ RowsInv /\ [Next]_vars => RowsInv'
BY RowsSteps, MovedKeepsRows, GrantedKeepsRows, RevokedKeepsRows

LEMMA RowsInit == Init => RowsInv
<1>1. SUFFICES ASSUME Init PROVE RowsInv
  OBVIOUS
<1>2. DOMAIN registered = {} /\ pending_board_sessions = <<>>
  BY <1>1 DEF Init
<1>3. ToSet(pending_board_sessions) = {}
  BY <1>2 DEF ToSet
<1>4. QED BY <1>2, <1>3
          DEF RowsInv, SidUnique, PendingSound, TerminalsHaveNoRow

(* What the three invariants say together, of every reachable state.       *)
LEMMA RowsCorrect == Spec => [](TypeOK /\ RowsInv)
BY TypeInit, RowsInit, TypeStep, RowsStep, PTL DEF Spec

(* No two sessions ever own the same row: SESSION_RESPONSE detaches the    *)
(* previous owners of a sid before it binds it.                            *)
THEOREM SidsStayUnique == Spec => []SidUnique
<1>1. TypeOK /\ RowsInv => SidUnique
  BY DEF RowsInv
<1>2. QED BY RowsCorrect, <1>1, PTL

(* Every slot of the queue SESSION_RESPONSE serves belongs to a registered *)
(* session without a row, and to one only: abort, pruning and registering  *)
(* keep the queue in step with the table.                                  *)
THEOREM PendingStaysSound == Spec => []PendingSound
<1>1. TypeOK /\ RowsInv => PendingSound
  BY DEF RowsInv
<1>2. QED BY RowsCorrect, <1>1, PTL

(* A captured terminal never takes a row on the board, nor the slot of the *)
(* agent that runs in it.                                                  *)
THEOREM TerminalsNeverTakeRows == Spec => []TerminalsHaveNoRow
<1>1. TypeOK /\ RowsInv => TerminalsHaveNoRow
  BY DEF RowsInv
<1>2. QED BY RowsCorrect, <1>1, PTL

---------------------------------------------------------------------------
(* The refinement of SidTable.  Once no two agents own the same sid, the   *)
(* owner of a row is the agent whose record says so.                       *)
LEMMA RowOwnerIs ==
    ASSUME TypeOK, SidUnique, NEW sid \in Sids
    PROVE  /\ \A a \in DOMAIN registered :
                 registered[a].board_sid = sid => RowOwner(sid) = a
           /\ \/ RowOwner(sid) = NoAgent /\ Owners(sid) = {}
              \/ /\ RowOwner(sid) \in DOMAIN registered
                 /\ registered[RowOwner(sid)].board_sid = sid
<1>1. ASSUME NEW a \in Owners(sid), NEW b \in Owners(sid) PROVE a = b
  BY NoSidAssumption DEF Owners, SidUnique
<1>2. CASE Owners(sid) = {}
  BY <1>2 DEF RowOwner, Owners
<1>3. CASE Owners(sid) # {}
  <2>1. RowOwner(sid) \in Owners(sid)
    BY <1>3 DEF RowOwner
  <2>2. QED BY <1>1, <2>1 DEF Owners
<1>4. QED BY <1>2, <1>3

LEMMA RowOwnerIsNext ==
    ASSUME TypeOK', SidUnique', NEW sid \in Sids
    PROVE  /\ \A a \in DOMAIN registered' :
                 registered'[a].board_sid = sid => RowOwner(sid)' = a
           /\ \/ RowOwner(sid)' = NoAgent /\ Owners(sid)' = {}
              \/ /\ RowOwner(sid)' \in DOMAIN registered'
                 /\ registered'[RowOwner(sid)'].board_sid = sid
<1>1. ASSUME NEW a \in Owners(sid)', NEW b \in Owners(sid)' PROVE a = b
  BY NoSidAssumption DEF Owners, SidUnique
<1>2. CASE Owners(sid)' = {}
  BY <1>2 DEF RowOwner, Owners
<1>3. CASE Owners(sid)' # {}
  <2>1. RowOwner(sid)' \in Owners(sid)'
    BY <1>3 DEF RowOwner
  <2>2. QED BY <1>1, <2>1 DEF Owners
<1>4. QED BY <1>2, <1>3

(* Moving agents in and out is a Change of the table.                      *)
LEMMA MovedIsChange ==
    ASSUME TypeOK, TypeOK', RowsInv, RowsInv',
           NEW joining \in SUBSET Agents, NEW asking \in SUBSET Agents,
           NEW gone \in SUBSET Agents, RowsMoved(joining, asking, gone)
    PROVE  Table!Change(joining, asking, gone)
<1>1. ASSUME NEW a \in asking PROVE ~Table!HasSid(a)
  <2>1. ASSUME NEW sid \in Sids, RowOwner(sid) = a PROVE FALSE
    <3>1. a \in DOMAIN registered /\ registered[a].board_sid = sid
      BY <2>1, RowOwnerIs, NoAgentAssumption DEF RowsInv
    <3>2. QED BY <3>1, NoSidAssumption DEF RowsMoved
  <2>2. QED BY <2>1 DEF Table!HasSid
<1>2. DOMAIN registered' = (DOMAIN registered \cup joining \cup asking) \ gone
  BY DEF RowsMoved
<1>3. ToSet(pending_board_sessions') =
         (ToSet(pending_board_sessions) \cup asking) \ gone
  BY DEF RowsMoved
<1>4. ASSUME NEW sid \in Sids
      PROVE  RowOwner(sid)' = IF RowOwner(sid) \in gone THEN NoAgent
                                                        ELSE RowOwner(sid)
  <2>1. CASE RowOwner(sid) \in gone \/ RowOwner(sid) = NoAgent
    <3>1. ASSUME NEW a \in DOMAIN registered', registered'[a].board_sid = sid
          PROVE  FALSE
      <4>1. a \in DOMAIN registered /\ registered[a].board_sid = sid
        BY <3>1, NoSidAssumption DEF RowsMoved
      <4>2. RowOwner(sid) = a
        BY <4>1, RowOwnerIs DEF RowsInv
      <4>3. a \notin gone /\ a # NoAgent
        BY <3>1, NoAgentAssumption DEF RowsMoved, TypeOK
      <4>4. QED BY <2>1, <4>2, <4>3
    <3>2. RowOwner(sid)' = NoAgent
      BY <3>1, RowOwnerIsNext DEF RowsInv
    <3>3. QED BY <2>1, <3>2
  <2>2. CASE RowOwner(sid) \notin gone /\ RowOwner(sid) # NoAgent
    <3>1. /\ RowOwner(sid) \in DOMAIN registered
          /\ registered[RowOwner(sid)].board_sid = sid
      BY <2>2, RowOwnerIs DEF RowsInv
    <3>2. /\ RowOwner(sid) \in DOMAIN registered'
          /\ registered'[RowOwner(sid)].board_sid = sid
      BY <2>2, <3>1 DEF RowsMoved
    <3>3. QED BY <2>2, <3>2, RowOwnerIsNext DEF RowsInv
  <2>3. QED BY <2>1, <2>2
<1>5. QED BY <1>1, <1>2, <1>3, <1>4 DEF Table!Change

(* SESSION_RESPONSE is a Grant of its sid to the agent at the head of the  *)
(* queue.                                                                  *)
LEMMA GrantedIsGrant ==
    ASSUME TypeOK, TypeOK', RowsInv, RowsInv', NEW key, NEW sid \in Sids,
           RowGranted(key, sid)
    PROVE  Table!Grant(sid)
<1>1. /\ key \in ToSet(pending_board_sessions)
      /\ key \in DOMAIN registered /\ registered[key].board_sid = NoSid
  BY PendingSoundAsSet DEF RowGranted, RowsInv
<1>2. RowOwner(sid)' = key
  BY <1>1, RowOwnerIsNext DEF RowGranted, RowsInv
<1>3. ASSUME NEW s \in Sids \ {sid} PROVE RowOwner(s)' = RowOwner(s)
  <2>1. ASSUME NEW a \in DOMAIN registered
        PROVE  registered'[a].board_sid = s <=> registered[a].board_sid = s
    BY <1>1, NoSidAssumption DEF RowGranted
  <2>2. CASE RowOwner(s) = NoAgent
    <3>1. \A a \in DOMAIN registered' : registered'[a].board_sid # s
      BY <2>1, <2>2, RowOwnerIs, NoAgentAssumption
         DEF RowGranted, RowsInv, TypeOK
    <3>2. QED BY <2>2, <3>1, RowOwnerIsNext DEF RowsInv
  <2>3. CASE RowOwner(s) # NoAgent
    BY <2>1, <2>3, RowOwnerIs, RowOwnerIsNext DEF RowGranted, RowsInv
  <2>4. QED BY <2>2, <2>3
<1>4. DOMAIN registered' = DOMAIN registered
  BY DEF RowGranted
<1>5. ToSet(pending_board_sessions') = ToSet(pending_board_sessions) \ {key}
  BY DEF RowGranted
<1>6. [s \in Sids |-> RowOwner(s)]' =
         [[s \in Sids |-> RowOwner(s)] EXCEPT ![sid] = key]
  BY <1>2, <1>3
<1>7. QED BY <1>1, <1>4, <1>5, <1>6 DEF Table!Grant

(* SESSION_INVALID is a Revoke.                                            *)
LEMMA RevokedIsRevoke ==
    ASSUME TypeOK, TypeOK', RowsInv, RowsInv', NEW sid \in Sids,
           RowRevoked(sid)
    PROVE  Table!Revoke(sid)
<1>1. RowOwner(sid)' = NoAgent
  <2>1. \A a \in DOMAIN registered' : registered'[a].board_sid # sid
    BY NoSidAssumption DEF RowRevoked
  <2>2. QED BY <2>1, RowOwnerIsNext DEF RowsInv
<1>2. ASSUME NEW s \in Sids \ {sid} PROVE RowOwner(s)' = RowOwner(s)
  <2>1. ASSUME NEW a \in DOMAIN registered
        PROVE  registered'[a].board_sid = s <=> registered[a].board_sid = s
    BY NoSidAssumption DEF RowRevoked
  <2>2. CASE RowOwner(s) = NoAgent
    <3>1. \A a \in DOMAIN registered' : registered'[a].board_sid # s
      BY <2>1, <2>2, RowOwnerIs, NoAgentAssumption
         DEF RowRevoked, RowsInv, TypeOK
    <3>2. QED BY <2>2, <3>1, RowOwnerIsNext DEF RowsInv
  <2>3. CASE RowOwner(s) # NoAgent
    BY <2>1, <2>3, RowOwnerIs, RowOwnerIsNext DEF RowRevoked, RowsInv
  <2>4. QED BY <2>2, <2>3
<1>3. [s \in Sids |-> RowOwner(s)]' =
         [[s \in Sids |-> RowOwner(s)] EXCEPT ![sid] = NoAgent]
  BY <1>1, <1>2
<1>4. QED BY <1>3 DEF RowRevoked, Table!Revoke

LEMMA TableInit == Init => Table!Init
<1>1. SUFFICES ASSUME Init PROVE Table!Init
  OBVIOUS
<1>2. DOMAIN registered = {} /\ ToSet(pending_board_sessions) = {}
  BY <1>1 DEF Init, ToSet
<1>3. \A sid \in Sids : RowOwner(sid) = NoAgent
  BY <1>2 DEF RowOwner, Owners
<1>4. QED BY <1>2, <1>3 DEF Table!Init

LEMMA TableStep ==
    ASSUME TypeOK, TypeOK', RowsInv, RowsInv', [Next]_vars
    PROVE  [Table!Next]_(Table!vars)
<1>1. CASE \E joining, asking, gone \in SUBSET Agents :
              RowsMoved(joining, asking, gone)
  BY <1>1, MovedIsChange DEF Table!Next
<1>2. CASE \E sid \in Sids : RowRevoked(sid)
  BY <1>2, RevokedIsRevoke DEF Table!Next
<1>3. CASE \E sid \in Sids : RowGranted(Head(pending_board_sessions), sid)
  BY <1>3, GrantedIsGrant DEF Table!Next
<1>4. QED BY <1>1, <1>2, <1>3, RowsSteps

(* The daemon, with its messages, threads, queues and failures, implements *)
(* the table of session ids: what a client, the board or the transcript    *)
(* poller does, in any order, grants a sid to one waiting agent, takes one *)
(* back, or moves agents in and out of the table and its queue.            *)
THEOREM DaemonImplementsSidTable == Spec => ImplementsSidTable
<1>1. Init => Table!Init
  BY TableInit
<1>2. TypeOK /\ RowsInv /\ (TypeOK /\ RowsInv)' /\ [Next]_vars
         => [Table!Next]_(Table!vars)
  BY TableStep
<1>3. QED BY RowsCorrect, <1>1, <1>2, PTL DEF Spec, ImplementsSidTable, Table!Spec

---------------------------------------------------------------------------
(* What a step queues or sends.  Three lemmas say where new messages come  *)
(* from; then each handler queues only what Proper allows.                 *)

(* A message under a row speaks about the agent that owns the row after    *)
(* the step, and terminal bytes are for the row in focus after it.         *)
FromOwner(m) ==
    m.agent # NoAgent /\ m.sid # Broadcast =>
        /\ m.agent \in DOMAIN registered'
        /\ registered'[m.agent].board_sid = m.sid

ForFocus(m) == m.cmd = "Vt100Stream" => m.sid = focused_board_sid'

Proper == {m \in HidMessage : FromOwner(m) /\ ForFocus(m)}

(* A flush hands on and keeps nothing but what was in the queue.           *)
LEMMA FlushSubset ==
    ASSUME NEW q \in Seq(HidMessage), flush_board_outbox(q)
    PROVE  ToSet(board_outbox') \cup ToSet(sent') \subseteq ToSet(q)
<1>1. /\ Len(q) \in Nat /\ q \in Seq(ToSet(q))
      /\ \A i \in 1 .. Len(q) : q[i] \in ToSet(q)
  BY LenProperties, SeqFromFunction DEF ToSet
<1>2. ASSUME NEW m \in Nat, NEW n \in Nat, 1 <= m, n <= Len(q)
      PROVE  SubSeq(q, m, n) \in Seq(ToSet(q))
  <2>1. \A i \in m .. n : q[i] \in ToSet(q)
    BY <1>1, <1>2
  <2>2. QED BY <2>1, SubSeqProperties
<1>3. ASSUME NEW s \in Seq(ToSet(q)) PROVE ToSet(s) \subseteq ToSet(q)
  BY LenProperties, ElementOfSeq DEF ToSet
<1>4. <<>> \in Seq(ToSet(q))
  BY EmptySeq
<1>5. board_outbox' \in Seq(ToSet(q)) /\ sent' \in Seq(ToSet(q))
  <2>1. CASE board_outbox' = q /\ sent' = <<>>
    BY <1>1, <1>4, <2>1
  <2>2. CASE board_outbox' = <<>> /\ sent' = q
    BY <1>1, <1>4, <2>2
  <2>3. CASE /\ board_outbox' = <<>>
             /\ \E n \in 1 .. Len(q) :
                   sent' = SubSeq(q, 1, n) \o SubSeq(q, n, Len(q))
    <3>1. PICK n \in 1 .. Len(q) :
                   sent' = SubSeq(q, 1, n) \o SubSeq(q, n, Len(q))
      BY <2>3
    <3>2. /\ SubSeq(q, 1, n) \in Seq(ToSet(q))
          /\ SubSeq(q, n, Len(q)) \in Seq(ToSet(q))
      BY <1>1, <1>2
    <3>3. QED BY <1>4, <2>3, <3>1, <3>2, ConcatProperties
  <2>4. CASE \E n \in 0 .. Len(q) - 1 :
                /\ board_outbox' = SubSeq(q, n + 1, Len(q))
                /\ \E k \in {n, n + 1} : sent' = SubSeq(q, 1, k)
    <3>1. PICK n \in 0 .. Len(q) - 1 :
                /\ board_outbox' = SubSeq(q, n + 1, Len(q))
                /\ sent' = SubSeq(q, 1, n) \/ sent' = SubSeq(q, 1, n + 1)
      BY <2>4
    <3>2. /\ n \in Nat /\ n + 1 \in Nat /\ 1 <= n + 1
          /\ n <= Len(q) /\ n + 1 <= Len(q)
      BY <1>1
    <3>3. /\ SubSeq(q, 1, n) \in Seq(ToSet(q))
          /\ SubSeq(q, 1, n + 1) \in Seq(ToSet(q))
      BY <1>2, <3>2
    <3>4. SubSeq(q, n + 1, Len(q)) \in Seq(ToSet(q))
      BY <1>1, <1>2, <3>2
    <3>5. QED BY <3>1, <3>3, <3>4
  <2>5. QED BY <2>1, <2>2, <2>3, <2>4 DEF flush_board_outbox
<1>6. QED BY <1>3, <1>5

(* Where messages S are put at the end of the queue, only S are new.       *)
LEMMA FlushNews ==
    ASSUME TypeOK, NEW S \in SUBSET HidMessage, NEW messages \in Seq(S),
           flush_board_outbox(board_outbox \o messages)
    PROVE  NewMessages \subseteq S
<1>1. board_outbox \in Seq(HidMessage) /\ messages \in Seq(HidMessage)
  BY SeqMonotonic DEF TypeOK
<1>2. /\ board_outbox \o messages \in Seq(HidMessage)
      /\ ToSet(board_outbox \o messages) =
            ToSet(board_outbox) \cup ToSet(messages)
  BY <1>1, ConcatProperties, ConcatInjective
<1>3. ToSet(messages) \subseteq S
  BY LenProperties, ElementOfSeq DEF ToSet
<1>4. QED BY <1>2, <1>3, FlushSubset DEF NewMessages

LEMMA ClientNews ==
    ASSUME TypeOK, NEW S \in SUBSET HidMessage, NEW messages \in Seq(S),
           NEW name, ClientLine(name), Enqueue(messages)
    PROVE  NewMessages \subseteq S
<1>1. board_outbox \in Seq(HidMessage) /\ messages \in Seq(HidMessage)
  BY SeqMonotonic DEF TypeOK
<1>2. ToSet(board_outbox') = ToSet(board_outbox) \cup ToSet(messages)
  BY <1>1, ConcatInjective DEF Enqueue
<1>3. ToSet(messages) \subseteq S
  BY LenProperties, ElementOfSeq DEF ToSet
<1>4. ToSet(sent') = {}
  BY DEF ClientLine, ToSet
<1>5. QED BY <1>2, <1>3, <1>4 DEF NewMessages

(* Updates of the row an agent owns after the step are proper; everything  *)
(* of the row is, when the row is in focus after it.                       *)
LEMMA UpdatesAreProper ==
    ASSUME NEW a \in DOMAIN registered', NEW sid,
           registered'[a].board_sid = sid
    PROVE  /\ UpdatesOf(a, sid) \subseteq Proper
           /\ sid = focused_board_sid' => MessagesOf(a, sid) \subseteq Proper
BY DEF UpdatesOf, MessagesOf, Proper, FromOwner, ForFocus

(* RequestSession goes out under no row.                                   *)
LEMMA RequestsAreProper ==
    ASSUME NEW keys \in Seq(Agents)
    PROVE  Requests(keys) \in Seq(Proper)
<1>1. Len(keys) \in Nat /\ \A i \in 1 .. Len(keys) : keys[i] \in Agents
  BY LenProperties, ElementOfSeq
<1>2. ASSUME NEW a \in Agents PROVE RequestSession(a) \in Proper
  BY AgentMessagesType, MessageType
     DEF Proper, FromOwner, ForFocus, RequestSession, Message, Cmds
<1>3. Requests(keys) \in [1 .. Len(keys) -> Proper]
  BY <1>1, <1>2 DEF Requests
<1>4. QED BY <1>1, <1>3, SeqFromFunction
LEMMA ActivityProper ==
    ASSUME TypeOK, NEW a \in Agents, Activity(a)
    PROVE  NewMessages \subseteq Proper
<1>1. /\ a \in DOMAIN registered /\ registered[a] \in RegisteredAgent
      /\ UNCHANGED registered
  BY RecordType DEF Activity, agentVars
<1>2. status_message_for_agent(a, registered[a])
         \in Seq(UpdatesOf(a, registered[a].board_sid))
  BY <1>1, AgentMessagesOf
<1>3. UpdatesOf(a, registered[a].board_sid) \subseteq Proper
  BY <1>1, UpdatesAreProper
<1>4. UpdatesOf(a, registered[a].board_sid) \in SUBSET HidMessage
  BY MessagesOfAreMessages
<1>5. QED BY <1>2, <1>3, <1>4, ClientNews DEF Activity

(* A client line that updates one agent's record and queues messages built *)
(* from the new record.                                                    *)
LEMMA UpdateProper ==
    ASSUME TypeOK, NEW a \in DOMAIN registered, NEW agent, NEW name,
           NEW messages, ClientLine(name), Update(a, agent),
           Enqueue(messages),
           \/ messages \in Seq(UpdatesOf(a, agent.board_sid))
           \/ /\ messages \in Seq(MessagesOf(a, agent.board_sid))
              /\ agent.board_sid = focused_board_sid'
    PROVE  NewMessages \subseteq Proper
<1>1. a \in DOMAIN registered' /\ registered'[a] = agent
  BY DEF Update, TypeOK
<1>2. /\ UpdatesOf(a, agent.board_sid) \in SUBSET HidMessage
      /\ MessagesOf(a, agent.board_sid) \in SUBSET HidMessage
  BY MessagesOfAreMessages
<1>3. /\ UpdatesOf(a, agent.board_sid) \subseteq Proper
      /\ agent.board_sid = focused_board_sid'
            => MessagesOf(a, agent.board_sid) \subseteq Proper
  BY <1>1, UpdatesAreProper
<1>4. QED BY <1>2, <1>3, ClientNews

LEMMA TokenUpdateProper ==
    ASSUME TypeOK, NEW a \in Agents, NEW usage \in BOOLEAN,
           TokenUpdate(a, usage)
    PROVE  NewMessages \subseteq Proper
<1> DEFINE agent == [registered[a] EXCEPT !.usage = usage]
<1>1. a \in DOMAIN registered /\ agent \in RegisteredAgent
  BY RecordType DEF TokenUpdate, RegisteredAgent
<1>2. /\ ClientLine("token.update") /\ Update(a, agent)
      /\ Enqueue(token_message_for_agent(a, agent))
  BY DEF TokenUpdate
<1> HIDE DEF agent
<1>3. token_message_for_agent(a, agent) \in Seq(UpdatesOf(a, agent.board_sid))
  BY <1>1, AgentMessagesOf
<1>4. QED BY <1>1, <1>2, <1>3, UpdateProper

(* A fresh view is queued for the session in focus only.                   *)
LEMMA LivePassiveViewOf ==
    ASSUME NEW a \in Agents, NEW r \in RegisteredAgent
    PROVE  \/ LivePassiveView(a, r) = <<>>
           \/ /\ LivePassiveView(a, r) \in Seq(MessagesOf(a, r.board_sid))
              /\ r.board_sid = focused_board_sid
BY AgentMessagesOf DEF LivePassiveView

LEMMA TurnAppendProper ==
    ASSUME TypeOK, NEW a \in Agents, TurnAppend(a)
    PROVE  NewMessages \subseteq Proper
<1> DEFINE agent == [registered[a] EXCEPT !.turns = TRUE]
<1>1. a \in DOMAIN registered /\ agent \in RegisteredAgent
  BY RecordType DEF TurnAppend, RegisteredAgent
<1>2. /\ ClientLine("turn.append") /\ Update(a, agent)
      /\ Enqueue(LivePassiveView(a, agent))
      /\ UNCHANGED focused_board_sid
  BY DEF TurnAppend
<1> HIDE DEF agent
<1>3. \/ LivePassiveView(a, agent) \in Seq(UpdatesOf(a, agent.board_sid))
      \/ /\ LivePassiveView(a, agent) \in Seq(MessagesOf(a, agent.board_sid))
         /\ agent.board_sid = focused_board_sid'
  BY <1>1, <1>2, LivePassiveViewOf, EmptySeq
<1>4. QED BY <1>1, <1>2, <1>3, UpdateProper

LEMMA PermissionRequestProper ==
    ASSUME TypeOK, NEW a \in Agents, NEW req \in ReqIds,
           PermissionRequest(a, req)
    PROVE  NewMessages \subseteq Proper
<1> DEFINE agent == [registered[a] EXCEPT
                       !.resolved_permissions[req] = NoDecision,
                       !.pending_permissions = Append(@, req)]
           asked == permission_message_for_agent(a, agent, req)
           view == LivePassiveView(a, agent)
           sid == agent.board_sid
<1>1. a \in DOMAIN registered /\ registered[a] \in RegisteredAgent
  BY RecordType DEF PermissionRequest
<1>2. /\ ClientLine("permission.request") /\ Update(a, agent)
      /\ Enqueue(asked \o view) /\ UNCHANGED focused_board_sid
  BY DEF PermissionRequest
<1>3. agent \in RegisteredAgent
  <2>1. Append(registered[a].pending_permissions, req) \in Seq(ReqIds)
    BY <1>1, AppendProperties DEF RegisteredAgent
  <2>2. QED BY <1>1, <2>1 DEF RegisteredAgent
<1> HIDE DEF agent
<1>4. asked \in Seq(UpdatesOf(a, sid)) /\ asked \in Seq(MessagesOf(a, sid))
  BY <1>3, AgentMessagesOf, MessagesOfAreMessages, SeqMonotonic
<1>5. \/ view = <<>>
      \/ view \in Seq(MessagesOf(a, sid)) /\ sid = focused_board_sid
  BY <1>3, LivePassiveViewOf
<1> HIDE DEF asked, view
<1>6. \/ asked \o view \in Seq(UpdatesOf(a, sid))
      \/ asked \o view \in Seq(MessagesOf(a, sid)) /\ sid = focused_board_sid'
  BY <1>2, <1>4, <1>5, ConcatProperties, ConcatEmptySeq
<1>7. QED BY <1>1, <1>2, <1>6, UpdateProper

(* The bytes of a terminal go live to the sessions in focus only.          *)
LEMMA TerminalStreamProper ==
    ASSUME TypeOK, NEW a \in Agents, TerminalStream(a)
    PROVE  NewMessages \subseteq Proper
<1> DEFINE focused == {b \in Mirrors(a) : InFocus(b)}
           live(order) == [i \in 1 .. Len(order) |->
                              Vt100(focused_board_sid, order[i], "live")]
<1>1. /\ focused \in SUBSET Agents
      /\ \A b \in focused : /\ b \in DOMAIN registered
                            /\ registered[b].board_sid = focused_board_sid
                            /\ focused_board_sid # NoSid
  BY DEF Mirrors, InFocus, TypeOK
<1>2. /\ ClientLine("terminal.stream")
      /\ registered' = [b \in DOMAIN registered |->
                          [registered[b] EXCEPT !.terminal_buffer =
                                                    @ \/ b \in Mirrors(a)]]
      /\ UNCHANGED focused_board_sid
  BY DEF TerminalStream
<1>3. /\ DOMAIN registered' = DOMAIN registered
      /\ \A b \in DOMAIN registered :
            registered'[b].board_sid = registered[b].board_sid
  BY <1>2, RecordType DEF RegisteredAgent
<1>4. PICK order \in SetToSeqs(focused) : Enqueue(live(order))
  BY DEF TerminalStream
<1> HIDE DEF focused
<1>5. ASSUME NEW b \in focused
      PROVE  Vt100(focused_board_sid, b, "live") \in Proper
  <2>1. /\ focused_board_sid \in Sids /\ b \in Agents
        /\ "Vt100Stream" \in Cmds /\ "live" \in ReqIds \cup Screens \cup {NoBody}
    BY <1>1, <1>5 DEF TypeOK, Cmds, Screens
  <2>2. Vt100(focused_board_sid, b, "live")
           \in MessagesOf(b, focused_board_sid)
    BY <2>1, MessageType DEF Vt100, Message, MessagesOf
  <2>3. b \in DOMAIN registered' /\ registered'[b].board_sid = focused_board_sid
    BY <1>1, <1>3, <1>5
  <2>4. QED BY <1>2, <2>2, <2>3, UpdatesAreProper
<1>6. live(order) \in Seq(Proper)
  <2>1. order \in Seq(focused)
    BY <1>1, OrderType
  <2>2. Len(order) \in Nat /\ \A i \in 1 .. Len(order) : order[i] \in focused
    BY <2>1, LenProperties, ElementOfSeq
  <2>3. live(order) \in [1 .. Len(order) -> Proper]
    BY <1>5, <2>2
  <2>4. QED BY <2>2, <2>3, SeqFromFunction
<1> HIDE DEF live
<1>7. QED BY <1>2, <1>4, <1>6, ClientNews DEF Proper

LEMMA RegisterProper ==
    ASSUME TypeOK, NEW r \in RegisterLines, Register(r)
    PROVE  NewMessages \subseteq Proper
<1> DEFINE agent == Registered(r)
           keys == Only(NeedsSid(r.agent, agent), r.agent)
           slots == NewSlots(keys)
<1>1. agent \in RegisteredAgent /\ r.agent \in Agents
  BY RegisteredType, RegisterLineType DEF TypeOK, TableOK
<1>2. keys \in Seq(Agents)
  BY <1>1, OnlyType DEF NeedsSid
<1> HIDE DEF agent, keys
<1>3. slots \in Seq(Agents)
  BY <1>2, NewSlotsProperties
<1> HIDE DEF slots
<1>4. ClientLine("agent.register") /\ Enqueue(Requests(slots))
  BY DEF Register, agent, keys, slots
<1>5. QED BY <1>3, <1>4, RequestsAreProper, ClientNews DEF Proper

(* Client lines that queue nothing, and steps that only flush or send      *)
(* nothing at all.                                                         *)
LEMMA SilentSteps ==
    ASSUME TypeOK,
           \/ \E a \in Agents, req \in ReqIds :
                 PermissionResolve(a, req) \/ PermissionPoll(a, req)
           \/ \E a \in Agents : Abort(a)
           \/ LineWithoutEffect \/ ClientFlush \/ ClientGone
           \/ SessionRejected \/ OtherBoardMessage
           \/ \E sid \in Sids : SessionInvalid(sid)
           \/ \E sid \in Sids, req \in ReqIds, d \in Decisions :
                 PermissionRes(sid, req, d)
           \/ HeartbeatWakes \/ HidOpens \/ HidReadFails
    PROVE  NewMessages \subseteq Proper
<1>1. <<>> \in Seq(Proper)
  BY EmptySeq
<1>2. board_outbox \in Seq(HidMessage) /\ Proper \in SUBSET HidMessage
  BY DEF TypeOK, Proper
<1>3. CASE Enqueue(<<>>) /\ \E name : ClientLine(name)
  BY <1>1, <1>2, <1>3, ClientNews
<1>4. CASE flush_board_outbox(board_outbox)
  BY <1>2, <1>4, FlushSubset DEF NewMessages
<1>5. CASE UNCHANGED board_outbox /\ sent' = <<>>
  BY <1>5 DEF NewMessages, ToSet
<1>6. QED BY <1>3, <1>4, <1>5
          DEF PermissionResolve, PermissionPoll, Abort, LineWithoutEffect,
              ClientFlush, ClientGone, SessionRejected, OtherBoardMessage,
              SessionInvalid, PermissionRes, BoardMessage, HeartbeatWakes,
              HidOpens, HidReadFails
(* A fresh row is announced by its new owner; the owners it is taken from  *)
(* say nothing.                                                            *)
LEMMA SessionResponseProper ==
    ASSUME TypeOK, RowsInv, NEW sid \in Sids, SessionResponse(sid)
    PROVE  NewMessages \subseteq Proper
<1> DEFINE key == Head(pending_board_sessions)
           cleared == clear_board_sid_owners(sid, {key})
           bound == [cleared[key] EXCEPT !.board_sid = sid]
<1>1. /\ pending_board_sessions # <<>>
      /\ pending_board_sessions \in Seq(Agents)
  BY DEF SessionResponse, TypeOK
<1>2. key \in ToSet(pending_board_sessions) /\ key \in Agents
  BY <1>1, EmptySeq, LenProperties, HeadTailProperties DEF ToSet
<1>3. key \in DOMAIN registered
  BY <1>2, PendingSoundAsSet DEF RowsInv
<1>4. /\ registered' = [cleared EXCEPT ![key] = bound]
      /\ flush_board_outbox(board_outbox \o board_sync_messages(key, bound))
  BY <1>3 DEF SessionResponse, BoardMessage
<1>5. /\ DOMAIN cleared = DOMAIN registered
      /\ cleared[key] \in RegisteredAgent
  BY <1>3, ClearedType DEF TypeOK, TableOK
<1> HIDE DEF cleared, key
<1>6. bound \in RegisteredAgent /\ bound.board_sid = sid
  BY <1>5 DEF RegisteredAgent
<1> HIDE DEF bound
<1>7. key \in DOMAIN registered' /\ registered'[key].board_sid = sid
  BY <1>3, <1>4, <1>5, <1>6
<1>8. UpdatesOf(key, sid) \subseteq Proper
  BY <1>7, UpdatesAreProper
<1>9. board_sync_messages(key, bound) \in Seq(UpdatesOf(key, sid))
  BY <1>2, <1>6, BoardSyncOf
<1>10. UpdatesOf(key, sid) \in SUBSET HidMessage
  BY MessagesOfAreMessages
<1>11. QED BY <1>4, <1>8, <1>9, <1>10, FlushNews

(* The replay is for the row that has just taken the focus.                *)
LEMMA SessionFocusProper ==
    ASSUME TypeOK, NEW sid \in Sids, SessionFocus(sid)
    PROVE  NewMessages \subseteq Proper
<1>1. focused_board_sid' = sid /\ UNCHANGED registered
  BY DEF SessionFocus
<1>2. CASE BoardMessage("SessionFocus", board_outbox)
  <2>1. board_outbox \in Seq(HidMessage)
    BY DEF TypeOK
  <2>2. QED BY <1>2, <2>1, FlushSubset DEF BoardMessage, NewMessages
<1>3. ASSUME NEW a \in Owners(sid),
             BoardMessage("SessionFocus", board_outbox \o
                 terminal_replay_message_for_agent(a, registered[a]))
      PROVE  NewMessages \subseteq Proper
  <2>1. /\ a \in DOMAIN registered /\ a \in Agents
        /\ registered[a] \in RegisteredAgent /\ registered[a].board_sid = sid
    BY RecordType DEF Owners
  <2>2. terminal_replay_message_for_agent(a, registered[a])
           \in Seq(MessagesOf(a, sid))
    BY <2>1, AgentMessagesOf
  <2>3. /\ MessagesOf(a, sid) \subseteq Proper
        /\ MessagesOf(a, sid) \in SUBSET HidMessage
    BY <1>1, <2>1, UpdatesAreProper, MessagesOfAreMessages
  <2>4. flush_board_outbox(board_outbox \o
            terminal_replay_message_for_agent(a, registered[a]))
    BY <1>3 DEF BoardMessage
  <2>5. QED BY <2>2, <2>3, <2>4, FlushNews
<1>4. QED BY <1>2, <1>3 DEF SessionFocus

(* A heartbeat goes out under the sids the agents own while it is built.   *)
LEMMA HeartbeatProper ==
    ASSUME TypeOK, HeartbeatLocks
    PROVE  NewMessages \subseteq Proper
<1> DEFINE owners == {a \in DOMAIN registered :
                         registered[a].board_sid # NoSid}
           own == <<Heartbeat(Broadcast, NoAgent)>>
           beats(order) ==
               [i \in 1 .. Len(order) |->
                  Heartbeat(registered[order[i]].board_sid, order[i])]
<1>1. owners \in SUBSET Agents /\ UNCHANGED registered
  BY DEF TypeOK, HeartbeatLocks, agentVars
<1>2. own \in Seq(Proper)
  <2>1. Heartbeat(Broadcast, NoAgent) \in HidMessage
    BY MessageType DEF Heartbeat, Cmds
  <2>2. Heartbeat(Broadcast, NoAgent) \in Proper
    BY <2>1 DEF Proper, FromOwner, ForFocus, Heartbeat, Message
  <2>3. QED BY <2>2
<1>3. ASSUME NEW a \in owners
      PROVE  Heartbeat(registered[a].board_sid, a) \in Proper
  <2>1. a \in Agents /\ registered[a].board_sid \in Sids
    BY RecordType DEF RegisteredAgent
  <2>2. Heartbeat(registered[a].board_sid, a)
           \in UpdatesOf(a, registered[a].board_sid)
    BY <2>1, UpdateMessage DEF Heartbeat, Cmds
  <2>3. QED BY <1>1, <2>2, UpdatesAreProper
<1>4. PICK order \in SetToSeqs(owners) :
               flush_board_outbox(board_outbox \o own \o beats(order))
  BY DEF HeartbeatLocks
<1> HIDE DEF owners, own
<1>5. order \in Seq(owners)
  BY <1>1, OrderType
<1>6. Len(order) \in Nat /\ \A i \in 1 .. Len(order) : order[i] \in owners
  BY <1>5, LenProperties, ElementOfSeq
<1>7. beats(order) \in Seq(Proper)
  <2>1. beats(order) \in [1 .. Len(order) -> Proper]
    BY <1>3, <1>6
  <2>2. QED BY <1>6, <2>1, SeqFromFunction
<1> HIDE DEF beats
<1>8. own \o beats(order) \in Seq(Proper)
  BY <1>2, <1>7, ConcatProperties
<1>9. Proper \in SUBSET HidMessage
  BY DEF Proper
<1>10. board_outbox \o own \o beats(order) = board_outbox \o (own \o beats(order))
  <2>1. /\ board_outbox \in Seq(HidMessage) /\ own \in Seq(HidMessage)
        /\ beats(order) \in Seq(HidMessage)
    BY <1>2, <1>7, <1>9, SeqMonotonic DEF TypeOK
  <2>2. QED BY <2>1, ConcatAssociative
<1>11. QED BY <1>4, <1>8, <1>9, <1>10, FlushNews

(* A poll announces nothing but the need for rows.                         *)
LEMMA PassivePollProper ==
    ASSUME TypeOK, NEW snapshot \in Snapshots,
           NEW spoke \in SUBSET Discoverable, PassivePoll(snapshot, spoke)
    PROVE  NewMessages \subseteq Proper
<1> DEFINE slots == NewSlots(Discovered(snapshot))
<1>1. slots \in Seq(Agents)
  BY DiscoveredProperties, NewSlotsProperties
<1>2. flush_board_outbox(board_outbox \o Requests(slots))
  BY DEF PassivePoll
<1> HIDE DEF slots
<1>3. QED BY <1>1, <1>2, RequestsAreProper, FlushNews DEF Proper

LEMMA ProperStep ==
    ASSUME TypeOK, RowsInv, Next
    PROVE  NewMessages \subseteq Proper
<1>1. CASE ClientStep
  <2>1. CASE \E r \in Registrations : Register(r)
    BY <2>1, RegistrationsAssumption, RegisterProper
  <2>2. ASSUME NEW a \in Agents,
               Activity(a) \/ TurnAppend(a) \/ TerminalStream(a) \/ Abort(a)
        PROVE  NewMessages \subseteq Proper
    BY <2>2, ActivityProper, TurnAppendProper, TerminalStreamProper, SilentSteps
  <2>3. ASSUME NEW a \in Agents, NEW usage \in BOOLEAN, TokenUpdate(a, usage)
        PROVE  NewMessages \subseteq Proper
    BY <2>3, TokenUpdateProper
  <2>4. ASSUME NEW a \in Agents, NEW req \in ReqIds,
               \/ PermissionRequest(a, req) \/ PermissionResolve(a, req)
               \/ PermissionPoll(a, req)
        PROVE  NewMessages \subseteq Proper
    BY <2>4, PermissionRequestProper, SilentSteps
  <2>5. CASE LineWithoutEffect \/ ClientFlush \/ ClientGone
    BY <2>5, SilentSteps
  <2>6. QED BY <1>1, <2>1, <2>2, <2>3, <2>4, <2>5 DEF ClientStep
<1>2. CASE BoardStep
  <2>1. ASSUME NEW sid \in Sids,
               SessionResponse(sid) \/ SessionInvalid(sid) \/ SessionFocus(sid)
        PROVE  NewMessages \subseteq Proper
    BY <2>1, SessionResponseProper, SessionFocusProper, SilentSteps
  <2>2. ASSUME NEW sid \in Sids, NEW req \in ReqIds, NEW d \in Decisions,
               PermissionRes(sid, req, d)
        PROVE  NewMessages \subseteq Proper
    BY <2>2, SilentSteps
  <2>3. CASE SessionRejected \/ OtherBoardMessage
    BY <2>3, SilentSteps
  <2>4. QED BY <1>2, <2>1, <2>2, <2>3 DEF BoardStep
<1>3. CASE PassiveStep
  BY <1>3, PassivePollProper DEF PassiveStep
<1>4. CASE OtherStep
  BY <1>4, HeartbeatProper, SilentSteps DEF OtherStep
<1>5. QED BY <1>1, <1>2, <1>3, <1>4 DEF Next

(* Whatever the order of rebinds, invalidations, aborts and client lines,  *)
(* a handler never queues a message under a row that the agent it speaks   *)
(* about does not own once the step is done.                               *)
THEOREM MessagesComeFromOwners == Spec => NewMessagesFromOwner
<1>1. TypeOK /\ RowsInv /\ [Next]_vars
         => [\A m \in NewMessages :
                m.agent # NoAgent /\ m.sid # Broadcast =>
                    /\ m.agent \in DOMAIN registered'
                    /\ registered'[m.agent].board_sid = m.sid]_vars
  BY ProperStep DEF Proper, FromOwner
<1>2. QED BY RowsCorrect, <1>1, PTL DEF Spec, NewMessagesFromOwner

(* No handler queues terminal bytes, live or replayed, for a row that is   *)
(* not in focus once the step is done.                                     *)
THEOREM TerminalBytesOnlyForFocus == Spec => Vt100OnlyForFocus
<1>1. TypeOK /\ RowsInv /\ [Next]_vars
         => [\A m \in NewMessages :
                m.cmd = "Vt100Stream" => m.sid = focused_board_sid']_vars
  BY ProperStep DEF Proper, ForFocus
<1>2. QED BY RowsCorrect, <1>1, PTL DEF Spec, Vt100OnlyForFocus

---------------------------------------------------------------------------
(* What a step does to a session that lives on.                            *)

FieldsKept(old, new) ==
    /\ old.from_launch => new.from_launch
    /\ old.from_hook => new.from_hook
    /\ old.terminal_buffer => new.terminal_buffer

AskedKept(old, new) ==
    ToSet(old.pending_permissions) \subseteq ToSet(new.pending_permissions)

Survivors == DOMAIN registered \cap DOMAIN registered'

StateKept == \A a \in Survivors : /\ FieldsKept(registered[a], registered'[a])
                                  /\ AskedKept(registered[a], registered'[a])

(* The request `req` of agent a, and nothing else, left its queue.         *)
SettledOnly(a, req) ==
    \A b \in Survivors :
        /\ FieldsKept(registered[b], registered'[b])
        /\ ToSet(registered[b].pending_permissions)
              \ ToSet(registered'[b].pending_permissions)
              \subseteq IF b = a THEN {req} ELSE {}

(* A step that rewrites one record, or some records without a look at      *)
(* their permissions.                                                      *)
LEMMA UpdateKept ==
    ASSUME TypeOK, NEW a \in DOMAIN registered, NEW agent, Update(a, agent),
           FieldsKept(registered[a], agent), AskedKept(registered[a], agent)
    PROVE  StateKept
<1>1. \A b \in Survivors :
         registered'[b] = IF b = a THEN agent ELSE registered[b]
  BY DEF Update, Survivors, TypeOK
<1>2. QED BY <1>1 DEF StateKept, FieldsKept, AskedKept

LEMMA SamePermissionsKept ==
    ASSUME \A a \in Survivors :
              /\ FieldsKept(registered[a], registered'[a])
              /\ registered'[a].pending_permissions =
                    registered[a].pending_permissions
    PROVE  StateKept
BY DEF StateKept, AskedKept

LEMMA RegisterKept ==
    ASSUME TypeOK, NEW r \in RegisterLines, Register(r)
    PROVE  StateKept
<1>1. \A a \in Survivors :
         registered'[a] = IF a = r.agent THEN Registered(r) ELSE registered[a]
  BY DEF Register, With, Survivors
<1>2. r.agent \in DOMAIN registered =>
         LET old == registered[r.agent]
         IN  /\ FieldsKept(old, Registered(r))
             /\ Registered(r).pending_permissions = old.pending_permissions
  <2>1. SUFFICES ASSUME r.agent \in DOMAIN registered
                 PROVE  LET old == registered[r.agent]
                        IN  /\ FieldsKept(old, Registered(r))
                            /\ Registered(r).pending_permissions =
                                  old.pending_permissions
    OBVIOUS
  <2>2. registered[r.agent] \in RegisteredAgent
    BY <2>1, RecordType
  <2>3. QED BY <2>1, <2>2 DEF Registered, RegisteredAgent, FieldsKept
<1>3. QED BY <1>1, <1>2, SamePermissionsKept DEF Survivors, FieldsKept

(* Steps that leave the permissions of the agents they touch alone.        *)
LEMMA RecordUpdatesKept ==
    ASSUME TypeOK,
           \/ \E a \in Agents : \/ TurnAppend(a) \/ TerminalStream(a)
                                \/ \E usage \in BOOLEAN : TokenUpdate(a, usage)
                                \/ \E req \in ReqIds : PermissionPoll(a, req)
    PROVE  StateKept
<1>1. ASSUME NEW a \in Agents, TurnAppend(a) PROVE StateKept
  <2>1. /\ a \in DOMAIN registered
        /\ Update(a, [registered[a] EXCEPT !.turns = TRUE])
    BY <1>1 DEF TurnAppend
  <2>2. registered[a] \in RegisteredAgent
    BY <2>1, RecordType
  <2>3. QED BY <2>1, <2>2, UpdateKept DEF FieldsKept, AskedKept, RegisteredAgent
<1>2. ASSUME NEW a \in Agents, NEW usage \in BOOLEAN, TokenUpdate(a, usage)
      PROVE  StateKept
  <2>1. /\ a \in DOMAIN registered
        /\ Update(a, [registered[a] EXCEPT !.usage = usage])
    BY <1>2 DEF TokenUpdate
  <2>2. registered[a] \in RegisteredAgent
    BY <2>1, RecordType
  <2>3. QED BY <2>1, <2>2, UpdateKept DEF FieldsKept, AskedKept, RegisteredAgent
<1>3. ASSUME NEW a \in Agents, NEW req \in ReqIds, PermissionPoll(a, req)
      PROVE  StateKept
  <2>1. /\ a \in DOMAIN registered
        /\ Update(a, [registered[a] EXCEPT !.resolved_permissions[req] =
                                               NoDecision])
    BY <1>3 DEF PermissionPoll
  <2>2. registered[a] \in RegisteredAgent
    BY <2>1, RecordType
  <2>3. QED BY <2>1, <2>2, UpdateKept DEF FieldsKept, AskedKept, RegisteredAgent
<1>4. ASSUME NEW a \in Agents, TerminalStream(a) PROVE StateKept
  <2>1. registered' = [b \in DOMAIN registered |->
                          [registered[b] EXCEPT !.terminal_buffer =
                                                    @ \/ b \in Mirrors(a)]]
    BY <1>4 DEF TerminalStream
  <2>2. \A b \in DOMAIN registered :
           /\ FieldsKept(registered[b], registered'[b])
           /\ registered'[b].pending_permissions =
                 registered[b].pending_permissions
    BY <2>1, RecordType DEF FieldsKept, RegisteredAgent
  <2>3. QED BY <2>2, SamePermissionsKept DEF Survivors
<1>5. QED BY <1>1, <1>2, <1>3, <1>4

(* A new request joins the ones already asked.                             *)
LEMMA PermissionRequestKept ==
    ASSUME TypeOK, NEW a \in Agents, NEW req \in ReqIds,
           PermissionRequest(a, req)
    PROVE  StateKept
<1> DEFINE asked == registered[a].pending_permissions
           agent == [registered[a] EXCEPT
                       !.resolved_permissions[req] = NoDecision,
                       !.pending_permissions = Append(@, req)]
<1>1. a \in DOMAIN registered /\ Update(a, agent)
  BY DEF PermissionRequest
<1>2. registered[a] \in RegisteredAgent /\ asked \in Seq(ReqIds)
  BY <1>1, RecordType DEF RegisteredAgent
<1>3. /\ FieldsKept(registered[a], agent)
      /\ agent.pending_permissions = Append(asked, req)
  BY <1>2 DEF FieldsKept, RegisteredAgent
<1> HIDE DEF agent, asked
<1>4. ToSet(asked) \subseteq ToSet(Append(asked, req))
  <2>1. /\ Len(asked) \in Nat /\ Len(Append(asked, req)) = Len(asked) + 1
        /\ \A i \in 1 .. Len(asked) : Append(asked, req)[i] = asked[i]
        /\ DOMAIN asked = 1 .. Len(asked)
        /\ DOMAIN Append(asked, req) = 1 .. Len(asked) + 1
    BY <1>2, LenProperties, AppendProperties
  <2>2. QED BY <2>1 DEF ToSet
<1>5. AskedKept(registered[a], agent)
  BY <1>3, <1>4 DEF AskedKept, asked
<1>6. QED BY <1>1, <1>3, <1>5, UpdateKept

(* Steps that change no more of a surviving record than its sid or its     *)
(* turns.                                                                  *)
LEMMA RowStepsKept ==
    ASSUME TypeOK,
           \/ \E a \in Agents : Abort(a)
           \/ \E sid \in Sids : SessionResponse(sid) \/ SessionInvalid(sid)
           \/ \E snapshot \in Snapshots, spoke \in SUBSET Discoverable :
                 PassivePoll(snapshot, spoke)
    PROVE  StateKept
<1> DEFINE Same(old, new) ==
               /\ FieldsKept(old, new)
               /\ new.pending_permissions = old.pending_permissions
<1>1. ASSUME NEW a \in Agents, Abort(a) PROVE StateKept
  <2>1. \A b \in Survivors : registered'[b] = registered[b]
    BY <1>1 DEF Abort, Without, Survivors
  <2>2. QED BY <2>1, SamePermissionsKept DEF FieldsKept
<1>2. ASSUME NEW sid, NEW keep, NEW a \in DOMAIN registered
      PROVE  Same(registered[a], clear_board_sid_owners(sid, keep)[a])
  <2>1. registered[a] \in RegisteredAgent
    BY RecordType
  <2>2. QED BY <2>1 DEF clear_board_sid_owners, FieldsKept, RegisteredAgent
<1>3. ASSUME NEW sid \in Sids, SessionInvalid(sid) PROVE StateKept
  BY <1>2, <1>3, SamePermissionsKept DEF SessionInvalid, Survivors
<1>4. ASSUME NEW sid \in Sids, SessionResponse(sid) PROVE StateKept
  <2> DEFINE key == Head(pending_board_sessions)
             cleared == clear_board_sid_owners(sid, {key})
             bound == [cleared[key] EXCEPT !.board_sid = sid]
  <2>1. /\ DOMAIN cleared = DOMAIN registered
        /\ \A a \in DOMAIN registered : cleared[a] \in RegisteredAgent
    BY ClearedType DEF TypeOK, TableOK
  <2>2. key \in DOMAIN registered => registered' = [cleared EXCEPT ![key] = bound]
    BY <1>4 DEF SessionResponse
  <2>3. key \notin DOMAIN registered => registered' = cleared
    BY <1>4 DEF SessionResponse
  <2>4. \A a \in DOMAIN registered : Same(registered[a], cleared[a])
    BY <1>2
  <2> HIDE DEF cleared, key
  <2>5. key \in DOMAIN registered => Same(cleared[key], bound)
    BY <2>1 DEF FieldsKept, RegisteredAgent
  <2> HIDE DEF bound
  <2>6. \A a \in DOMAIN registered : Same(registered[a], registered'[a])
    <3>1. CASE key \in DOMAIN registered
      <4>1. \A a \in DOMAIN registered :
               registered'[a] = IF a = key THEN bound ELSE cleared[a]
        BY <2>1, <2>2, <3>1
      <4>2. QED BY <2>4, <2>5, <3>1, <4>1 DEF FieldsKept
    <3>2. CASE key \notin DOMAIN registered
      BY <2>3, <2>4, <3>2
    <3>3. QED BY <3>1, <3>2
  <2>7. QED BY <2>6, SamePermissionsKept DEF Survivors
<1>5. ASSUME NEW snapshot \in Snapshots, NEW spoke \in SUBSET Discoverable,
             PassivePoll(snapshot, spoke)
      PROVE  StateKept
  <2> DEFINE table == RegisteredAndIngested(snapshot, spoke)
  <2>1. PICK dropped : registered' = Without(table, dropped)
    BY <1>5 DEF PassivePoll
  <2>2. \A a \in DOMAIN registered : Same(registered[a], table[a])
    BY RecordType DEF RegisteredAndIngested, FieldsKept, RegisteredAgent
  <2>3. \A a \in Survivors : registered'[a] = table[a]
    BY <2>1 DEF Without, Survivors
  <2> HIDE DEF table
  <2>4. QED BY <2>2, <2>3, SamePermissionsKept DEF Survivors
<1>6. QED BY <1>1, <1>3, <1>4, <1>5

(* permission.resolve and PERMISSION_RES take the one request they name.   *)
LEMMA SettlingSteps ==
    ASSUME TypeOK, NEW a \in DOMAIN registered, NEW req \in ReqIds,
           NEW resolved,
           Update(a, [registered[a] EXCEPT
                        !.pending_permissions = Retain(@, {req}),
                        !.resolved_permissions = resolved])
    PROVE  SettledOnly(a, req)
<1> DEFINE asked == registered[a].pending_permissions
           agent == [registered[a] EXCEPT
                       !.pending_permissions = Retain(@, {req}),
                       !.resolved_permissions = resolved]
<1>1. registered[a] \in RegisteredAgent /\ asked \in Seq(ReqIds)
  BY RecordType DEF RegisteredAgent
<1>2. /\ FieldsKept(registered[a], agent)
      /\ agent.pending_permissions = Retain(asked, {req})
  BY <1>1 DEF FieldsKept, RegisteredAgent
<1>3. ToSet(Retain(asked, {req})) = ToSet(asked) \ {req}
  BY <1>1, RetainProperties
<1> HIDE DEF agent
<1>4. \A b \in Survivors :
         registered'[b] = IF b = a THEN agent ELSE registered[b]
  BY DEF Update, Survivors, TypeOK, agent
<1>5. QED BY <1>2, <1>3, <1>4 DEF SettledOnly, FieldsKept

(* What the property asks of one step. *)
SettledBy(a, req) ==
    \/ PermissionResolve(a, req)
    \/ \E d \in Decisions : PermissionRes(registered[a].board_sid, req, d)

SessionsKept ==
    \A a \in Survivors :
        /\ FieldsKept(registered[a], registered'[a])
        /\ \A req \in ToSet(registered[a].pending_permissions)
                        \ ToSet(registered'[a].pending_permissions) :
              SettledBy(a, req)

LEMMA PermissionResolveKept ==
    ASSUME TypeOK, NEW a \in Agents, NEW req \in ReqIds,
           PermissionResolve(a, req)
    PROVE  SessionsKept
<1> DEFINE r == registered[a]
<1>1. a \in DOMAIN registered /\ r \in RegisteredAgent
  BY RecordType DEF PermissionResolve
<1>2. [r EXCEPT !.pending_permissions = Retain(@, {req})]
      = [r EXCEPT !.pending_permissions = Retain(@, {req}),
                  !.resolved_permissions = r.resolved_permissions]
  BY <1>1 DEF RegisteredAgent
<1>3. Update(a, [r EXCEPT !.pending_permissions = Retain(@, {req}),
                          !.resolved_permissions = r.resolved_permissions])
  BY <1>2 DEF PermissionResolve
<1>4. SettledOnly(a, req)
  BY <1>1, <1>3, SettlingSteps
<1>5. SettledBy(a, req)
  BY DEF SettledBy
<1>6. QED BY <1>4, <1>5 DEF SettledOnly, SessionsKept

LEMMA PermissionResKept ==
    ASSUME TypeOK, NEW sid \in Sids, NEW req \in ReqIds, NEW d \in Decisions,
           PermissionRes(sid, req, d)
    PROVE  SessionsKept
<1>1. PICK a \in Owners(sid) :
          Update(a, [registered[a] EXCEPT
                       !.pending_permissions = Retain(@, {req}),
                       !.resolved_permissions[req] = d])
  BY DEF PermissionRes
<1> DEFINE r == registered[a]
           resolved == [r.resolved_permissions EXCEPT ![req] = d]
<1>2. /\ a \in DOMAIN registered /\ r \in RegisteredAgent
      /\ r.board_sid = sid
  BY RecordType DEF Owners
<1>3. [r EXCEPT !.pending_permissions = Retain(@, {req}),
                !.resolved_permissions[req] = d]
      = [r EXCEPT !.pending_permissions = Retain(@, {req}),
                  !.resolved_permissions = resolved]
  BY <1>2 DEF RegisteredAgent
<1>4. Update(a, [r EXCEPT !.pending_permissions = Retain(@, {req}),
                          !.resolved_permissions = resolved])
  BY <1>1, <1>3
<1> HIDE DEF resolved
<1>5. SettledOnly(a, req)
  BY <1>2, <1>4, SettlingSteps
<1>6. SettledBy(a, req)
  BY <1>2 DEF SettledBy
<1>7. QED BY <1>5, <1>6 DEF SettledOnly, SessionsKept

LEMMA SessionsKeptStep ==
    ASSUME TypeOK, Next
    PROVE  SessionsKept
<1>1. StateKept => SessionsKept
  BY DEF StateKept, AskedKept, SessionsKept
<1>2. UNCHANGED registered => StateKept
  BY DEF StateKept, FieldsKept, AskedKept
<1>3. CASE ClientStep
  <2>1. CASE \E r \in Registrations : Register(r)
    BY <1>1, <2>1, RegistrationsAssumption, RegisterKept
  <2>2. ASSUME NEW a \in Agents,
               \/ TurnAppend(a) \/ TerminalStream(a) \/ Abort(a)
               \/ \E usage \in BOOLEAN : TokenUpdate(a, usage)
        PROVE  SessionsKept
    BY <1>1, <2>2, RecordUpdatesKept, RowStepsKept
  <2>3. ASSUME NEW a \in Agents, NEW req \in ReqIds,
               \/ PermissionRequest(a, req) \/ PermissionResolve(a, req)
               \/ PermissionPoll(a, req)
        PROVE  SessionsKept
    BY <1>1, <2>3, PermissionRequestKept, PermissionResolveKept,
       RecordUpdatesKept
  <2>4. CASE \/ LineWithoutEffect \/ ClientFlush \/ ClientGone
             \/ \E a \in Agents : Activity(a)
    BY <1>1, <1>2, <2>4
       DEF LineWithoutEffect, ClientFlush, ClientGone, Activity, agentVars
  <2>5. QED BY <1>3, <2>1, <2>2, <2>3, <2>4 DEF ClientStep
<1>4. CASE BoardStep
  <2>1. ASSUME NEW sid \in Sids, SessionResponse(sid) \/ SessionInvalid(sid)
        PROVE  SessionsKept
    BY <1>1, <2>1, RowStepsKept
  <2>2. ASSUME NEW sid \in Sids, NEW req \in ReqIds, NEW d \in Decisions,
               PermissionRes(sid, req, d)
        PROVE  SessionsKept
    BY <2>2, PermissionResKept
  <2>3. CASE \/ SessionRejected \/ OtherBoardMessage
             \/ \E sid \in Sids : SessionFocus(sid)
    BY <1>1, <1>2, <2>3 DEF SessionRejected, OtherBoardMessage, SessionFocus
  <2>4. QED BY <1>4, <2>1, <2>2, <2>3 DEF BoardStep
<1>5. CASE PassiveStep
  BY <1>1, <1>5, RowStepsKept DEF PassiveStep
<1>6. CASE OtherStep
  BY <1>1, <1>2, <1>6
     DEF OtherStep, HeartbeatWakes, HeartbeatLocks, HidOpens, HidReadFails,
         agentVars
<1>7. QED BY <1>3, <1>4, <1>5, <1>6 DEF Next

(* Through registrations, rebinds, invalidations and polls, a session that *)
(* lives on never loses its origin flags, its terminal bytes, or a pending *)
(* permission that nobody answered or resolved.                            *)
THEOREM SessionsKeepTheirState == Spec => SessionStateKept
<1>1. TypeOK /\ [Next]_vars
         => [\A a \in DOMAIN registered \cap DOMAIN registered' :
                /\ registered[a].from_launch => registered'[a].from_launch
                /\ registered[a].from_hook => registered'[a].from_hook
                /\ registered[a].terminal_buffer =>
                      registered'[a].terminal_buffer
                /\ \A req \in ToSet(registered[a].pending_permissions)
                                \ ToSet(registered'[a].pending_permissions) :
                      \/ PermissionResolve(a, req)
                      \/ \E d \in Decisions :
                            PermissionRes(registered[a].board_sid, req, d)]_vars
  BY SessionsKeptStep DEF SessionsKept, Survivors, FieldsKept, SettledBy
<1>2. QED BY TypeCorrect, <1>1, PTL DEF Spec, SessionStateKept

---------------------------------------------------------------------------
(* The decision the daemon keeps for a request, NoDecision for an agent it *)
(* does not know.                                                          *)
Resolved(a, req) ==
    IF a \in DOMAIN registered THEN registered[a].resolved_permissions[req]
                               ELSE NoDecision

(* What the daemon's steps do to the decisions it keeps.  All but an       *)
(* answer of the board only forget some.                                   *)
Forgets == \A a \in Agents, req \in ReqIds :
              Resolved(a, req)' \in {Resolved(a, req), NoDecision}

(* A record whose decisions are those of the record before.                *)
LEMMA SameDecisions ==
    ASSUME \A a \in DOMAIN registered' :
              \/ /\ a \in DOMAIN registered
                 /\ registered'[a].resolved_permissions =
                       registered[a].resolved_permissions
              \/ \A req \in ReqIds :
                    registered'[a].resolved_permissions[req] = NoDecision
    PROVE  Forgets
BY DEF Forgets, Resolved

LEMMA ResolvedType ==
    ASSUME TypeOK
    PROVE  \A a \in Agents, req \in ReqIds :
              Resolved(a, req) \in Decisions \cup {NoDecision}
BY DEF TypeOK, Resolved, RegisteredAgent

LEMMA UnchangedForgets ==
    ASSUME UNCHANGED registered
    PROVE  Forgets
BY DEF Forgets, Resolved

LEMMA RegisterForgets ==
    ASSUME TypeOK, NEW r \in RegisterLines, Register(r)
    PROVE  Forgets
<1>1. registered' = With(r.agent, Registered(r))
  BY DEF Register
<1>2. CASE r.agent \in DOMAIN registered
  <2>1. registered[r.agent] \in RegisteredAgent
    BY <1>2, RecordType
  <2>2. Registered(r).resolved_permissions =
           registered[r.agent].resolved_permissions
    BY <1>2, <2>1 DEF Registered, RegisteredAgent
  <2>3. QED BY <1>1, <1>2, <2>2, SameDecisions DEF With
<1>3. CASE r.agent \notin DOMAIN registered
  <2>1. \A req \in ReqIds :
           Registered(r).resolved_permissions[req] = NoDecision
    BY <1>3 DEF Registered, NewAgent
  <2>2. QED BY <1>1, <2>1, SameDecisions DEF With
<1>4. QED BY <1>2, <1>3

LEMMA AbortForgets ==
    ASSUME NEW a \in Agents, Abort(a)
    PROVE  Forgets
BY SameDecisions DEF Abort, Without

(* Withdrawing a sid from its owners changes nothing else of them.         *)
LEMMA ClearedDecisions ==
    ASSUME TypeOK, NEW sid, NEW keep, NEW a \in DOMAIN registered
    PROVE  clear_board_sid_owners(sid, keep)[a].resolved_permissions =
              registered[a].resolved_permissions
BY RecordType DEF clear_board_sid_owners, RegisteredAgent

LEMMA SessionInvalidForgets ==
    ASSUME TypeOK, NEW sid \in Sids, SessionInvalid(sid)
    PROVE  Forgets
BY ClearedDecisions, SameDecisions, ClearedType
   DEF SessionInvalid, TypeOK, TableOK

LEMMA SessionResponseForgets ==
    ASSUME TypeOK, NEW sid \in Sids, SessionResponse(sid)
    PROVE  Forgets
<1> DEFINE key == Head(pending_board_sessions)
           cleared == clear_board_sid_owners(sid, {key})
           bound == [cleared[key] EXCEPT !.board_sid = sid]
<1>1. registered' = IF key \in DOMAIN registered
                    THEN [cleared EXCEPT ![key] = bound] ELSE cleared
  BY DEF SessionResponse
<1>2. /\ DOMAIN cleared = DOMAIN registered
      /\ \A a \in DOMAIN registered :
            /\ cleared[a] \in RegisteredAgent
            /\ cleared[a].resolved_permissions =
                  registered[a].resolved_permissions
  BY ClearedDecisions, ClearedType DEF TypeOK, TableOK
<1> HIDE DEF key, cleared
<1>3. key \in DOMAIN registered =>
         bound.resolved_permissions = registered[key].resolved_permissions
  BY <1>2 DEF RegisteredAgent
<1> HIDE DEF bound
<1>4. QED BY <1>1, <1>2, <1>3, SameDecisions

(* A request and a poll leave no decision for the id they are about.       *)
LEMMA UpdatedDecisions ==
    ASSUME NEW a \in DOMAIN registered, NEW agent, Update(a, agent),
           NEW req \in ReqIds,
           \A q \in ReqIds :
              agent.resolved_permissions[q] =
                 IF q = req THEN NoDecision
                 ELSE registered[a].resolved_permissions[q]
    PROVE  Forgets /\ Resolved(a, req)' = NoDecision
BY DEF Update, Forgets, Resolved

LEMMA PermissionRequestForgets ==
    ASSUME TypeOK, NEW a \in Agents, NEW req \in ReqIds,
           PermissionRequest(a, req)
    PROVE  Forgets /\ Resolved(a, req)' = NoDecision
<1> DEFINE agent == [registered[a] EXCEPT
                       !.resolved_permissions[req] = NoDecision,
                       !.pending_permissions = Append(@, req)]
<1>1. a \in DOMAIN registered /\ Update(a, agent)
  BY DEF PermissionRequest
<1>2. registered[a] \in RegisteredAgent
  BY <1>1, RecordType
<1>3. \A q \in ReqIds :
         agent.resolved_permissions[q] =
            IF q = req THEN NoDecision
            ELSE registered[a].resolved_permissions[q]
  BY <1>2 DEF RegisteredAgent
<1> HIDE DEF agent
<1>4. QED BY <1>1, <1>3, UpdatedDecisions

LEMMA PermissionPollForgets ==
    ASSUME TypeOK, NEW a \in Agents, NEW req \in ReqIds,
           PermissionPoll(a, req)
    PROVE  Forgets /\ Resolved(a, req)' = NoDecision
<1> DEFINE agent == [registered[a] EXCEPT
                       !.resolved_permissions[req] = NoDecision]
<1>1. a \in DOMAIN registered /\ Update(a, agent)
  BY DEF PermissionPoll
<1>2. registered[a] \in RegisteredAgent
  BY <1>1, RecordType
<1>3. \A q \in ReqIds :
         agent.resolved_permissions[q] =
            IF q = req THEN NoDecision
            ELSE registered[a].resolved_permissions[q]
  BY <1>2 DEF RegisteredAgent
<1> HIDE DEF agent
<1>4. QED BY <1>1, <1>3, UpdatedDecisions

(* PERMISSION_RES names a sid; it keeps the decision for the one agent     *)
(* that owns it.                                                           *)
LEMMA PermissionResRecords ==
    ASSUME TypeOK, RowsInv, NEW a \in DOMAIN registered,
           registered[a].board_sid # NoSid,
           NEW req \in ReqIds, NEW d \in Decisions,
           PermissionRes(registered[a].board_sid, req, d)
    PROVE  \A b \in Agents, q \in ReqIds :
              Resolved(b, q)' = IF b = a /\ q = req THEN d ELSE Resolved(b, q)
<1> DEFINE agent == [registered[a] EXCEPT
                       !.pending_permissions = Retain(@, {req}),
                       !.resolved_permissions[req] = d]
<1>1. Owners(registered[a].board_sid) = {a}
  BY DEF Owners, RowsInv, SidUnique
<1>2. Update(a, agent)
  BY <1>1 DEF PermissionRes
<1>3. registered[a] \in RegisteredAgent
  BY RecordType
<1>4. \A q \in ReqIds :
         agent.resolved_permissions[q] =
            IF q = req THEN d ELSE registered[a].resolved_permissions[q]
  BY <1>3 DEF RegisteredAgent
<1> HIDE DEF agent
<1>5. QED BY <1>2, <1>4 DEF Update, Resolved
===============================================================================
