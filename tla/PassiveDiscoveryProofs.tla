----------------------- MODULE PassiveDiscoveryProofs -----------------------
(***************************************************************************)
(* The grace period of the passive discovery thread (PassiveDiscovery),    *)
(* proved for any number of agents, sids and grace polls: the counts the   *)
(* daemon keeps per agent agree with the history of polls exactly where it *)
(* acts on them.                                                           *)
(***************************************************************************)
EXTENDS PassiveDiscovery, BridgeDaemonProofs

(* The history variable restricts no step.                                 *)
LEMMA StepIsDaemonStep == [PDNext]_<<vars, unseen>> => [Next]_vars
BY DEF PDNext, Next, PassiveStep

LEMMA PassiveIsDaemon == PDSpec => Spec
BY StepIsDaemonStep, PTL DEF PDSpec, PDInit, Spec

LEMMA PassiveRowsCorrect == PDSpec => [](TypeOK /\ RowsInv)
BY PassiveIsDaemon, RowsCorrect, PTL

LEMMA PassiveTypeInit == PDInit => unseen \in [Agents -> 0 .. GracePolls]
BY GracePollsAssumption DEF PDInit

(* The count of an agent is not always the number of polls that missed it: *)
(* it stands still while the agent has no row, and an abort leaves it.     *)
(* Where pruning reads it, for a passive session with a row, it is.  That  *)
(* takes both zero while the session waits for its row: a passive session  *)
(* comes in by a poll that saw it and so cleared the count, and it never   *)
(* gets a row but through the queue.                                       *)
GraceInv ==
    \A a \in Agents : Passive(a) =>
        /\ a \in ToSet(pending_board_sessions) =>
              unseen[a] = 0 /\ passive_missing_counts[a] = 0
        /\ registered[a].board_sid # NoSid =>
              unseen[a] = passive_missing_counts[a]

PassiveInv == /\ TypeOK /\ RowsInv
              /\ unseen \in [Agents -> 0 .. GracePolls]
              /\ GraceInv

LEMMA PassiveInvInit == PDInit => PassiveInv
<1>1. SUFFICES ASSUME PDInit PROVE PassiveInv
  OBVIOUS
<1>2. TypeOK /\ RowsInv /\ DOMAIN registered = {}
  BY <1>1, TypeInit, RowsInit DEF PDInit, Init
<1>3. QED BY <1>1, <1>2, PassiveTypeInit DEF PassiveInv, GraceInv, Passive

(* A step other than a poll makes no session passive that was not, gives   *)
(* none a slot, and a row only to one that waits.                          *)
LEMMA OtherStepsPassive ==
    ASSUME TypeOK, RowsInv, ClientStep \/ BoardStep \/ OtherStep,
           NEW a \in Agents, Passive(a)'
    PROVE  /\ Passive(a)
           /\ a \in ToSet(pending_board_sessions') =>
                 a \in ToSet(pending_board_sessions)
           /\ registered'[a].board_sid # NoSid =>
                 \/ a \in ToSet(pending_board_sessions)
                 \/ registered[a].board_sid # NoSid
<1>1. Next
  BY DEF Next
<1>2. a \in DOMAIN registered => Passive(a)
  BY <1>1, SessionsKeptStep
     DEF Passive, SessionsKept, Survivors, FieldsKept
<1>3. CASE \E r \in Registrations : Register(r)
  <2>1. PICK r \in Registrations : Register(r)
    BY <1>3
  <2>2. PICK asking \in SUBSET {r.agent} : RowsMoved({r.agent}, asking, {})
    BY <2>1, RegistrationsAssumption, RegisterRows
  <2>3. a # r.agent
    <3>1. Registered(r).from_hook = TRUE
      BY RecordType DEF Registered, NewAgent, RegisteredAgent
    <3>2. registered'[r.agent] = Registered(r)
      BY <2>1 DEF Register, With
    <3>3. QED BY <3>1, <3>2 DEF Passive
  <2>4. QED BY <1>2, <2>2, <2>3 DEF RowsMoved, Passive
<1>4. CASE \E b \in Agents : Abort(b)
  BY <1>2, <1>4, AbortRows DEF RowsMoved, Passive
<1>5. CASE \E sid \in Sids :
              RowRevoked(sid) \/ RowGranted(Head(pending_board_sessions), sid)
  BY <1>2, <1>5 DEF RowRevoked, RowGranted, Passive
<1>6. CASE RowsMoved({}, {}, {})
  BY <1>2, <1>6 DEF RowsMoved, Passive
<1>7. QED BY <1>3, <1>4, <1>5, <1>6, OtherRows

LEMMA OtherStepsGrace ==
    ASSUME PassiveInv, ClientStep \/ BoardStep \/ OtherStep, UNCHANGED unseen
    PROVE  GraceInv'
<1>1. UNCHANGED passive_missing_counts
  BY DEF ClientStep, BoardStep, OtherStep, Register, Activity, TurnAppend,
         TerminalStream, Abort, TokenUpdate, PermissionRequest,
         PermissionResolve, PermissionPoll, LineWithoutEffect, ClientFlush,
         ClientGone, SessionResponse, SessionInvalid, SessionFocus,
         PermissionRes, SessionRejected, OtherBoardMessage, BoardMessage,
         HeartbeatWakes, HeartbeatLocks, HidOpens, HidReadFails, agentVars
<1>2. ASSUME NEW a \in Agents, Passive(a)'
      PROVE  /\ a \in ToSet(pending_board_sessions') =>
                   unseen'[a] = 0 /\ passive_missing_counts'[a] = 0
             /\ registered'[a].board_sid # NoSid =>
                   unseen'[a] = passive_missing_counts'[a]
  BY <1>1, <1>2, OtherStepsPassive DEF PassiveInv, GraceInv
<1>3. QED BY <1>2 DEF GraceInv

(* What a poll does to one agent that was registered before it: it keeps   *)
(* its sid, its flags and its place outside the queue, and it is forgotten *)
(* only when it is a bound passive session the poll missed too often.      *)
Forgettable(a, snapshot) ==
    /\ Passive(a) /\ registered[a].board_sid # NoSid
    /\ a \notin ToSet(snapshot)

LEMMA PollOnAgent ==
    ASSUME TypeOK, RowsInv, NEW snapshot \in Snapshots,
           NEW spoke \in SUBSET Discoverable, PassivePoll(snapshot, spoke),
           NEW a \in DOMAIN registered
    PROVE  /\ a \in DOMAIN registered' =>
                 /\ Passive(a)' => Passive(a)
                 /\ registered'[a].board_sid = registered[a].board_sid
                 /\ a \in ToSet(pending_board_sessions') =>
                       a \in ToSet(pending_board_sessions)
                 /\ passive_missing_counts'[a] =
                       IF a \in ToSet(snapshot) THEN 0
                       ELSE IF Forgettable(a, snapshot)
                            THEN passive_missing_counts[a] + 1
                       ELSE passive_missing_counts[a]
           /\ a \notin DOMAIN registered' <=>
                 Forgettable(a, snapshot) /\ GraceOver(a)
<1> DEFINE table == RegisteredAndIngested(snapshot, spoke)
           slots == NewSlots(Discovered(snapshot))
           missed == PruneCandidates(table) \ ToSet(snapshot)
           dropped == {b \in missed : GraceOver(b)}
<1>1. /\ registered' = Without(table, dropped)
      /\ pending_board_sessions' =
            Retain(pending_board_sessions \o slots, dropped)
      /\ passive_missing_counts' = MissingCounts(snapshot, missed, dropped)
      /\ pending_board_sessions \in Seq(Agents)
  BY DEF PassivePoll, TypeOK
<1>2. /\ a \in DOMAIN table /\ a \in Agents
      /\ table[a].board_sid = registered[a].board_sid
      /\ table[a].from_launch = registered[a].from_launch
      /\ table[a].from_hook = registered[a].from_hook
  BY RecordType DEF RegisteredAndIngested, RegisteredAgent
<1>3. a \in missed <=> Forgettable(a, snapshot)
  BY <1>2 DEF PruneCandidates, Forgettable, Passive
<1>4. /\ slots \in Seq(Agents)
      /\ a \notin ToSet(slots)
  BY DiscoveredProperties, NewSlotsProperties
<1> HIDE DEF table, slots, missed, dropped
<1>5. /\ ToSet(pending_board_sessions \o slots) =
            ToSet(pending_board_sessions) \cup ToSet(slots)
      /\ pending_board_sessions \o slots \in Seq(Agents)
  BY <1>1, <1>4, ConcatInjective, ConcatProperties
<1>6. ToSet(pending_board_sessions') =
         (ToSet(pending_board_sessions) \cup ToSet(slots)) \ dropped
  <2> DEFINE queue == pending_board_sessions \o slots
  <2>1. queue \in Seq(Agents) /\ pending_board_sessions' = Retain(queue, dropped)
    BY <1>1, <1>5
  <2>2. ToSet(queue) = ToSet(pending_board_sessions) \cup ToSet(slots)
    BY <1>5
  <2> HIDE DEF queue
  <2>3. ToSet(Retain(queue, dropped)) = ToSet(queue) \ dropped
    BY <2>1, RetainProperties
  <2>4. QED BY <2>1, <2>2, <2>3
<1>7. /\ DOMAIN registered' = DOMAIN table \ dropped
      /\ a \in DOMAIN registered' => registered'[a] = table[a]
  BY <1>1 DEF Without
<1>8. a \in dropped <=> Forgettable(a, snapshot) /\ GraceOver(a)
  BY <1>3 DEF dropped
<1>9. a \notin dropped =>
         passive_missing_counts'[a] =
            IF a \in ToSet(snapshot) THEN 0
            ELSE IF Forgettable(a, snapshot) THEN passive_missing_counts[a] + 1
            ELSE passive_missing_counts[a]
  BY <1>1, <1>2, <1>3 DEF MissingCounts
<1>10. QED BY <1>2, <1>4, <1>6, <1>7, <1>8, <1>9 DEF Passive

(* An agent that a poll makes known was in its snapshot.                   *)
LEMMA PollOnNewAgent ==
    ASSUME TypeOK, NEW snapshot \in Snapshots,
           NEW spoke \in SUBSET Discoverable, PassivePoll(snapshot, spoke),
           NEW a \in DOMAIN registered' \ DOMAIN registered
    PROVE  /\ a \in ToSet(snapshot)
           /\ a \in Agents => passive_missing_counts'[a] = 0
<1>1. a \in ToSet(Discovered(snapshot))
  BY DEF PassivePoll, Without, RegisteredAndIngested
<1>2. snapshot \in Seq(Agents)
  BY SnapshotType
<1>3. a \in ToSet(snapshot)
  BY <1>1, <1>2, RetainProperties DEF Discovered
<1>4. QED BY <1>3 DEF PassivePoll, MissingCounts

LEMMA PollGrace ==
    ASSUME PassiveInv, NEW snapshot \in Snapshots,
           NEW spoke \in SUBSET Discoverable, PassivePoll(snapshot, spoke),
           unseen' = Missed(snapshot)
    PROVE  GraceInv'
<1>1. SUFFICES ASSUME NEW a \in Agents, Passive(a)'
      PROVE  /\ a \in ToSet(pending_board_sessions') =>
                   unseen'[a] = 0 /\ passive_missing_counts'[a] = 0
             /\ registered'[a].board_sid # NoSid =>
                   unseen'[a] = passive_missing_counts'[a]
  BY DEF GraceInv
<1>2. unseen'[a] = IF a \in ToSet(snapshot) \cup ToSet(pending_board_sessions)
                   THEN 0
                   ELSE IF unseen[a] < GracePolls THEN unseen[a] + 1
                   ELSE GracePolls
  BY DEF Missed
<1>3. /\ TypeOK /\ RowsInv /\ a \in DOMAIN registered'
      /\ passive_missing_counts[a] \in 0 .. GracePolls - 1
      /\ GracePolls \in Nat
  BY <1>1, GracePollsAssumption DEF PassiveInv, Passive, TypeOK
<1>4. CASE a \notin DOMAIN registered
  <2>1. a \in ToSet(snapshot) /\ passive_missing_counts'[a] = 0
    BY <1>3, <1>4, PollOnNewAgent
  <2>2. QED BY <1>2, <2>1
<1>5. CASE a \in DOMAIN registered
  <2>1. /\ Passive(a)
        /\ registered'[a].board_sid = registered[a].board_sid
        /\ a \in ToSet(pending_board_sessions') =>
              a \in ToSet(pending_board_sessions)
        /\ passive_missing_counts'[a] =
              IF a \in ToSet(snapshot) THEN 0
              ELSE IF Forgettable(a, snapshot)
                   THEN passive_missing_counts[a] + 1
              ELSE passive_missing_counts[a]
    BY <1>1, <1>3, <1>5, PollOnAgent
  <2>2. ~(Forgettable(a, snapshot) /\ GraceOver(a))
    BY <1>3, <1>5, PollOnAgent
  <2>3. a \in ToSet(pending_board_sessions) => registered[a].board_sid = NoSid
    BY <1>3, PendingSoundAsSet DEF RowsInv
  <2>4. CASE a \in ToSet(pending_board_sessions)
    <3>1. unseen[a] = 0 /\ passive_missing_counts[a] = 0
      BY <2>1, <2>4 DEF PassiveInv, GraceInv
    <3>2. unseen'[a] = 0 /\ passive_missing_counts'[a] = 0
      BY <1>2, <2>1, <2>3, <2>4, <3>1 DEF Forgettable
    <3>3. QED BY <3>2
  <2>5. CASE a \notin ToSet(pending_board_sessions)
    <3>1. ASSUME registered[a].board_sid # NoSid
          PROVE  unseen'[a] = passive_missing_counts'[a]
      <4>1. unseen[a] = passive_missing_counts[a]
        BY <2>1, <3>1 DEF PassiveInv, GraceInv
      <4>2. CASE a \in ToSet(snapshot)
        BY <1>2, <2>1, <4>2
      <4>3. CASE a \notin ToSet(snapshot)
        <5>1. Forgettable(a, snapshot)
          BY <2>1, <3>1, <4>3 DEF Forgettable
        <5>2. passive_missing_counts'[a] = passive_missing_counts[a] + 1
          BY <2>1, <4>3, <5>1
        <5>3. unseen'[a] = unseen[a] + 1
          BY <1>2, <1>3, <2>5, <4>1, <4>3
        <5>4. QED BY <4>1, <5>2, <5>3
      <4>4. QED BY <4>2, <4>3
    <3>2. QED BY <2>1, <2>5, <3>1
  <2>6. QED BY <2>4, <2>5
<1>6. QED BY <1>4, <1>5

LEMMA PassiveInvStep == PassiveInv /\ [PDNext]_<<vars, unseen>> => PassiveInv'
<1>1. SUFFICES ASSUME PassiveInv, [PDNext]_<<vars, unseen>> PROVE PassiveInv'
  OBVIOUS
<1>2. TypeOK' /\ RowsInv'
  BY <1>1, StepIsDaemonStep, TypeStep, RowsStep DEF PassiveInv
<1>3. unseen' \in [Agents -> 0 .. GracePolls]
  <2>1. ASSUME NEW snapshot, unseen' = Missed(snapshot)
        PROVE  unseen' \in [Agents -> 0 .. GracePolls]
    BY <1>1, <2>1, GracePollsAssumption DEF PassiveInv, Missed
  <2>2. CASE UNCHANGED unseen
    BY <1>1, <2>2 DEF PassiveInv
  <2>3. QED BY <1>1, <2>1, <2>2 DEF PDNext
<1>4. GraceInv'
  <2>1. ASSUME NEW snapshot \in Snapshots, NEW spoke \in SUBSET Discoverable,
               PassivePoll(snapshot, spoke), unseen' = Missed(snapshot)
        PROVE  GraceInv'
    BY <1>1, <2>1, PollGrace
  <2>2. CASE (ClientStep \/ BoardStep \/ OtherStep) /\ UNCHANGED unseen
    BY <1>1, <2>2, OtherStepsGrace
  <2>3. CASE UNCHANGED <<vars, unseen>>
    BY <1>1, <2>3 DEF PassiveInv, GraceInv, Passive, vars
  <2>4. QED BY <1>1, <2>1, <2>2, <2>3 DEF PDNext
<1>5. QED BY <1>2, <1>3, <1>4 DEF PassiveInv

LEMMA PassiveInvCorrect == PDSpec => []PassiveInv
BY PassiveInvInit, PassiveInvStep, PTL DEF PDSpec

(* A passive session that holds a row has never been missed GracePolls     *)
(* times in a row, however its polls mix with hooks, aborts, rebinds and   *)
(* invalidations: the poll that completes the grace period takes it away.  *)
THEOREM BoundPassiveSessionsAreDropped == PDSpec => []BoundPassiveDropped
<1>1. PassiveInv => BoundPassiveDropped
  BY GracePollsAssumption
     DEF PassiveInv, GraceInv, BoundPassiveDropped, TypeOK
<1>2. QED BY PassiveInvCorrect, <1>1, PTL

(* Nothing forgets a session but its own abort, and a poll that is at      *)
(* least the GracePolls-th in a row to miss a passive session.             *)
LEMMA ForgottenInTime ==
    ASSUME PassiveInv, PDNext, NEW a \in DOMAIN registered \ DOMAIN registered'
    PROVE  Abort(a) \/ (Passive(a) /\ unseen'[a] = GracePolls)
<1>1. TypeOK /\ RowsInv /\ a \in Agents
  BY DEF PassiveInv, TypeOK
<1>2. CASE ClientStep \/ BoardStep \/ OtherStep
  <2>1. ASSUME NEW r \in Registrations, Register(r) PROVE FALSE
    BY <1>1, <2>1, RegistrationsAssumption, RegisterRows DEF RowsMoved
  <2>2. ASSUME NEW b \in Agents, Abort(b) PROVE Abort(a)
    <3>1. b = a
      BY <1>1, <2>2, AbortRows DEF RowsMoved
    <3>2. QED BY <2>2, <3>1
  <2>3. ASSUME \/ RowsMoved({}, {}, {})
               \/ \E sid \in Sids :
                     \/ RowRevoked(sid)
                     \/ RowGranted(Head(pending_board_sessions), sid)
        PROVE  FALSE
    BY <2>3 DEF RowsMoved, RowRevoked, RowGranted
  <2>4. QED BY <1>1, <1>2, <2>1, <2>2, <2>3, OtherRows
<1>3. ASSUME NEW snapshot \in Snapshots, NEW spoke \in SUBSET Discoverable,
             PassivePoll(snapshot, spoke), unseen' = Missed(snapshot)
      PROVE  Passive(a) /\ unseen'[a] = GracePolls
  <2>1. Forgettable(a, snapshot) /\ GraceOver(a)
    BY <1>1, <1>3, PollOnAgent
  <2>2. a \notin ToSet(pending_board_sessions)
    BY <1>1, <2>1, PendingSoundAsSet DEF RowsInv, Forgettable
  <2>3. unseen[a] = passive_missing_counts[a]
    BY <1>1, <2>1 DEF PassiveInv, GraceInv, Forgettable
  <2>4. /\ passive_missing_counts[a] \in 0 .. GracePolls - 1
        /\ GracePolls \in Nat
    BY <1>1, GracePollsAssumption DEF TypeOK
  <2>5. unseen'[a] = IF unseen[a] < GracePolls THEN unseen[a] + 1
                                               ELSE GracePolls
    BY <1>1, <1>3, <2>1, <2>2 DEF Missed, Forgettable
  <2>6. unseen'[a] = GracePolls
    BY <2>1, <2>3, <2>4, <2>5 DEF GraceOver
  <2>7. QED BY <2>1, <2>6 DEF Forgettable
<1>4. QED BY <1>2, <1>3 DEF PDNext

(* A session is forgotten by its own abort or by the poll that completes   *)
(* its grace period, never on the strength of a missed count left over     *)
(* from before a rediscovery, a hook or an invalidated sid.                *)
THEOREM DroppedOnlyAfterGrace == PDSpec => DroppedAfterGrace
<1>1. PassiveInv /\ [PDNext]_<<vars, unseen>>
         => [\A a \in DOMAIN registered \ DOMAIN registered' :
                Abort(a) \/ (Passive(a) /\ unseen'[a] = GracePolls)]_<<vars, unseen>>
  BY ForgottenInTime
<1>2. QED BY PassiveInvCorrect, <1>1, PTL DEF PDSpec, DroppedAfterGrace
=============================================================================
