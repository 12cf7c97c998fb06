------------------------ MODULE PermissionHookProofs ------------------------
(***************************************************************************)
(* Proofs about PermissionHook: for any number of hooks of any sessions,   *)
(* any request ids, shared or not, and whatever times out, fails or is     *)
(* restarted, and however long an answer travels, a hook prints only an    *)
(* answer the daemon got for its session after it asked, and no answer is  *)
(* printed twice.                                                          *)
(***************************************************************************)
EXTENDS PermissionHook, BridgeDaemonProofs

TransitRecord == [agent : Agents, sid : Sids, req : ReqIds, decision : Decisions]
AnswerRecord == [to : Agents \cup {NoAgent}, agent : Agents, req : ReqIds,
                 decision : Decisions]

HookTypes ==
    /\ setting \in Settings
    /\ pc \in [Hooks -> {"start", "register", "request", "poll", "asleep", "done"}]
    /\ line \in [Hooks -> {"none", "register", "request", "poll"}]
    /\ reply \in [Hooks -> Replies \cup {"none"} \cup Decisions]
    /\ output \in [Hooks -> {"none", "continue", "ask"} \cup Verdicts]
    /\ transit \in Seq(TransitRecord)
    /\ answers \in Seq(AnswerRecord)
    /\ asked \in [Hooks -> 0 .. Len(answers) + 1]

(* A hook waits for the line it wrote last, prints once, and reads nothing *)
(* after that; a line it leaves behind is one it gave up.                  *)
OneLineEach ==
    \A h \in Hooks :
        /\ line[h] # "none" => /\ reply[h] = "none"
                               /\ pc[h] \in {"done", line[h]}
        /\ pc[h] # "done" => output[h] = "none"
        /\ pc[h] = "done" => /\ reply[h] = "none"
                             /\ line[h] # "none" => output[h] = "continue"

(* The daemon got the decision d for the session and request of h, and got *)
(* it when h had asked.                                                    *)
Answered(h, d) ==
    \E i \in AnswersTo(HookAgent[h], HookReq[h]) :
        /\ i >= asked[h] /\ answers[i].decision = d
        /\ OwnReqId(h) => answers[i].agent = HookAgent[h]

(* The user only answers what a hook asked.                                *)
Prompted ==
    \A i \in DOMAIN transit :
        \E h \in Hooks : Same(h, transit[i].agent, transit[i].req)

(* Every decision on its way to h - kept by the daemon, in the response,   *)
(* or printed - is one the daemon got for h.                               *)
FreshFor(h) ==
    /\ reply[h] \in Decisions => Answered(h, reply[h])
    /\ LET d == Resolved(HookAgent[h], HookReq[h])
       IN  d # NoDecision => d \in Decisions /\ Answered(h, d)
    /\ output[h] \in Verdicts =>
          \E d \in Decisions : Verdict[d] = output[h] /\ Answered(h, d)

(* Every answer that amounts to v is used at most once: by a hook that     *)
(* printed it, by a response under way, or by the decision the daemon      *)
(* keeps.                                                                  *)
Users(a, req, v) ==
    {h \in Hooks : /\ Same(h, a, req)
                   /\ \/ output[h] = v
                      \/ reply[h] \in Decisions /\ Verdict[reply[h]] = v}

Stored(a, req, v) ==
    IF Resolved(a, req) \in Decisions /\ Verdict[Resolved(a, req)] = v THEN 1 ELSE 0

Given(a, req, v) ==
    {i \in AnswersTo(a, req) : Verdict[answers[i].decision] = v}

Counted ==
    \A a \in Agents, req \in ReqIds, v \in Verdicts :
        Cardinality(Users(a, req, v)) + Stored(a, req, v)
            <= Cardinality(Given(a, req, v))

Fresh == \A h \in Hooks : FreshFor(h)

HookInv ==
    /\ TypeOK /\ RowsInv
    /\ HookTypes /\ OneLineEach /\ Prompted /\ Fresh /\ Counted

---------------------------------------------------------------------------
(* The invariant of the daemon, under its hooks.                           *)
LEMMA HookFacts ==
    ASSUME HookTypes, NEW h \in Hooks
    PROVE  /\ HookAgent[h] \in Agents \ Terminals
           /\ HookReq[h] \in ReqIds
BY SettingsAssumption DEF HookTypes, HookAgent, HookReq

(* What a hook registers: index.js names its own kind, never a Terminal.   *)
HookLine(h) == [agent |-> HookAgent[h], from_launch |-> FALSE,
                attached_terminal |-> NoAgent]

LEMMA HookLineType ==
    ASSUME HookTypes, NEW h \in Hooks
    PROVE  HookLine(h) \in RegisterLines
BY HookFacts DEF HookLine, RegisterLines

(* A step of the hooks' world is a step of the daemon, the registration a  *)
(* hook asks for, a restart, or none of its business.                      *)
LEMMA HookSteps ==
    ASSUME HookInv, HookNext
    PROVE  \/ Next \/ UNCHANGED vars \/ DaemonRestarts
           \/ \E h \in Hooks : Register(HookLine(h))
<1>1. ASSUME NEW h \in Hooks,
             \/ HookStarts(h) \/ HookReads(h) \/ HookWakes(h) \/ HookTimesOut(h)
             \/ DeadlinePasses(h) \/ ConnectionFails(h)
      PROVE  UNCHANGED vars
  BY <1>1 DEF HookStarts, HookReads, HookWakes, HookTimesOut, DeadlinePasses,
              ConnectionFails, HookFails, HookProceeds, HookPolled, HookAlone
<1>2. ASSUME NEW h \in Hooks, DaemonHandles(h)
      PROVE  Next \/ Register(HookLine(h))
  <2>1. HookAgent[h] \in Agents /\ HookReq[h] \in ReqIds
    BY HookFacts DEF HookInv
  <2>2. CASE HandlesRegister(h)
    BY <2>2 DEF HandlesRegister, HookLine
  <2>3. CASE HandlesRequest(h)
    BY <2>1, <2>3 DEF HandlesRequest, Next, ClientStep
  <2>4. CASE HandlesPoll(h)
    BY <2>1, <2>4 DEF HandlesPoll, Next, ClientStep
  <2>5. CASE Refuses(h)
    BY <2>5 DEF Refuses, Next, ClientStep
  <2>6. QED BY <1>2, <2>2, <2>3, <2>4, <2>5 DEF DaemonHandles
<1>3. CASE AnswerArrives
  <2>1. PICK m : /\ m = Head(transit) /\ m \in TransitRecord
                 /\ \/ PermissionRes(m.sid, m.req, m.decision)
                    \/ OtherBoardMessage
    BY <1>3, HeadTailProperties DEF AnswerArrives, HookInv, HookTypes
  <2>2. QED BY <2>1 DEF TransitRecord, Next, BoardStep
<1>4. CASE Others
  BY <1>4 DEF Others, Next, ClientStep, BoardStep, OtherStep
<1>5. CASE UserAnswers \/ AnswerLost
  BY <1>5 DEF UserAnswers, AnswerLost
<1>6. QED BY <1>1, <1>2, <1>3, <1>4, <1>5 DEF HookNext

LEMMA RestartType ==
    ASSUME TypeOK, DaemonRestarts
    PROVE  TypeOK' /\ RowsInv' /\ Forgets
<1>1. DOMAIN registered' = {} /\ pending_board_sessions' = <<>>
  BY DEF DaemonRestarts, Without, TypeOK
<1>2. AgentsTypeOK'
  <2>1. passive_missing_counts' \in [Agents -> 0 .. GracePolls - 1]
    BY GracePollsAssumption DEF DaemonRestarts
  <2>2. TableOK(registered')
    BY <1>1 DEF DaemonRestarts, Without, TableOK
  <2>3. focused_board_sid' = NoSid
    BY DEF DaemonRestarts
  <2>4. QED BY <1>1, <2>1, <2>2, <2>3, EmptySeq DEF AgentsTypeOK, TableOK
<1>3. LinkTypeOK'
  <2>1. replying' \in 0 .. MaxClients
    BY BoundsAssumption DEF DaemonRestarts
  <2>2. QED BY <2>1, EmptySeq DEF DaemonRestarts, LinkTypeOK
<1>4. RowsInv'
  BY <1>1 DEF RowsInv, SidUnique, PendingSound, TerminalsHaveNoRow, ToSet
<1>5. Forgets
  BY <1>1, SameDecisions
<1>6. QED BY <1>2, <1>3, <1>4, <1>5, TypeParts

LEMMA DaemonInvStep ==
    ASSUME HookInv, HookNext
    PROVE  TypeOK' /\ RowsInv'
<1>1. TypeOK /\ RowsInv
  BY DEF HookInv
<1>2. CASE Next \/ UNCHANGED vars
  BY <1>1, <1>2, TypeStep, RowsStep
<1>3. CASE DaemonRestarts
  BY <1>1, <1>3, RestartType
<1>4. ASSUME NEW h \in Hooks, Register(HookLine(h))
      PROVE  TypeOK' /\ RowsInv'
  <2>1. HookLine(h) \in RegisterLines
    BY HookLineType DEF HookInv
  <2>2. TypeOK'
    BY <1>1, <1>4, <2>1, RegisterType
  <2>3. RowsInv'
    BY <1>1, <1>4, <2>1, RegisterRows, MovedKeepsRows
  <2>4. QED BY <2>2, <2>3
<1>5. QED BY <1>2, <1>3, <1>4, HookSteps

---------------------------------------------------------------------------
(* One line at a time, one output.                                         *)
HookShape == HookTypes /\ OneLineEach

LEMMA WritesShape ==
    ASSUME HookShape, NEW h \in Hooks, pc[h] # "done",
           NEW kind \in {"register", "request", "poll"}, Writes(h, kind),
           UNCHANGED <<setting, userVars, asked>>
    PROVE  HookShape'
<1>1. HookTypes'
  BY DEF HookShape, HookTypes, Writes, userVars
<1>2. OneLineEach'
  BY DEF HookShape, HookTypes, OneLineEach, Writes
<1>3. QED BY <1>1, <1>2 DEF HookShape

(* A hook ends with its output; unless it gave up, no line of it is left.  *)
LEMMA EndsShape ==
    ASSUME HookShape, NEW h \in Hooks, pc[h] # "done",
           NEW out \in {"continue", "ask"} \cup Verdicts, Ends(h, out),
           line[h] # "none" => out = "continue",
           UNCHANGED <<setting, userVars, asked>>
    PROVE  HookShape'
<1>1. HookTypes'
  BY DEF HookShape, HookTypes, Ends, userVars
<1>2. OneLineEach'
  BY DEF HookShape, HookTypes, OneLineEach, Ends
<1>3. QED BY <1>1, <1>2 DEF HookShape

LEMMA HookAloneShape ==
    ASSUME HookShape, NEW h \in Hooks,
           \/ HookStarts(h) \/ HookReads(h) \/ HookWakes(h) \/ HookTimesOut(h)
           \/ DeadlinePasses(h) \/ ConnectionFails(h)
    PROVE  HookShape'
<1>1. /\ UNCHANGED <<setting, userVars, asked>>
      /\ UNCHANGED <<transit, answers>>
      /\ reply[h] # "none" => line[h] = "none" /\ pc[h] # "done"
      /\ pc[h] \in {"start", "asleep"} => line[h] = "none"
  BY DEF HookStarts, HookReads, HookWakes, HookTimesOut, DeadlinePasses,
         ConnectionFails, HookFails, HookProceeds, HookPolled, HookAlone,
         HookShape, HookTypes, OneLineEach, userVars
<1>2. CASE HookStarts(h)
  BY <1>1, <1>2, WritesShape DEF HookStarts
<1>3. CASE HookFails(h)
  BY <1>1, <1>3, EndsShape DEF HookFails
<1>4. CASE HookProceeds(h)
  BY <1>1, <1>4, WritesShape DEF HookProceeds
<1>5. CASE HookPolled(h)
  <2>1. pc[h] # "done" /\ (reply[h] = "none" \/ line[h] = "none")
    BY <1>1, <1>5 DEF HookPolled
  <2>2. CASE reply[h] \in Decisions /\ Ends(h, Verdict[reply[h]])
    <3>1. Verdict[reply[h]] \in Verdicts /\ reply[h] # "none"
      BY <2>2, HooksAssumption, RepliesAssumption
    <3>2. QED BY <1>1, <2>1, <2>2, <3>1, EndsShape
  <2>3. CASE reply[h] = "gone" /\ Ends(h, "ask")
    BY <1>1, <2>1, <2>3, EndsShape
  <2>4. CASE /\ reply[h] \in {"pending", "ended"}
             /\ pc' = [pc EXCEPT ![h] = "asleep"]
             /\ reply' = [reply EXCEPT ![h] = "none"]
             /\ UNCHANGED <<line, expired, output>>
    <3>1. HookTypes'
      BY <1>1, <2>4 DEF HookShape, HookTypes
    <3>2. OneLineEach'
      BY <1>1, <2>1, <2>4 DEF HookShape, HookTypes, OneLineEach
    <3>3. QED BY <3>1, <3>2 DEF HookShape
  <2>5. QED BY <1>5, <2>2, <2>3, <2>4 DEF HookPolled
<1>6. CASE HookWakes(h)
  BY <1>1, <1>6, WritesShape, EndsShape DEF HookWakes
<1>7. CASE HookTimesOut(h)
  BY <1>1, <1>7, EndsShape DEF HookTimesOut
<1>8. CASE DeadlinePasses(h)
  BY <1>1, <1>8 DEF DeadlinePasses, HookShape, HookTypes, OneLineEach
<1>9. CASE ConnectionFails(h)
  <2>1. HookTypes'
    BY <1>1, <1>9 DEF ConnectionFails, HookShape, HookTypes, Replies
  <2>2. OneLineEach'
    BY <1>1, <1>9 DEF ConnectionFails, HookShape, HookTypes, OneLineEach
  <2>3. QED BY <2>1, <2>2 DEF HookShape
<1>10. QED BY <1>2, <1>3, <1>4, <1>5, <1>6, <1>7, <1>8, <1>9 DEF HookReads

LEMMA PollReplyType ==
    ASSUME TypeOK, NEW a \in DOMAIN registered, NEW req \in ReqIds
    PROVE  PollReply(a, req) \in Replies \cup Decisions
BY RecordType DEF PollReply, RegisteredAgent, Replies

LEMMA DaemonHandlesShape ==
    ASSUME TypeOK, HookShape, NEW h \in Hooks, DaemonHandles(h)
    PROVE  HookShape'
<1>1. PICK r \in Replies \cup Decisions : Responds(h, r)
  <2>1. CASE HandlesPoll(h)
    BY <2>1, PollReplyType, HookFacts DEF HandlesPoll, PermissionPoll, HookShape
  <2>2. CASE HandlesRegister(h) \/ HandlesRequest(h) \/ Refuses(h)
    BY <2>2 DEF HandlesRegister, HandlesRequest, Refuses, Replies
  <2>3. QED BY <2>1, <2>2 DEF DaemonHandles
<1>2. asked' \in [Hooks -> 0 .. Len(answers) + 1]
  <2>1. Len(answers) + 1 \in 0 .. Len(answers) + 1
    BY LenProperties DEF HookShape, HookTypes
  <2>2. QED BY <2>1 DEF DaemonHandles, HandlesRegister, HandlesRequest,
                        HandlesPoll, Refuses, HookShape, HookTypes
<1>3. HookTypes'
  BY <1>1, <1>2 DEF Responds, HookShape, HookTypes, userVars
<1>4. OneLineEach'
  BY <1>1 DEF Responds, HookShape, HookTypes, OneLineEach
<1>5. QED BY <1>3, <1>4 DEF HookShape

LEMMA RowOwnerType ==
    ASSUME TypeOK, NEW sid
    PROVE  RowOwner(sid) \in Agents \cup {NoAgent}
<1>1. Owners(sid) \subseteq Agents
  BY DEF Owners, TypeOK
<1>2. QED BY <1>1 DEF RowOwner

LEMMA ShapeStep ==
    ASSUME TypeOK, HookShape, HookNext
    PROVE  HookShape'
<1>1. ASSUME NEW h \in Hooks,
             \/ HookStarts(h) \/ HookReads(h) \/ HookWakes(h) \/ HookTimesOut(h)
             \/ DeadlinePasses(h) \/ DaemonHandles(h) \/ ConnectionFails(h)
      PROVE  HookShape'
  BY <1>1, HookAloneShape, DaemonHandlesShape
<1>2. CASE UserAnswers
  <2>1. PICK a \in DOMAIN registered, req \in ReqIds, d \in Decisions :
           /\ registered[a].board_sid # NoSid
           /\ transit' = Append(transit, [agent |-> a,
                                          sid |-> registered[a].board_sid,
                                          req |-> req, decision |-> d])
    BY <1>2 DEF UserAnswers
  <2>2. UNCHANGED <<hookVars, answers, asked>>
    BY <1>2 DEF UserAnswers
  <2>3. a \in Agents /\ registered[a].board_sid \in Sids
    BY <2>1, RecordType DEF RegisteredAgent
  <2>4. transit' \in Seq(TransitRecord)
    BY <2>1, <2>3, AppendProperties DEF TransitRecord, HookShape, HookTypes
  <2>5. HookTypes'
    BY <2>2, <2>4 DEF HookShape, HookTypes, hookVars
  <2>6. QED BY <2>2, <2>5 DEF HookShape, OneLineEach, hookVars
<1>6. ASSUME NEW to \in Agents \cup {NoAgent}, transit # <<>>,
             EndsUp(Head(transit), to)
      PROVE  HookShape'
  <2>1. /\ answers' = Append(answers, [to |-> to, agent |-> Head(transit).agent,
                                       req |-> Head(transit).req,
                                       decision |-> Head(transit).decision])
        /\ transit' = Tail(transit)
        /\ UNCHANGED <<hookVars, asked>>
    BY <1>6 DEF EndsUp
  <2>2. Head(transit) \in TransitRecord /\ transit' \in Seq(TransitRecord)
    BY <1>6, <2>1, HeadTailProperties DEF HookShape, HookTypes
  <2>3. /\ answers' \in Seq(AnswerRecord)
        /\ Len(answers') = Len(answers) + 1 /\ Len(answers) \in Nat
    BY <2>1, <2>2, AppendProperties, LenProperties
       DEF TransitRecord, AnswerRecord, HookShape, HookTypes
  <2>4. 0 .. Len(answers) + 1 \subseteq 0 .. Len(answers') + 1
    BY <2>3
  <2>5. HookTypes'
    BY <2>1, <2>2, <2>3, <2>4 DEF HookShape, HookTypes, hookVars
  <2>6. QED BY <2>1, <2>5 DEF HookShape, OneLineEach, hookVars
<1>7. CASE AnswerArrives \/ AnswerLost
  <2>1. CASE AnswerLost
    BY <1>6, <2>1 DEF AnswerLost
  <2>2. CASE AnswerArrives
    BY <1>6, <2>2, RowOwnerType DEF AnswerArrives
  <2>3. QED BY <1>7, <2>1, <2>2
<1>3. CASE Others
  BY <1>3 DEF Others, hookVars, userVars, HookShape, HookTypes, OneLineEach
<1>4. CASE DaemonRestarts
  <2>1. PICK r \in [Hooks -> {"ended", "reset"}] :
           reply' = [h \in Hooks |-> IF line[h] # "none" /\ pc[h] # "done"
                                     THEN r[h] ELSE reply[h]]
    BY <1>4 DEF DaemonRestarts
  <2>2. /\ line' = [h \in Hooks |-> "none"]
        /\ UNCHANGED <<setting, pc, expired, output, transit, answers, asked>>
    BY <1>4 DEF DaemonRestarts, userVars
  <2>3. HookTypes'
    BY <2>1, <2>2 DEF HookShape, HookTypes, Replies
  <2>4. OneLineEach'
    BY <2>1, <2>2 DEF HookShape, HookTypes, OneLineEach
  <2>5. QED BY <2>3, <2>4 DEF HookShape
<1>5. QED BY <1>1, <1>2, <1>3, <1>4, <1>7 DEF HookNext

---------------------------------------------------------------------------
(* Decisions on their way.  What h holds after a step it held before, or   *)
(* printed from the response it had read.                                  *)
Moves(h) ==
    /\ reply'[h] \in Decisions => reply'[h] = reply[h]
    /\ output'[h] \in Verdicts =>
          \/ output'[h] = output[h]
          \/ reply[h] \in Decisions /\ output'[h] = Verdict[reply[h]]

HistoryKept == /\ DOMAIN answers \subseteq DOMAIN answers'
               /\ \A i \in DOMAIN answers : answers'[i] = answers[i]

LEMMA AnsweredKept ==
    ASSUME NEW h \in Hooks, NEW d, Answered(h, d), UNCHANGED setting,
           asked'[h] = asked[h], HistoryKept
    PROVE  Answered(h, d)'
BY DEF Answered, AnswersTo, OwnReqId, HistoryKept, HookAgent, HookReq

LEMMA FreshKept ==
    ASSUME HookInv, NEW h \in Hooks, Moves(h), Forgets, UNCHANGED setting,
           asked'[h] = asked[h], HistoryKept
    PROVE  FreshFor(h)'
<1>1. FreshFor(h) /\ HookAgent[h] \in Agents /\ HookReq[h] \in ReqIds
  BY HookFacts DEF HookInv, Fresh
<1>2. reply'[h] \in Decisions => Answered(h, reply[h])'
  BY <1>1, AnsweredKept DEF FreshFor, Moves
<1>3. ASSUME NEW d, d = Resolved(HookAgent[h], HookReq[h])', d # NoDecision
      PROVE  d \in Decisions /\ Answered(h, d)'
  <2>1. UNCHANGED <<HookAgent, HookReq>>
    BY DEF HookAgent, HookReq
  <2>2. Resolved(HookAgent[h], HookReq[h])' \in
           {Resolved(HookAgent[h], HookReq[h]), NoDecision}
    BY <1>1, <2>1 DEF Forgets, Resolved
  <2>3. QED BY <1>1, <1>3, <2>2, AnsweredKept DEF FreshFor
<1>4. output'[h] \in Verdicts =>
         \E d \in Decisions : Verdict[d] = output'[h] /\ Answered(h, d)'
  BY <1>1, AnsweredKept DEF FreshFor, Moves
<1>5. QED BY <1>2, <1>3, <1>4 DEF FreshFor

(* Only a hook's reading of a decision moves one; nothing makes one up.    *)
LEMMA HookAloneMoves ==
    ASSUME HookShape, NEW h \in Hooks,
           \/ HookStarts(h) \/ HookReads(h) \/ HookWakes(h) \/ HookTimesOut(h)
           \/ DeadlinePasses(h) \/ ConnectionFails(h)
    PROVE  \A g \in Hooks : Moves(g)
<1>1. "none" \notin Decisions /\ "reset" \notin Decisions
  BY RepliesAssumption DEF Replies
<1>2. "continue" \notin Verdicts /\ "ask" \notin Verdicts
  BY DEF Verdicts
<1>3. ASSUME NEW out, Ends(h, out),
             out \in Verdicts => reply[h] \in Decisions /\ out = Verdict[reply[h]]
      PROVE  \A g \in Hooks : Moves(g)
  BY <1>1, <1>3 DEF Ends, Moves, HookShape, HookTypes
<1>4. ASSUME NEW kind, Writes(h, kind)
      PROVE  \A g \in Hooks : Moves(g)
  BY <1>1, <1>4 DEF Writes, Moves, HookShape, HookTypes
<1>5. CASE HookStarts(h) \/ HookProceeds(h)
  BY <1>4, <1>5 DEF HookStarts, HookProceeds
<1>6. CASE HookFails(h) \/ HookTimesOut(h)
  BY <1>2, <1>3, <1>6 DEF HookFails, HookTimesOut
<1>7. CASE HookWakes(h)
  BY <1>2, <1>3, <1>4, <1>7 DEF HookWakes
<1>8. CASE HookPolled(h)
  <2>1. CASE reply[h] \in Decisions /\ Ends(h, Verdict[reply[h]])
    BY <1>3, <2>1
  <2>2. CASE Ends(h, "ask")
    BY <1>2, <1>3, <2>2
  <2>3. CASE /\ reply' = [reply EXCEPT ![h] = "none"] /\ UNCHANGED output
    BY <1>1, <2>3 DEF Moves, HookShape, HookTypes
  <2>4. QED BY <1>8, <2>1, <2>2, <2>3 DEF HookPolled
<1>9. CASE DeadlinePasses(h)
  BY <1>9 DEF DeadlinePasses, Moves
<1>10. CASE ConnectionFails(h)
  BY <1>1, <1>10 DEF ConnectionFails, Moves, HookShape, HookTypes
<1>11. QED BY <1>5, <1>6, <1>7, <1>8, <1>9, <1>10 DEF HookReads

(* A response that is no decision.                                         *)
LEMMA RespondsMoves ==
    ASSUME HookShape, NEW h \in Hooks, NEW r \in Replies, Responds(h, r)
    PROVE  \A g \in Hooks : Moves(g)
BY RepliesAssumption DEF Responds, Moves, HookShape, HookTypes

LEMMA RestartMoves ==
    ASSUME HookShape, DaemonRestarts
    PROVE  \A g \in Hooks : Moves(g)
<1>1. PICK r \in [Hooks -> {"ended", "reset"}] :
         reply' = [h \in Hooks |-> IF line[h] # "none" /\ pc[h] # "done"
                                   THEN r[h] ELSE reply[h]]
  BY DEF DaemonRestarts
<1>2. "ended" \notin Decisions /\ "reset" \notin Decisions
  BY RepliesAssumption DEF Replies
<1>3. UNCHANGED output
  BY DEF DaemonRestarts
<1>4. QED BY <1>1, <1>2, <1>3 DEF Moves

---------------------------------------------------------------------------
(* Counting.                                                               *)
LEMMA CountTypes ==
    ASSUME HookTypes, NEW a \in Agents, NEW req \in ReqIds, NEW v \in Verdicts
    PROVE  /\ IsFiniteSet(Users(a, req, v)) /\ IsFiniteSet(Given(a, req, v))
           /\ Cardinality(Users(a, req, v)) \in Nat
           /\ Cardinality(Given(a, req, v)) \in Nat
<1>1. IsFiniteSet(Users(a, req, v))
  <2>1. IsFiniteSet(Hooks)
    BY HooksAssumption
  <2>2. Users(a, req, v) \in SUBSET Hooks
    BY DEF Users
  <2>3. QED BY <2>1, <2>2, FS_Subset
<1>2. IsFiniteSet(Given(a, req, v))
  <2>1. DOMAIN answers = 1 .. Len(answers) /\ Len(answers) \in Nat
    BY LenProperties DEF HookTypes
  <2>2. Given(a, req, v) \in SUBSET (1 .. Len(answers))
    BY <2>1 DEF Given, AnswersTo
  <2>3. IsFiniteSet(1 .. Len(answers))
    BY <2>1, FS_Interval
  <2>4. QED BY <2>2, <2>3, FS_Subset
<1>3. QED BY <1>1, <1>2, FS_CardinalityType

(* Steps that give no session an answer, and move none to another hook.    *)
GivenKept ==
    \A a \in Agents, req \in ReqIds, v \in Verdicts :
        Given(a, req, v)' = Given(a, req, v)

LEMMA SameGiven ==
    ASSUME UNCHANGED answers
    PROVE  GivenKept
BY DEF GivenKept, Given, AnswersTo

LEMMA CountsKept ==
    ASSUME HookInv, \A g \in Hooks : Moves(g), Forgets,
           UNCHANGED setting, GivenKept
    PROVE  Counted'
<1>1. SUFFICES ASSUME NEW a \in Agents, NEW req \in ReqIds, NEW v \in Verdicts
               PROVE  Cardinality(Users(a, req, v)') + Stored(a, req, v)'
                         <= Cardinality(Given(a, req, v)')
  BY DEF Counted
<1>2. Cardinality(Users(a, req, v)) + Stored(a, req, v)
         <= Cardinality(Given(a, req, v))
  BY DEF HookInv, Counted
<1>3. Given(a, req, v)' = Given(a, req, v)
  BY DEF GivenKept
<1>4. Users(a, req, v)' \subseteq Users(a, req, v)
  BY DEF Users, Same, HookAgent, HookReq, Moves
<1>5. /\ IsFiniteSet(Users(a, req, v))
      /\ Cardinality(Users(a, req, v)) \in Nat
      /\ Cardinality(Given(a, req, v)) \in Nat
      /\ Stored(a, req, v) \in {0, 1} /\ Stored(a, req, v)' \in {0, 1}
  BY CountTypes DEF HookInv, Stored
<1>6. Stored(a, req, v)' <= Stored(a, req, v)
  BY NoDecisionAssumption DEF Stored, Forgets
<1>7. /\ Cardinality(Users(a, req, v)') <= Cardinality(Users(a, req, v))
      /\ Cardinality(Users(a, req, v)') \in Nat
  BY <1>4, <1>5, FS_Subset, FS_CardinalityType
<1>8. QED BY <1>2, <1>3, <1>5, <1>6, <1>7

(* permission.poll hands the decision over: what the daemon forgets, the   *)
(* response of the one hook that asked carries.                            *)
LEMMA PollStep ==
    ASSUME HookInv, NEW h \in Hooks, HandlesPoll(h)
    PROVE  Fresh' /\ Counted'
<1>0. PICK a \in Agents, q \in ReqIds : a = HookAgent[h] /\ q = HookReq[h]
  BY HookFacts DEF HookInv
<1>00. PICK d : d = Resolved(a, q)
  OBVIOUS
<1> DEFINE r == PollReply(a, q)
<1>1. /\ a \in DOMAIN registered
      /\ HookReq'[h] = q /\ UNCHANGED <<HookAgent, HookReq>>
      /\ Forgets /\ Resolved(a, q)' = NoDecision
      /\ Responds(h, r) /\ UNCHANGED <<setting, asked, answers>>
      /\ d \in Decisions \cup {NoDecision}
  <2>1. /\ PermissionPoll(a, q) /\ Responds(h, r)
        /\ UNCHANGED <<setting, asked, answers>>
    BY <1>0 DEF HandlesPoll, Responds, userVars
  <2>2. TypeOK
    BY DEF HookInv
  <2>3. Forgets /\ Resolved(a, q)' = NoDecision
    BY <2>1, <2>2, PermissionPollForgets
  <2>4. d \in Decisions \cup {NoDecision}
    BY <1>00, <2>2, ResolvedType
  <2>5. a \in DOMAIN registered
    BY <2>1 DEF PermissionPoll
  <2>6. HookReq'[h] = q /\ UNCHANGED <<HookAgent, HookReq>>
    BY <1>0, <2>1 DEF HookAgent, HookReq
  <2>7. QED BY <2>1, <2>3, <2>4, <2>5, <2>6
<1>2. HistoryKept
  BY <1>1 DEF HistoryKept
<1>3. CASE d = NoDecision
  <2>1. r \in Replies
    BY <1>00, <1>1, <1>3 DEF PollReply, Replies, Resolved
  <2>2. \A g \in Hooks : Moves(g)
    BY <1>1, <2>1, RespondsMoves DEF HookInv, HookShape
  <2>3. QED BY <1>1, <1>2, <2>2, FreshKept, SameGiven, CountsKept DEF Fresh
<1>4. CASE d \in Decisions
  <2>1. r = d
    BY <1>00, <1>1, <1>4, NoDecisionAssumption DEF PollReply, Resolved
  <2>2. /\ \A g \in Hooks \ {h} : reply'[g] = reply[g]
        /\ reply'[h] \in {"none", d}
        /\ output' = output
    BY <1>1, <2>1 DEF Responds, HookInv, HookTypes
  <2>3. ASSUME NEW g \in Hooks \ {h} PROVE FreshFor(g)'
    BY <1>1, <1>2, <2>2, FreshKept DEF Moves
  <2>4. FreshFor(h)'
    <3>1. FreshFor(h) /\ "none" \notin Decisions
      BY RepliesAssumption DEF HookInv, Fresh
    <3>2. Answered(h, d)'
      <4>1. Answered(h, d)
        BY <1>0, <1>00, <1>4, <3>1, NoDecisionAssumption DEF FreshFor
      <4>2. QED BY <1>1, <1>2, <4>1, AnsweredKept
    <3>3. reply'[h] \in Decisions => Answered(h, reply[h])'
      BY <2>2, <3>1, <3>2 DEF Answered
    <3>4. Resolved(HookAgent[h], HookReq[h])' = NoDecision
      BY <1>0, <1>1 DEF Resolved
    <3>5. output'[h] \in Verdicts =>
             \E e \in Decisions : Verdict[e] = output'[h] /\ Answered(h, e)'
      BY <1>1, <1>2, <2>2, <3>1, AnsweredKept DEF FreshFor
    <3>6. QED BY <3>3, <3>4, <3>5 DEF FreshFor
  <2>5. Counted'
    <3>1. SUFFICES ASSUME NEW b \in Agents, NEW req \in ReqIds, NEW v \in Verdicts
                   PROVE  Cardinality(Users(b, req, v)') + Stored(b, req, v)'
                             <= Cardinality(Given(b, req, v)')
      BY DEF Counted
    <3>2. /\ Cardinality(Users(b, req, v)) + Stored(b, req, v)
                <= Cardinality(Given(b, req, v))
          /\ Given(b, req, v)' = Given(b, req, v)
          /\ IsFiniteSet(Users(b, req, v))
          /\ Cardinality(Users(b, req, v)) \in Nat
          /\ Cardinality(Given(b, req, v)) \in Nat
      BY <1>1, CountTypes DEF HookInv, Counted, Given, AnswersTo
    <3>3. CASE b = a /\ req = q /\ Verdict[d] = v
      <4>1. Users(b, req, v)' \subseteq Users(b, req, v) \cup {h}
        BY <1>1, <2>2 DEF Users, Same
      <4>2. Cardinality(Users(b, req, v)') <= Cardinality(Users(b, req, v)) + 1
        <5>1. /\ IsFiniteSet(Users(b, req, v) \cup {h})
              /\ Cardinality(Users(b, req, v) \cup {h})
                    <= Cardinality(Users(b, req, v)) + 1
          <6>1. IsFiniteSet(Users(b, req, v)) /\ Cardinality(Users(b, req, v)) \in Nat
            BY <3>2
          <6>2. /\ IsFiniteSet(Users(b, req, v) \cup {h})
                /\ Cardinality(Users(b, req, v) \cup {h}) =
                      IF h \in Users(b, req, v) THEN Cardinality(Users(b, req, v))
                      ELSE Cardinality(Users(b, req, v)) + 1
            BY <6>1, FS_AddElement
          <6>3. QED BY <6>1, <6>2
        <5>2. /\ Cardinality(Users(b, req, v)')
                    <= Cardinality(Users(b, req, v) \cup {h})
              /\ IsFiniteSet(Users(b, req, v)')
          BY <4>1, <5>1, FS_Subset
        <5>3. /\ Cardinality(Users(b, req, v)') \in Nat
              /\ Cardinality(Users(b, req, v) \cup {h}) \in Nat
          BY <5>1, <5>2, FS_CardinalityType
        <5>4. QED BY <3>2, <5>1, <5>2, <5>3
      <4>3. Cardinality(Users(b, req, v)') \in Nat
        BY <3>2, <4>1, FS_AddElement, FS_Subset, FS_CardinalityType
      <4>4. Stored(b, req, v) = 1 /\ Stored(b, req, v)' = 0
        BY <1>00, <1>1, <1>4, <3>3, NoDecisionAssumption DEF Stored
      <4>5. QED BY <3>2, <4>2, <4>3, <4>4
    <3>4. CASE ~(b = a /\ req = q /\ Verdict[d] = v)
      <4>1. Users(b, req, v)' \subseteq Users(b, req, v)
        BY <1>0, <1>1, <2>2, <3>4, RepliesAssumption DEF Users, Same
      <4>2. /\ Cardinality(Users(b, req, v)') <= Cardinality(Users(b, req, v))
            /\ Cardinality(Users(b, req, v)') \in Nat
        BY <3>2, <4>1, FS_Subset, FS_CardinalityType
      <4>3. /\ Stored(b, req, v)' <= Stored(b, req, v)
            /\ Stored(b, req, v) \in {0, 1} /\ Stored(b, req, v)' \in {0, 1}
        BY <1>1, NoDecisionAssumption DEF Stored, Forgets
      <4>4. QED BY <3>2, <4>2, <4>3
    <3>5. QED BY <3>3, <3>4
  <2>6. QED BY <2>3, <2>4, <2>5 DEF Fresh
<1>5. QED BY <1>1, <1>3, <1>4

(* A hook's request clears the decision kept under its id: what it polls   *)
(* from then on was answered after it asked.                               *)
LEMMA RequestStep ==
    ASSUME HookInv, NEW h \in Hooks, HandlesRequest(h)
    PROVE  Fresh' /\ Counted'
<1>0. PICK a \in Agents, q \in ReqIds : a = HookAgent[h] /\ q = HookReq[h]
  BY HookFacts DEF HookInv
<1>1. /\ Forgets /\ Resolved(a, q)' = NoDecision
      /\ Responds(h, "ok") /\ UNCHANGED <<setting, answers>>
      /\ \A g \in Hooks \ {h} : asked'[g] = asked[g]
  <2>1. PermissionRequest(a, q) /\ TypeOK
    BY <1>0 DEF HandlesRequest, HookInv
  <2>2. Forgets /\ Resolved(a, q)' = NoDecision
    BY <2>1, PermissionRequestForgets
  <2>3. QED BY <2>2 DEF HandlesRequest, Responds, userVars, HookInv, HookTypes
<1>2. \A g \in Hooks : Moves(g)
  BY <1>1, RespondsMoves DEF Replies, HookInv, HookShape
<1>3. HistoryKept
  BY <1>1 DEF HistoryKept
<1>4. ASSUME NEW g \in Hooks \ {h} PROVE FreshFor(g)'
  BY <1>1, <1>2, <1>3, <1>4, FreshKept
<1>5. FreshFor(h)'
  <2>1. output[h] \notin Verdicts
    BY DEF HandlesRequest, HookInv, OneLineEach, HookTypes, Verdicts
  <2>2. output'[h] \notin Verdicts /\ reply'[h] \notin Decisions
    BY <1>1, <2>1, RepliesAssumption
       DEF Responds, Replies, HookInv, HookTypes
  <2>3. HookAgent'[h] = a /\ HookReq'[h] = q
    BY <1>0, <1>1 DEF HookAgent, HookReq
  <2>4. Resolved(HookAgent[h], HookReq[h])' = NoDecision
    BY <1>1, <2>3 DEF Resolved
  <2>5. QED BY <2>2, <2>4 DEF FreshFor
<1>6. Counted'
  BY <1>1, <1>2, SameGiven, CountsKept
<1>7. QED BY <1>4, <1>5, <1>6 DEF Fresh

(* An answer arrives: one more in the history.                             *)
LEMMA AnswerAdded ==
    ASSUME HookInv, transit # <<>>, NEW to \in Agents \cup {NoAgent},
           EndsUp(Head(transit), to)
    PROVE  LET new == Len(answers) + 1 IN
           /\ Len(answers) \in Nat
           /\ Head(transit) \in TransitRecord
           /\ DOMAIN answers' = DOMAIN answers \cup {new}
           /\ new \notin DOMAIN answers
           /\ answers'[new] = [to |-> to, agent |-> Head(transit).agent,
                               req |-> Head(transit).req,
                               decision |-> Head(transit).decision]
           /\ HistoryKept
           /\ UNCHANGED <<setting, reply, output, asked>>
<1> DEFINE new == Len(answers) + 1
           record == [to |-> to, agent |-> Head(transit).agent,
                      req |-> Head(transit).req,
                      decision |-> Head(transit).decision]
<1>1. Head(transit) \in TransitRecord
  BY HeadTailProperties DEF HookInv, HookTypes
<1>2. record \in AnswerRecord /\ answers \in Seq(AnswerRecord)
  BY <1>1 DEF TransitRecord, AnswerRecord, HookInv, HookTypes
<1>3. /\ answers' = Append(answers, record)
      /\ UNCHANGED <<setting, reply, output, asked>>
  BY DEF EndsUp, hookVars
<1>4. /\ Len(answers) \in Nat /\ DOMAIN answers = 1 .. Len(answers)
      /\ DOMAIN answers' = 1 .. new
      /\ answers'[new] = record
      /\ \A i \in 1 .. Len(answers) : answers'[i] = answers[i]
  BY <1>2, <1>3, LenProperties, AppendProperties
<1>5. QED BY <1>1, <1>3, <1>4 DEF HistoryKept

(* An answer the daemon has no use for moves no decision.                  *)
LEMMA UselessAnswer ==
    ASSUME HookInv, transit # <<>>, EndsUp(Head(transit), NoAgent), Forgets
    PROVE  Fresh' /\ Counted'
<1> DEFINE new == Len(answers) + 1
<1>1. /\ DOMAIN answers' = DOMAIN answers \cup {new}
      /\ answers'[new].to = NoAgent
      /\ HistoryKept
      /\ UNCHANGED <<setting, reply, output, asked>>
  <2>1. NoAgent \in Agents \cup {NoAgent}
    OBVIOUS
  <2>2. /\ DOMAIN answers' = DOMAIN answers \cup {new}
        /\ answers'[new] = [to |-> NoAgent, agent |-> Head(transit).agent,
                            req |-> Head(transit).req,
                            decision |-> Head(transit).decision]
        /\ HistoryKept
        /\ UNCHANGED <<setting, reply, output, asked>>
    BY <2>1, AnswerAdded
  <2>3. QED BY <2>2
<1>2. \A g \in Hooks : Moves(g)
  BY <1>1 DEF Moves
<1>3. GivenKept
  <2>1. ASSUME NEW a \in Agents, NEW req \in ReqIds, NEW v \in Verdicts
        PROVE  Given(a, req, v)' = Given(a, req, v)
    BY <1>1, NoAgentAssumption DEF Given, AnswersTo, HistoryKept
  <2>2. QED BY <2>1 DEF GivenKept
<1>4. QED BY <1>1, <1>2, <1>3, FreshKept, CountsKept DEF Fresh

(* One it keeps is new to every hook of the session, and counts for the    *)
(* one decision it leaves with the daemon.  A hook with a request id of    *)
(* its own is the one the user answered.                                   *)
LEMMA KeptAnswer ==
    ASSUME HookInv, transit # <<>>, NEW a \in DOMAIN registered,
           registered[a].board_sid # NoSid,
           PermissionRes(registered[a].board_sid, Head(transit).req,
                         Head(transit).decision),
           EndsUp(Head(transit), a)
    PROVE  Fresh' /\ Counted'
<1> DEFINE new == Len(answers) + 1
<1>0. PICK req, d : req = Head(transit).req /\ d = Head(transit).decision
  OBVIOUS
<1>1. a \in Agents
  BY RecordType DEF HookInv
<1>3. /\ Len(answers) \in Nat
      /\ Head(transit) \in TransitRecord
      /\ DOMAIN answers' = DOMAIN answers \cup {new}
      /\ new \notin DOMAIN answers
      /\ answers'[new] = [to |-> a, agent |-> Head(transit).agent, req |-> req,
                          decision |-> d]
      /\ HistoryKept
      /\ UNCHANGED <<setting, reply, output, asked>>
  BY <1>0, <1>1, AnswerAdded
<1>2. /\ a \in Agents /\ req \in ReqIds /\ d \in Decisions
      /\ \A b \in Agents, q \in ReqIds :
            Resolved(b, q)' = IF b = a /\ q = req THEN d ELSE Resolved(b, q)
      /\ UNCHANGED <<setting, reply, output, asked>>
  <2>1. req \in ReqIds /\ d \in Decisions
    BY <1>0, <1>3 DEF TransitRecord
  <2>2. QED BY <1>0, <1>1, <1>3, <2>1, PermissionResRecords DEF HookInv
<1>7. PICK g \in Hooks : Same(g, Head(transit).agent, req)
  <2>1. transit \in Seq(TransitRecord)
    BY DEF HookInv, HookTypes
  <2>2. 1 \in DOMAIN transit /\ Head(transit) = transit[1]
    BY <2>1, HeadTailProperties, EmptySeq, LenProperties
  <2>3. QED BY <1>0, <2>2 DEF HookInv, Prompted
<1>4. ASSUME NEW h \in Hooks PROVE FreshFor(h)'
  <2>1. /\ FreshFor(h) /\ HookAgent[h] \in Agents /\ HookReq[h] \in ReqIds
        /\ asked[h] \in 0 .. new
    BY HookFacts DEF HookInv, HookTypes, Fresh
  <2>2. \A e : Answered(h, e) => Answered(h, e)'
    BY <1>2, <1>3, AnsweredKept
  <2>3. ASSUME NEW e, e = Resolved(HookAgent[h], HookReq[h])', e # NoDecision
        PROVE  e \in Decisions /\ Answered(h, e)'
    <3>1. HookReq' = HookReq /\ HookAgent' = HookAgent
      BY <1>2 DEF HookAgent, HookReq
    <3>2. Resolved(HookAgent[h], HookReq[h])' =
             IF HookAgent[h] = a /\ HookReq[h] = req THEN d
             ELSE Resolved(HookAgent[h], HookReq[h])
      BY <1>2, <2>1, <3>1 DEF Resolved
    <3>3. CASE HookAgent[h] = a /\ HookReq[h] = req
      <4>1. new \in AnswersTo(HookAgent[h], HookReq[h])'
        BY <1>3, <3>1, <3>3 DEF AnswersTo
      <4>2. new >= asked'[h] /\ answers'[new].decision = d
        BY <1>2, <1>3, <2>1
      <4>5. OwnReqId(h)' => answers'[new].agent = HookAgent'[h]
        BY <1>3, <1>7, <3>1, <3>3 DEF OwnReqId, Same
      <4>3. Answered(h, d)'
        BY <4>1, <4>2, <4>5 DEF Answered
      <4>4. QED BY <1>2, <2>3, <3>2, <3>3, <4>3
    <3>4. CASE ~(HookAgent[h] = a /\ HookReq[h] = req)
      BY <2>1, <2>2, <2>3, <3>2, <3>4 DEF FreshFor
    <3>5. QED BY <3>3, <3>4
  <2>4. QED BY <1>2, <2>1, <2>2, <2>3 DEF FreshFor
<1>5. Counted'
  <2>1. SUFFICES ASSUME NEW b \in Agents, NEW q \in ReqIds, NEW v \in Verdicts
                 PROVE  Cardinality(Users(b, q, v)') + Stored(b, q, v)'
                           <= Cardinality(Given(b, q, v)')
    BY DEF Counted
  <2>2. /\ Cardinality(Users(b, q, v)) + Stored(b, q, v)
              <= Cardinality(Given(b, q, v))
        /\ IsFiniteSet(Given(b, q, v))
        /\ Cardinality(Users(b, q, v)) \in Nat
        /\ Cardinality(Given(b, q, v)) \in Nat
    BY CountTypes DEF HookInv, Counted
  <2>3. Users(b, q, v)' = Users(b, q, v)
    BY <1>2 DEF Users, Same, HookAgent, HookReq
  <2>4. Stored(b, q, v) \in {0, 1} /\ Stored(b, q, v)' \in {0, 1}
    BY DEF Stored
  <2>5. CASE b = a /\ q = req /\ Verdict[d] = v
    <3>1. Given(b, q, v)' = Given(b, q, v) \cup {new} /\ new \notin Given(b, q, v)
      BY <1>3, <2>5 DEF Given, AnswersTo, HistoryKept
    <3>2. Cardinality(Given(b, q, v)') = Cardinality(Given(b, q, v)) + 1
      BY <2>2, <3>1, FS_AddElement
    <3>3. QED BY <2>2, <2>3, <2>4, <3>2
  <2>6. CASE ~(b = a /\ q = req /\ Verdict[d] = v)
    <3>1. Given(b, q, v)' = Given(b, q, v)
      BY <1>3, <2>6 DEF Given, AnswersTo, HistoryKept
    <3>2. Stored(b, q, v)' <= Stored(b, q, v)
      BY <1>2, <2>6 DEF Stored
    <3>3. QED BY <2>2, <2>3, <2>4, <3>1, <3>2
  <2>7. QED BY <2>5, <2>6
<1>6. QED BY <1>4, <1>5 DEF Fresh

LEMMA AnswerStep ==
    ASSUME HookInv, AnswerArrives \/ AnswerLost
    PROVE  Fresh' /\ Counted'
<1>1. TypeOK /\ SidUnique /\ transit # <<>>
  BY DEF HookInv, RowsInv, AnswerArrives, AnswerLost
<1>2. CASE AnswerLost
  <2>1. Forgets
    BY <1>2, UnchangedForgets DEF AnswerLost, vars
  <2>2. QED BY <1>1, <1>2, <2>1, UselessAnswer DEF AnswerLost
<1>3. CASE AnswerArrives
  <2>1. PICK sid : sid = Head(transit).sid
    OBVIOUS
  <2>7. Head(transit) \in TransitRecord
    BY <1>1, HeadTailProperties DEF HookInv, HookTypes
  <2>2. sid \in Sids
    BY <2>1, <2>7 DEF TransitRecord
  <2>3. EndsUp(Head(transit), RowOwner(sid))
    BY <1>3, <2>1 DEF AnswerArrives
  <2>4. CASE Owners(sid) = {} /\ OtherBoardMessage
    <3>1. Forgets
      BY <2>4, UnchangedForgets DEF OtherBoardMessage
    <3>2. RowOwner(sid) = NoAgent
      BY <2>4 DEF RowOwner
    <3>3. QED BY <1>1, <2>3, <3>1, <3>2, UselessAnswer
  <2>5. CASE PermissionRes(sid, Head(transit).req, Head(transit).decision)
    <3>1. PICK a \in Owners(sid) : TRUE
      BY <2>5 DEF PermissionRes
    <3>2. /\ a \in DOMAIN registered /\ registered[a].board_sid = sid
          /\ sid # NoSid
      BY <2>2, <3>1, NoSidAssumption DEF Owners
    <3>3. RowOwner(sid) = a
      BY <1>1, <2>2, <3>2, RowOwnerIs
    <3>4. QED BY <1>1, <2>3, <2>5, <3>2, <3>3, KeptAnswer
  <2>6. QED BY <1>3, <2>1, <2>4, <2>5 DEF AnswerArrives
<1>4. QED BY <1>2, <1>3

LEMMA MatchingFinite ==
    ASSUME NEW S, NEW queue \in Seq(S), NEW a, NEW req
    PROVE  Cardinality(Matching(queue, a, req)) \in Nat
<1>1. DOMAIN queue = 1 .. Len(queue) /\ Len(queue) \in Nat
  BY LenProperties
<1>2. IsFiniteSet(1 .. Len(queue))
  BY <1>1, FS_Interval
<1>3. Matching(queue, a, req) \in SUBSET (1 .. Len(queue))
  BY <1>1 DEF Matching
<1>4. IsFiniteSet(Matching(queue, a, req))
  BY <1>2, <1>3, FS_Subset
<1>5. QED BY <1>4, FS_CardinalityType

(* The user answers a prompt, and every prompt stands for a hook.          *)
LEMMA PromptedStep ==
    ASSUME HookInv, HookNext
    PROVE  Prompted'
<1>1. transit \in Seq(TransitRecord)
  BY DEF HookInv, HookTypes
<1>2. UNCHANGED setting
  BY DEF HookNext, HookStarts, HookReads, HookWakes, HookTimesOut,
         DeadlinePasses, ConnectionFails, HookFails, HookProceeds, HookPolled,
         HookAlone, DaemonHandles, HandlesRegister, HandlesRequest, HandlesPoll,
         Refuses, Responds, UserAnswers, AnswerArrives, AnswerLost, EndsUp,
         Others, DaemonRestarts, hookVars
<1>3. \A h \in Hooks : \A a, req : Same(h, a, req) => Same(h, a, req)'
  BY <1>2 DEF Same, HookAgent, HookReq
<1>4. CASE UNCHANGED transit
  BY <1>3, <1>4 DEF HookInv, Prompted
<1>5. CASE transit # <<>> /\ transit' = Tail(transit)
  <2>1. \A i \in DOMAIN transit' : i + 1 \in DOMAIN transit /\ transit'[i] = transit[i + 1]
    BY <1>1, <1>5, HeadTailProperties, LenProperties
  <2>2. QED BY <1>3, <2>1 DEF HookInv, Prompted
<1>6. CASE UserAnswers
  <2>1. PICK a \in DOMAIN registered, req \in ReqIds, d \in Decisions :
           /\ Cardinality(Matching(transit, a, req))
                 + Cardinality(Matching(answers, a, req))
                    < Cardinality(Prompts(a, req))
           /\ registered[a].board_sid # NoSid
           /\ transit' = Append(transit, [agent |-> a,
                                          sid |-> registered[a].board_sid,
                                          req |-> req, decision |-> d])
    BY <1>6 DEF UserAnswers
  <2>2. PICK g \in Hooks : Same(g, a, req)
    <3>1. /\ Cardinality(Matching(transit, a, req)) \in Nat
          /\ Cardinality(Matching(answers, a, req)) \in Nat
      BY MatchingFinite DEF HookInv, HookTypes
    <3>4. ASSUME Prompts(a, req) = {} PROVE FALSE
      <4>1. Cardinality(Prompts(a, req)) = 0
        BY <3>4, FS_EmptySet
      <4>2. Cardinality(Matching(transit, a, req))
              + Cardinality(Matching(answers, a, req)) < 0
        BY <2>1, <4>1
      <4>3. QED BY <3>1, <4>2
    <3>2. Prompts(a, req) # {}
      BY <3>4
    <3>3. QED BY <3>2 DEF Prompts
  <2>3. a \in Agents /\ registered[a].board_sid \in Sids
    BY <2>1, RecordType DEF HookInv, RegisteredAgent
  <2>4. /\ DOMAIN transit' = DOMAIN transit \cup {Len(transit) + 1}
        /\ \A i \in DOMAIN transit : transit'[i] = transit[i]
        /\ transit'[Len(transit) + 1].agent = a
        /\ transit'[Len(transit) + 1].req = req
    <3> DEFINE m == [agent |-> a, sid |-> registered[a].board_sid,
                     req |-> req, decision |-> d]
    <3>1. m \in TransitRecord
      BY <2>3 DEF TransitRecord
    <3>2. /\ Len(transit) \in Nat /\ DOMAIN transit = 1 .. Len(transit)
          /\ DOMAIN transit' = 1 .. Len(transit) + 1
          /\ transit'[Len(transit) + 1] = m
          /\ \A i \in 1 .. Len(transit) : transit'[i] = transit[i]
      BY <1>1, <2>1, <3>1, AppendProperties, LenProperties
    <3>3. QED BY <3>2
  <2>5. QED BY <1>3, <2>2, <2>4 DEF HookInv, Prompted
<1>7. \/ UNCHANGED transit \/ UserAnswers
      \/ transit # <<>> /\ transit' = Tail(transit)
  BY DEF HookNext, HookStarts, HookReads, HookWakes, HookTimesOut,
         DeadlinePasses, ConnectionFails, HookFails, HookProceeds, HookPolled,
         HookAlone, DaemonHandles, HandlesRegister, HandlesRequest, HandlesPoll,
         Refuses, Responds, AnswerArrives, AnswerLost, EndsUp, Others,
         DaemonRestarts, userVars
<1>8. QED BY <1>4, <1>5, <1>6, <1>7

---------------------------------------------------------------------------
(* The invariant holds of every behaviour.                                 *)
LEMMA HookInvInit == HookInit => HookInv
<1>1. SUFFICES ASSUME HookInit PROVE HookInv
  OBVIOUS
<1>2. TypeOK /\ RowsInv /\ DOMAIN registered = {}
  BY <1>1, TypeInit, RowsInit DEF HookInit, Init
<1>3. answers = <<>> /\ Len(answers) = 0 /\ DOMAIN answers = {}
  BY <1>1 DEF HookInit
<1>4. HookTypes
  <2>1. answers \in Seq(AnswerRecord) /\ transit \in Seq(TransitRecord)
    BY <1>1, <1>3, EmptySeq DEF HookInit
  <2>2. asked \in [Hooks -> 0 .. Len(answers) + 1]
    BY <1>1, <1>3 DEF HookInit
  <2>3. QED BY <1>1, <2>1, <2>2 DEF HookInit, HookTypes
<1>5. OneLineEach
  BY <1>1 DEF HookInit, OneLineEach
<1>6. "none" \notin Decisions /\ "none" \notin Verdicts
  BY RepliesAssumption DEF Verdicts
<1>7. \A a \in Agents, req \in ReqIds : Resolved(a, req) = NoDecision
  BY <1>2 DEF Resolved
<1>8. Fresh
  BY <1>1, <1>2, <1>6 DEF HookInit, Fresh, FreshFor, Resolved
<1>9. Counted
  <2>1. ASSUME NEW a \in Agents, NEW req \in ReqIds, NEW v \in Verdicts
        PROVE  /\ Users(a, req, v) = {} /\ Given(a, req, v) = {}
               /\ Stored(a, req, v) = 0
    BY <1>1, <1>3, <1>6, <1>7, <2>1, NoDecisionAssumption
       DEF HookInit, Users, Given, AnswersTo, Stored
  <2>2. QED BY <2>1, FS_EmptySet DEF Counted
<1>10. Prompted
  BY <1>1 DEF HookInit, Prompted
<1>11. QED BY <1>2, <1>4, <1>5, <1>8, <1>9, <1>10 DEF HookInv

(* A step that neither polls, nor asks, nor answers moves no decision but  *)
(* from a response to the output of the hook that reads it.                *)
LEMMA QuietStep ==
    ASSUME HookInv, \A g \in Hooks : Moves(g), Forgets,
           UNCHANGED <<setting, answers, asked>>
    PROVE  Fresh' /\ Counted'
<1>1. HistoryKept
  BY DEF HistoryKept
<1>2. QED BY <1>1, FreshKept, SameGiven, CountsKept DEF Fresh

LEMMA DecisionsStep ==
    ASSUME HookInv, HookNext
    PROVE  Fresh' /\ Counted'
<1>1. HookShape /\ TypeOK /\ RowsInv
  BY DEF HookInv, HookShape
<1>2. ASSUME NEW h \in Hooks,
             \/ HookStarts(h) \/ HookReads(h) \/ HookWakes(h) \/ HookTimesOut(h)
             \/ DeadlinePasses(h) \/ ConnectionFails(h)
      PROVE  Fresh' /\ Counted'
  <2>1. UNCHANGED <<vars, setting, userVars, asked>>
    BY <1>2 DEF HookStarts, HookReads, HookWakes, HookTimesOut, DeadlinePasses,
                ConnectionFails, HookFails, HookProceeds, HookPolled, HookAlone
  <2>2. Forgets
    BY <2>1, UnchangedForgets DEF vars
  <2>3. \A g \in Hooks : Moves(g)
    BY <1>1, <1>2, HookAloneMoves
  <2>4. QED BY <2>1, <2>2, <2>3, QuietStep DEF userVars
<1>3. ASSUME NEW h \in Hooks, DaemonHandles(h)
      PROVE  Fresh' /\ Counted'
  <2>1. CASE HandlesRegister(h)
    <3>1. Forgets
      <4>1. HookLine(h) \in RegisterLines /\ Register(HookLine(h))
        BY <2>1, HookLineType DEF HandlesRegister, HookLine, HookInv
      <4>2. QED BY <1>1, <4>1, RegisterForgets
    <3>2. \A g \in Hooks : Moves(g)
      BY <1>1, <2>1, RespondsMoves DEF HandlesRegister, Replies
    <3>3. QED BY <2>1, <3>1, <3>2, QuietStep DEF HandlesRegister, Responds, userVars
  <2>2. CASE Refuses(h)
    <3>1. Forgets
      BY <2>2, UnchangedForgets DEF Refuses, LineWithoutEffect, agentVars
    <3>2. \A g \in Hooks : Moves(g)
      BY <1>1, <2>2, RespondsMoves DEF Refuses, Replies
    <3>3. QED BY <2>2, <3>1, <3>2, QuietStep DEF Refuses, Responds, userVars
  <2>3. QED BY <1>3, <2>1, <2>2, RequestStep, PollStep DEF DaemonHandles
<1>4. CASE AnswerArrives \/ AnswerLost
  BY <1>4, AnswerStep
<1>8. CASE UserAnswers
  <2>1. UNCHANGED <<vars, hookVars, answers, asked>>
    BY <1>8 DEF UserAnswers
  <2>2. Forgets /\ \A g \in Hooks : Moves(g)
    BY <2>1, UnchangedForgets DEF vars, hookVars, Moves
  <2>3. QED BY <2>1, <2>2, QuietStep DEF hookVars
<1>5. CASE Others
  <2>1. UNCHANGED <<hookVars, answers, asked>>
    BY <1>5 DEF Others, userVars
  <2>2. \A g \in Hooks : Moves(g)
    BY <2>1 DEF Moves, hookVars
  <2>3. Forgets
    <3>1. CASE ClientFlush \/ ClientGone \/ HidOpens
      BY <3>1, UnchangedForgets DEF ClientFlush, ClientGone, HidOpens, agentVars
    <3>2. QED BY <1>1, <1>5, <3>1, AbortForgets, SessionResponseForgets,
                 SessionInvalidForgets DEF Others
  <2>4. QED BY <2>1, <2>2, <2>3, QuietStep DEF hookVars
<1>6. CASE DaemonRestarts
  <2>1. Forgets /\ \A g \in Hooks : Moves(g)
    BY <1>1, <1>6, RestartType, RestartMoves
  <2>2. QED BY <1>6, <2>1, QuietStep DEF DaemonRestarts, userVars
<1>7. QED BY <1>2, <1>3, <1>4, <1>5, <1>6, <1>8 DEF HookNext

LEMMA HookInvStep == HookInv /\ [HookNext]_hookSysVars => HookInv'
<1>1. SUFFICES ASSUME HookInv, [HookNext]_hookSysVars PROVE HookInv'
  OBVIOUS
<1>2. CASE HookNext
  <2>1. TypeOK' /\ RowsInv'
    BY <1>1, <1>2, DaemonInvStep
  <2>2. HookTypes' /\ OneLineEach'
    BY <1>1, <1>2, ShapeStep DEF HookInv, HookShape
  <2>3. Fresh' /\ Counted'
    BY <1>1, <1>2, DecisionsStep
  <2>4. Prompted'
    BY <1>1, <1>2, PromptedStep
  <2>5. QED BY <2>1, <2>2, <2>3, <2>4 DEF HookInv
<1>3. CASE UNCHANGED hookSysVars
  <2>1. UNCHANGED vars /\ UNCHANGED hookVars /\ UNCHANGED <<transit, answers, asked>>
    BY <1>3 DEF hookSysVars, userVars
  <2>2. TypeOK' /\ RowsInv'
    BY <1>1, <2>1, TypeStep, RowsStep DEF HookInv
  <2>3. HookTypes' /\ OneLineEach'
    BY <1>1, <2>1 DEF HookInv, HookTypes, OneLineEach, hookVars
  <2>4. Fresh' /\ Counted'
    <3>1. Forgets /\ \A g \in Hooks : Moves(g)
      BY <2>1, UnchangedForgets DEF vars, hookVars, Moves
    <3>2. QED BY <1>1, <2>1, <3>1, QuietStep DEF hookVars
  <2>5. Prompted'
    BY <1>1, <2>1 DEF HookInv, Prompted, Same, HookAgent, HookReq, hookVars
  <2>6. QED BY <2>2, <2>3, <2>4, <2>5 DEF HookInv
<1>4. QED BY <1>1, <1>2, <1>3

LEMMA HookInvCorrect == HookSpec => []HookInv
BY HookInvInit, HookInvStep, PTL DEF HookSpec

(* What a hook prints is an answer the daemon got after the hook asked and *)
(* kept for its session.  The request clears the decision an earlier       *)
(* answer under the same id left, a poll hands over only the decision of   *)
(* its own session, and no timeout, error or restart makes one up.  An     *)
(* answer that was under way when the hook asked, or came to a row that    *)
(* changed hands, can only be printed by a hook whose request id another   *)
(* hook has too.                                                           *)
THEOREM HooksPrintFreshAnswers == HookSpec => []VerdictIsFresh
<1>1. HookInv => VerdictIsFresh
  <2>1. SUFFICES ASSUME HookInv, NEW h \in Hooks, output[h] \in Verdicts
                 PROVE  \E i \in AnswersTo(HookAgent[h], HookReq[h]) :
                           /\ i >= asked[h]
                           /\ Verdict[answers[i].decision] = output[h]
                           /\ OwnReqId(h) => answers[i].agent = HookAgent[h]
    BY DEF VerdictIsFresh
  <2>2. QED BY <2>1 DEF HookInv, Fresh, FreshFor, Answered
<1>2. QED BY HookInvCorrect, <1>1, PTL

(* No answer settles two hooks of a session: a poll takes the decision     *)
(* from the daemon before its response is written, also when hooks that    *)
(* started in the same millisecond share a request id.                     *)
THEOREM AnswersAreUsedOnce == HookSpec => []AnswerUsedOnce
<1>1. HookInv => AnswerUsedOnce
  <2>1. SUFFICES ASSUME HookInv,
                        NEW a \in Agents, NEW req \in ReqIds, NEW v \in Verdicts
                 PROVE  Cardinality({h \in Hooks : Same(h, a, req) /\ output[h] = v})
                           <= Cardinality(Given(a, req, v))
    BY DEF AnswerUsedOnce, Given
  <2> DEFINE printed == {h \in Hooks : Same(h, a, req) /\ output[h] = v}
  <2>2. /\ Cardinality(Users(a, req, v)) + Stored(a, req, v)
              <= Cardinality(Given(a, req, v))
        /\ Stored(a, req, v) \in {0, 1}
    BY <2>1 DEF HookInv, Counted, Stored
  <2>3. /\ IsFiniteSet(Users(a, req, v))
        /\ Cardinality(Users(a, req, v)) \in Nat
        /\ Cardinality(Given(a, req, v)) \in Nat
    BY <2>1, CountTypes DEF HookInv
  <2>4. printed \in SUBSET Users(a, req, v)
    BY DEF Users
  <2> HIDE DEF printed
  <2>5. /\ Cardinality(printed) <= Cardinality(Users(a, req, v))
        /\ Cardinality(printed) \in Nat
    BY <2>3, <2>4, FS_Subset, FS_CardinalityType
  <2>6. Cardinality(printed) <= Cardinality(Given(a, req, v))
    BY <2>2, <2>3, <2>5
  <2>7. QED BY <2>6 DEF printed
<1>2. QED BY HookInvCorrect, <1>1, PTL
=============================================================================
