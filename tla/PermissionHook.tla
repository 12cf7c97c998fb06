--------------------------- MODULE PermissionHook ---------------------------
(***************************************************************************)
(* The PreToolUse hook of Claude Code, adapters/claude-code-hook/index.js, *)
(* composed with the daemon.  A hook is a short process: it registers its  *)
(* agent, asks for a permission, polls for the decision until a deadline   *)
(* and prints what Claude Code is to do.  Each of its lines is a           *)
(* connection of its own, given up after 1.5 s; the daemon may still       *)
(* handle a line whose hook has given up.                                  *)
(***************************************************************************)
EXTENDS BridgeDaemon

CONSTANTS
    Hooks,      \* PreToolUse processes
    Verdict,    \* what a decision of the board becomes in the output
    Settings    \* [agent, req, faults]: the session of each hook, its request
                \* id (Date.now(), so hooks may share one), and what may go
                \* wrong

AllFaults == {"slow", "unreachable", "restarts", "deadline"}
Verdicts == {"allow", "deny"}

(* What a hook can read as the response to a line, besides a decision.     *)
Replies == {"ok", "error", "pending", "gone", "ended", "reset"}

ASSUME HooksAssumption ==
    /\ Verdict \in [Decisions -> Verdicts]
    /\ IsFiniteSet(Hooks)
ASSUME RepliesAssumption == Decisions \cap (Replies \cup {"none"}) = {}
ASSUME SettingsAssumption ==
    Settings \subseteq [agent : [Hooks -> Agents \ Terminals],
                        req : [Hooks -> ReqIds], faults : SUBSET AllFaults]

VARIABLES
    setting, \* the one of Settings in force
    pc,      \* the line the hook waits an answer for, or where it is
    line,    \* the line the daemon has not handled yet
    reply,   \* the response the hook has not read yet
    expired, \* the deadline of the running pollPermission has passed
    output,  \* what the hook printed
    transit, \* the user's answers the daemon has not got yet, in order,
             \* [agent, sid, req, decision]: the prompt answered and the row
             \* it was shown on
    answers, \* history: what became of the others, [to, agent, req,
             \* decision]: the agent the daemon kept it for, or NoAgent
    asked    \* history: 0, or the index of the first answer the daemon can
             \* get after the request of this hook

HookAgent == setting.agent
HookReq == setting.req
Faults == setting.faults

hookVars == <<setting, pc, line, reply, expired, output>>
userVars == <<transit, answers>>
hookSysVars == <<vars, hookVars, userVars, asked>>

HookInit ==
    /\ Init
    /\ setting \in Settings
    /\ pc = [h \in Hooks |-> "start"]
    /\ line = [h \in Hooks |-> "none"]
    /\ reply = [h \in Hooks |-> "none"]
    /\ expired = [h \in Hooks |-> FALSE]
    /\ output = [h \in Hooks |-> "none"]
    /\ transit = <<>> /\ answers = <<>>
    /\ asked = [h \in Hooks |-> 0]

---------------------------------------------------------------------------
(* The hook process; the daemon does not move. *)
HookAlone == UNCHANGED <<vars, setting, userVars, asked>>

Writes(h, kind) ==
    /\ pc' = [pc EXCEPT ![h] = kind]
    /\ line' = [line EXCEPT ![h] = kind]
    /\ reply' = [reply EXCEPT ![h] = "none"]
    /\ UNCHANGED <<expired, output>>

Ends(h, out) ==
    /\ pc' = [pc EXCEPT ![h] = "done"]
    /\ reply' = [reply EXCEPT ![h] = "none"]
    /\ output' = [output EXCEPT ![h] = out]
    /\ expired' = [expired EXCEPT ![h] = FALSE]
    /\ UNCHANGED line

HookStarts(h) ==
    /\ pc[h] = "start"
    /\ Writes(h, "register")
    /\ HookAlone

(* sendDaemon settled.  An error is thrown up to main, which prints        *)
(* {continue: true}; a connection closed without a line is no error.       *)
HookFails(h) ==
    /\ reply[h] \in {"error", "reset"}
    /\ Ends(h, "continue")
    /\ HookAlone

HookProceeds(h) ==
    /\ reply[h] \in {"ok", "ended"}
    /\ \/ pc[h] = "register" /\ Writes(h, "request")
       \/ pc[h] = "request" /\ Writes(h, "poll")
    /\ HookAlone

(* One round of pollPermission: a decision, the news that nobody asks any  *)
(* more, or neither, after which the hook sleeps.                          *)
HookPolled(h) ==
    /\ pc[h] = "poll"
    /\ \/ reply[h] \in Decisions /\ Ends(h, Verdict[reply[h]])
       \/ reply[h] = "gone" /\ Ends(h, "ask")
       \/ /\ reply[h] \in {"pending", "ended"}
          /\ pc' = [pc EXCEPT ![h] = "asleep"]
          /\ reply' = [reply EXCEPT ![h] = "none"]
          /\ UNCHANGED <<line, expired, output>>
    /\ HookAlone

(* Mutant: the loop has no deadline. *)
HookWakes_for_ever(h) ==
    /\ pc[h] = "asleep"
    /\ Writes(h, "poll")
    /\ HookAlone

HookWakes(h) ==
    /\ pc[h] = "asleep"
    /\ IF expired[h] THEN Ends(h, "ask") ELSE Writes(h, "poll")
    /\ HookAlone

(* SEND_TIMEOUT_MS went by without a response. *)
HookTimesOut(h) ==
    /\ "slow" \in Faults
    /\ pc[h] \in {"register", "request", "poll"}
    /\ reply[h] = "none"
    /\ Ends(h, "continue")
    /\ HookAlone

DeadlinePasses(h) ==
    /\ "deadline" \in Faults
    /\ pc[h] \in {"poll", "asleep"}
    /\ ~expired[h]
    /\ expired' = [expired EXCEPT ![h] = TRUE]
    /\ UNCHANGED <<pc, line, reply, output>>
    /\ HookAlone

HookReads(h) == HookFails(h) \/ HookProceeds(h) \/ HookPolled(h)

---------------------------------------------------------------------------
(* The daemon handles a hook's line.  A hook that has given up no longer   *)
(* reads the response, whatever the line changed.                          *)
Responds(h, r) ==
    /\ line' = [line EXCEPT ![h] = "none"]
    /\ reply' = [reply EXCEPT ![h] = IF pc[h] = "done" THEN "none" ELSE r]
    /\ UNCHANGED <<setting, pc, expired, output, userVars>>

HandlesRegister(h) ==
    /\ line[h] = "register"
    /\ Register([agent |-> HookAgent[h], from_launch |-> FALSE,
                 attached_terminal |-> NoAgent])
    /\ Responds(h, "ok")
    /\ UNCHANGED asked

HandlesRequest(h) ==
    /\ line[h] = "request"
    /\ PermissionRequest(HookAgent[h], HookReq[h])
    /\ Responds(h, "ok")
    /\ asked' = [asked EXCEPT ![h] = Len(answers) + 1]

HandlesPoll(h) ==
    /\ line[h] = "poll"
    /\ PermissionPoll(HookAgent[h], HookReq[h])
    /\ Responds(h, PollReply(HookAgent[h], HookReq[h]))
    /\ UNCHANGED asked

Refuses(h) ==
    /\ line[h] \in {"request", "poll"}
    /\ HookAgent[h] \notin DOMAIN registered
    /\ LineWithoutEffect
    /\ Responds(h, "error")
    /\ UNCHANGED asked

DaemonHandles(h) ==
    HandlesRegister(h) \/ HandlesRequest(h) \/ HandlesPoll(h) \/ Refuses(h)

---------------------------------------------------------------------------
(* The rest of the world.  The board shows one prompt for every request    *)
(* and the user answers each at most once, at any time.  The answer then   *)
(* travels: before PERMISSION_RES is handled, other hooks may ask and the  *)
(* row may change hands.                                                   *)
Same(h, a, req) == HookAgent[h] = a /\ HookReq[h] = req

Prompts(a, req) == {h \in Hooks : Same(h, a, req) /\ asked[h] > 0}

Matching(queue, a, req) ==
    {i \in DOMAIN queue : queue[i].agent = a /\ queue[i].req = req}

UserAnswers ==
    \E a \in DOMAIN registered, req \in ReqIds, d \in Decisions :
        /\ Cardinality(Matching(transit, a, req))
              + Cardinality(Matching(answers, a, req))
                 < Cardinality(Prompts(a, req))
        /\ registered[a].board_sid # NoSid
        /\ transit' = Append(transit, [agent |-> a,
                                       sid |-> registered[a].board_sid,
                                       req |-> req, decision |-> d])
        /\ UNCHANGED <<vars, hookVars, answers, asked>>

EndsUp(m, to) ==
    /\ transit' = Tail(transit)
    /\ answers' = Append(answers, [to |-> to, agent |-> m.agent, req |-> m.req,
                                   decision |-> m.decision])
    /\ UNCHANGED <<hookVars, asked>>

(* The daemon keeps the decision for whoever owns the row by now, and has  *)
(* no use for an answer to a row nobody owns.                              *)
AnswerArrives ==
    /\ transit # <<>>
    /\ LET m == Head(transit)
       IN  /\ \/ PermissionRes(m.sid, m.req, m.decision)
              \/ Owners(m.sid) = {} /\ OtherBoardMessage
           /\ EndsUp(m, RowOwner(m.sid))

(* Nobody reads the device while the daemon is restarted. *)
AnswerLost ==
    /\ "restarts" \in Faults
    /\ transit # <<>>
    /\ EndsUp(Head(transit), NoAgent)
    /\ UNCHANGED vars

(* SessionEnd, rows granted and withdrawn, flushes of client threads. *)
Others ==
    /\ \/ \E a \in Agents : Abort(a)
       \/ \E sid \in Sids : SessionResponse(sid) \/ SessionInvalid(sid)
       \/ ClientFlush \/ ClientGone \/ HidOpens
    /\ UNCHANGED <<hookVars, userVars, asked>>

(* No daemon listens, or the connection breaks before a line is read. *)
ConnectionFails(h) ==
    /\ "unreachable" \in Faults
    /\ pc[h] # "done" /\ line[h] # "none"
    /\ line' = [line EXCEPT ![h] = "none"]
    /\ reply' = [reply EXCEPT ![h] = "reset"]
    /\ UNCHANGED <<pc, expired, output>>
    /\ HookAlone

(* The daemon is stopped and started again: it keeps nothing, and closes   *)
(* the connections of the hooks that wait, with or without an error.       *)
DaemonRestarts ==
    /\ "restarts" \in Faults
    /\ registered' = Without(registered, Agents)
    /\ pending_board_sessions' = <<>>
    /\ passive_missing_counts' = [a \in Agents |-> 0]
    /\ focused_board_sid' = NoSid
    /\ board_outbox' = <<>> /\ sent' = <<>>
    /\ connected' = FALSE
    /\ replying' = 0
    /\ heartbeat' = "asleep"
    /\ line' = [h \in Hooks |-> "none"]
    /\ \E r \in [Hooks -> {"ended", "reset"}] :
          reply' = [h \in Hooks |-> IF line[h] # "none" /\ pc[h] # "done"
                                    THEN r[h] ELSE reply[h]]
    /\ UNCHANGED <<setting, pc, expired, output, userVars, asked>>

HookNext ==
    \/ \E h \in Hooks :
          \/ HookStarts(h) \/ HookReads(h) \/ HookWakes(h) \/ HookTimesOut(h)
          \/ DeadlinePasses(h) \/ DaemonHandles(h) \/ ConnectionFails(h)
    \/ UserAnswers \/ AnswerArrives \/ AnswerLost
    \/ Others \/ DaemonRestarts

HookSpec == HookInit /\ [][HookNext]_hookSysVars

(* A started hook runs, and its two timers fire.                           *)
FairHooks ==
    \A h \in Hooks : /\ WF_hookSysVars(HookReads(h))
                     /\ WF_hookSysVars(HookWakes(h))
                     /\ WF_hookSysVars(HookTimesOut(h))
                     /\ WF_hookSysVars(DeadlinePasses(h))

(* Without faults the daemon runs too.  Strong fairness of the lines       *)
(* stands for a thread per connection: MaxClients makes them wait for each *)
(* other's flush.  With faults nothing is assumed of the daemon, and       *)
(* nothing is ever assumed of the board or the user.                       *)
FairDaemon ==
    /\ WF_hookSysVars(Faults = {} /\ Others /\ ClientFlush)
    /\ \A h \in Hooks : SF_hookSysVars(Faults = {} /\ DaemonHandles(h))

FairHookSpec == HookSpec /\ FairHooks /\ FairDaemon

---------------------------------------------------------------------------
(* The answers the daemon kept for the agent under this request id. *)
AnswersTo(a, req) ==
    {i \in DOMAIN answers : answers[i].to = a /\ answers[i].req = req}

(* No other hook, of this session or another, asks under the id of h. *)
OwnReqId(h) == \A g \in Hooks \ {h} : HookReq[g] # HookReq[h]

(* What a hook prints is an answer the daemon got after this hook asked    *)
(* and kept for its session: no stale decision, none kept for another      *)
(* session, nothing made up by a timeout, a restart or an error.  If no    *)
(* other hook has its request id, the user gave that answer to this very   *)
(* request.                                                                *)
VerdictIsFresh ==
    \A h \in Hooks : output[h] \in Verdicts =>
        \E i \in AnswersTo(HookAgent[h], HookReq[h]) :
            /\ i >= asked[h] /\ Verdict[answers[i].decision] = output[h]
            /\ OwnReqId(h) => answers[i].agent = HookAgent[h]

(* permission.poll consumes the decision: of several hooks of a session    *)
(* that share a request id, no more get a verdict than the daemon got      *)
(* answers with it for the session.                                        *)
AnswerUsedOnce ==
    \A a \in Agents, req \in ReqIds, v \in Verdicts :
        Cardinality({h \in Hooks : Same(h, a, req) /\ output[h] = v})
            <= Cardinality({i \in AnswersTo(a, req) :
                               Verdict[answers[i].decision] = v})

(* index.js promises never to block Claude Code: once responses may be     *)
(* late and deadlines pass, every hook that started ends, whether the      *)
(* daemon answers late, never, or restarts for ever.                       *)
HookEnds ==
    \A h \in Hooks :
        {"slow", "deadline"} \subseteq Faults /\ pc[h] # "start" ~> pc[h] = "done"

(* Without faults, and when no other hook of the session asks under the    *)
(* same id, an answer the daemon got for the session reaches the hook that *)
(* polls for it, through rebinds of the agent and other hooks registering  *)
(* it again.                                                               *)
Polling(h) == pc[h] \in {"poll", "asleep"}
OwnId(h) == \A g \in Hooks \ {h} : ~Same(g, HookAgent[h], HookReq[h])

AnswerReachesHook ==
    \A h \in Hooks :
        /\ Faults = {} /\ OwnId(h) /\ Polling(h)
        /\ \E i \in AnswersTo(HookAgent[h], HookReq[h]) : i >= asked[h]
        ~> output[h] \in Verdicts
============================================================================
