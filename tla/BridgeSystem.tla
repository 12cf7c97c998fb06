---------------------------- MODULE BridgeSystem ----------------------------
(***************************************************************************)
(* BridgeDaemon, the HID link and the board.  The board is not part of the *)
(* repository: it is modelled from what the daemon sends it and accepts    *)
(* from it.  It hands out sids, shows one row per live sid with the        *)
(* permission prompts it received, answers SESSION_INVALID to a heartbeat  *)
(* for a sid without a row, and forgets a row whose heartbeats stop.       *)
(* Both directions of the link deliver in order.                           *)
(***************************************************************************)
EXTENDS BridgeDaemon

CONSTANTS
    Asks,        \* the request ids of each agent (index.js: Date.now())
    BoardEvents, \* what this board does beyond answering, see below
    MaxWire      \* bound: the host's threads wait while the board is this
                 \* far behind, and the board while the host is

AllBoardEvents == {"rejects", "fades", "restarts"}

ASSUME AsksAssumption == Asks \in [Agents -> SUBSET ReqIds]
ASSUME BoardAssumption == BoardEvents \subseteq AllBoardEvents /\ MaxWire \in Nat

VARIABLES
    wire,     \* host to board, handed to the link and not read yet
    upstream, \* board to host, not read by the daemon yet
    rows,     \* the board's table: sid -> [live, hint, prompts]
    answers,  \* history: the decisions the user took, <<agent, req, d>>
    withdrawn,\* history: an agent was aborted while it waited for a sid
    reissued  \* history: the sids granted anew, with nobody waiting, while
              \* an agent still holds them

history == <<answers, withdrawn, reissued>>
boardVars == <<upstream, rows, history>>
sysVars == <<vars, wire, boardVars>>

NoRow == [live |-> FALSE, hint |-> NoAgent, prompts |-> {}]

SysInit ==
    /\ Init
    /\ wire = <<>>
    /\ upstream = <<>>
    /\ rows = [s \in Sids |-> NoRow]
    /\ answers = {} /\ withdrawn = FALSE /\ reissued = {}

Up(cmd, sid, req, d) == [cmd |-> cmd, sid |-> sid, req |-> req, decision |-> d]

ToHost(m) == upstream' = Append(upstream, m) /\ Len(upstream) < MaxWire

---------------------------------------------------------------------------
(* The daemon's steps; what they send goes on the wire. *)
OnWire == wire' = wire \o sent'

LinkKeepsUp == Len(wire) < MaxWire

(* Hooks ask for permissions under their own request ids. *)
SysClient ==
    /\ \/ \E r \in Registrations : Register(r)
       \/ \E a \in Agents :
             \/ \E req \in Asks[a] : \/ PermissionRequest(a, req)
                                     \/ PermissionResolve(a, req)
                                     \/ PermissionPoll(a, req)
       \/ ClientFlush \/ ClientGone
    /\ LinkKeepsUp
    /\ OnWire /\ UNCHANGED boardVars

SysAbort(a) ==
    /\ Abort(a)
    /\ LinkKeepsUp
    /\ withdrawn' = (withdrawn \/ a \in ToSet(pending_board_sessions))
    /\ OnWire /\ UNCHANGED <<upstream, rows, answers, reissued>>

SysHeartbeatWakes == HeartbeatWakes /\ OnWire /\ UNCHANGED boardVars
SysHeartbeatLocks == HeartbeatLocks /\ LinkKeepsUp /\ OnWire
                                    /\ UNCHANGED boardVars
SysHidOpens       == HidOpens       /\ OnWire /\ UNCHANGED boardVars
SysHidReadFails   == HidReadFails   /\ OnWire /\ UNCHANGED boardVars

(* handle_board_message dispatches on the command of the message read. *)
Dispatch(m) ==
    \/ /\ m.cmd = "SessionResponse"
       /\ IF pending_board_sessions = <<>> THEN SessionRejected
                                           ELSE SessionResponse(m.sid)
    \/ m.cmd = "SessionRejected" /\ SessionRejected
    \/ m.cmd = "SessionInvalid" /\ SessionInvalid(m.sid)
    \/ /\ m.cmd = "PermissionRes"
       /\ IF Owners(m.sid) = {} THEN OtherBoardMessage
                                ELSE PermissionRes(m.sid, m.req, m.decision)

(* A grant that finds nobody waiting changes nothing in the daemon: an     *)
(* agent that holds the sid keeps it, though its row is a new one.         *)
Reissued(m) ==
    LET granted == m.cmd = "SessionResponse"
        overlooked == granted /\ pending_board_sessions = <<>>
                              /\ Owners(m.sid) # {}
    IN  IF overlooked THEN reissued \cup {m.sid}
        ELSE IF granted \/ m.cmd = "SessionInvalid" THEN reissued \ {m.sid}
        ELSE reissued

SysBoardMessage ==
    /\ upstream # <<>>
    /\ upstream' = Tail(upstream)
    /\ Dispatch(Head(upstream))
    /\ reissued' = Reissued(Head(upstream))
    /\ OnWire
    /\ UNCHANGED <<rows, answers, withdrawn>>

---------------------------------------------------------------------------
(* The board reads one message. *)
FreeSids == {s \in Sids : ~rows[s].live}

BoardGrants(a) ==
    \E s \in FreeSids :
        /\ rows' = [rows EXCEPT ![s] = [live |-> TRUE, hint |-> a,
                                        prompts |-> {}]]
        /\ ToHost(Up("SessionResponse", s, NoBody, NoDecision))

BoardRejects ==
    /\ "rejects" \in BoardEvents
    /\ ToHost(Up("SessionRejected", Broadcast, NoBody, NoDecision))
    /\ UNCHANGED rows

BoardShows(m) ==
    IF rows[m.sid].live
    THEN /\ rows' = IF m.cmd = "PermissionReq"
                    THEN [rows EXCEPT ![m.sid].prompts =
                                          @ \cup {<<m.agent, m.body>>}]
                    ELSE rows
         /\ UNCHANGED upstream
    ELSE /\ UNCHANGED rows
         /\ IF m.cmd = "SessionHeartbeat"
            THEN ToHost(Up("SessionInvalid", m.sid, NoBody, NoDecision))
            ELSE UNCHANGED upstream

BoardReads ==
    /\ wire # <<>>
    /\ wire' = Tail(wire)
    /\ LET m == Head(wire) IN
       \/ m.cmd = "RequestSession" /\ (BoardGrants(m.agent) \/ BoardRejects)
       \/ m.sid # Broadcast /\ BoardShows(m)
       \/ m.sid = Broadcast /\ m.cmd # "RequestSession"
          /\ UNCHANGED <<upstream, rows>>
    /\ UNCHANGED <<vars, history>>

(* The user answers a prompt; the PERMISSION_RES names the sid and request. *)
UserAnswers ==
    /\ \E s \in Sids, d \in Decisions : \E p \in rows[s].prompts :
          /\ rows' = [rows EXCEPT ![s].prompts = @ \ {p}]
          /\ answers' = answers \cup {<<p[1], p[2], d>>}
          /\ ToHost(Up("PermissionRes", s, p[2], d))
    /\ UNCHANGED <<vars, wire, withdrawn, reissued>>

(* A row whose heartbeats did not arrive in time is dropped, silently. *)
BoardFades(s) ==
    /\ "fades" \in BoardEvents
    /\ rows[s].live
    /\ rows' = [rows EXCEPT ![s] = NoRow]
    /\ UNCHANGED <<vars, wire, upstream, history>>

(* The board restarts or is unplugged: its rows and both directions of the *)
(* link are gone; the daemon notices the lost device.                      *)
BoardRestarts ==
    /\ "restarts" \in BoardEvents
    /\ connected
    /\ connected' = FALSE
    /\ sent' = <<>>
    /\ wire' = <<>> /\ upstream' = <<>>
    /\ rows' = [s \in Sids |-> NoRow]
    /\ UNCHANGED <<agentVars, board_outbox, replying, heartbeat, history>>

SysNext ==
    \/ SysClient \/ SysBoardMessage
    \/ SysHeartbeatWakes \/ SysHeartbeatLocks \/ SysHidOpens \/ SysHidReadFails
    \/ BoardReads \/ UserAnswers \/ BoardRestarts
    \/ \E s \in Sids : BoardFades(s)
    \/ \E a \in Agents : SysAbort(a)

SysSpec == SysInit /\ [][SysNext]_sysVars

(* The loops of run_tcp_hid_daemon and the board keep running: the reader  *)
(* opens the HID and reads, the heartbeat thread wakes and gets the mutex. *)
(* The board drops a row that no session of the daemon beats for.  Nothing *)
(* is assumed of clients, of client threads or of the user.                *)
FairSysSpec ==
    /\ SysSpec
    /\ WF_sysVars(SysHidOpens) /\ WF_sysVars(SysBoardMessage)
    /\ WF_sysVars(SysHeartbeatWakes) /\ WF_sysVars(SysHeartbeatLocks)
    /\ WF_sysVars(BoardReads)
    /\ \A s \in Sids : WF_sysVars(BoardFades(s) /\ Owners(s) = {})

---------------------------------------------------------------------------
SysTypeOK ==
    /\ TypeOK
    /\ wire \in Seq(HidMessage)
    /\ upstream \in Seq([cmd : {"SessionResponse", "SessionRejected",
                                "SessionInvalid", "PermissionRes"},
                         sid : Sids \cup {Broadcast},
                         req : ReqIds \cup {NoBody},
                         decision : Decisions \cup {NoDecision}])
    /\ rows \in [Sids -> [live : BOOLEAN, hint : Agents \cup {NoAgent},
                          prompts : SUBSET (Agents \X ReqIds)]]
    /\ answers \subseteq Agents \X ReqIds \X Decisions
    /\ withdrawn \in BOOLEAN
    /\ reissued \subseteq Sids

Bound(a) == a \in DOMAIN registered /\ registered[a].board_sid # NoSid

(* Host and board agree on s: no grant or invalidation of s is in flight.  *)
Settled(s) ==
    /\ rows[s].live
    /\ \A i \in DOMAIN upstream :
          upstream[i].cmd \in {"SessionResponse", "SessionInvalid"} =>
              upstream[i].sid # s

InFlight == ToSet(board_outbox) \cup ToSet(wire)

(* A permission request of an agent with a row is never lost between the   *)
(* daemon and the user: it is queued, on the wire, shown, or its answer is *)
(* on the way back - whatever order of requests made before the sid came,  *)
(* failed and repeated sends, aborts, re-registrations and rebinds.  Only  *)
(* an agent whose row the board dropped, and then granted to nobody under  *)
(* the same sid, waits with prompts that the new row was never told.       *)
NoLostPermission ==
    \A a \in Agents : Bound(a) =>
        LET s == registered[a].board_sid IN
        Settled(s) /\ s \notin reissued =>
        \A req \in ToSet(registered[a].pending_permissions) :
            \/ Message("PermissionReq", s, a, req) \in InFlight
            \/ <<a, req>> \in rows[s].prompts
            \/ \E d \in Decisions : Up("PermissionRes", s, req, d)
                                       \in ToSet(upstream)

(* The decision a hook can poll for its own request is one the user took   *)
(* on the prompt of that agent and that request, even when the sid changed *)
(* hands while the prompt or the answer was on the way.                    *)
AnswerIsTheUsers ==
    \A a \in DOMAIN registered : \A req \in Asks[a] :
        LET d == registered[a].resolved_permissions[req]
        IN  d # NoDecision => <<a, req, d>> \in answers

(* SESSION_RESPONSE names no agent, yet the row an agent is bound to is    *)
(* the one the board made for that agent's request, until an agent that    *)
(* waits is aborted: its request may be on the wire, and its grant goes to *)
(* whoever waits next.                                                     *)
RowMadeForOwner ==
    \A a \in Agents : Bound(a) =>
        LET s == registered[a].board_sid
        IN  Settled(s) /\ ~withdrawn => rows[s].hint = a

(* Nobody waits in vain: for every waiting agent there is a request or a   *)
(* grant still under way.                                                  *)
Count(s, Test(_)) == Cardinality({i \in DOMAIN s : Test(s[i])})
IsRequest(m) == m.cmd = "RequestSession"
IsGrant(m) == m.cmd = "SessionResponse"

EveryWaiterServed ==
    Len(pending_board_sessions) <=
        Count(board_outbox, IsRequest) + Count(wire, IsRequest)
        + Count(upstream, IsGrant)

(* A registered agent that waits for a sid gets one, or is aborted. *)
WaiterGetsRow ==
    \A a \in Agents :
        a \in ToSet(pending_board_sessions) ~> Bound(a) \/ a \notin DOMAIN registered

(* What C_context/MEMORY.md says: agent.register triggers REQUEST_SESSION. *)
(* After it, an agent without a sid has a request or a grant under way.    *)
RegisterRequestsSession ==
    [][\A r \in Registrations :
          LET a == r.agent IN
          Register(r) /\ NeedsSid(a, Registered(r)) =>
              \/ RequestSession(a) \in ToSet(board_outbox') \cup ToSet(wire')
              \/ \E s \in Sids :
                    /\ rows[s].hint = a
                    /\ Up("SessionResponse", s, NoBody, NoDecision)
                          \in ToSet(upstream)]_sysVars
============================================================================
