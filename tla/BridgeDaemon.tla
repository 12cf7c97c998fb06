---------------------------- MODULE BridgeDaemon ----------------------------
(***************************************************************************)
(* The Rust bridge daemon, crates/vb-daemon/src/lib.rs: one BridgeDaemon   *)
(* value behind a mutex, and the threads of run_tcp_hid_daemon that lock   *)
(* it.  One action is one critical section:                                *)
(*   - a client thread handling one JSON line (handle_json_line), then, in *)
(*     a second critical section after the response was written, its flush;*)
(*   - the HID reader handling one board message and flushing;             *)
(*   - the heartbeat thread, which tests the connection before it locks;   *)
(*   - the passive discovery thread: register, ingest, prune and flush.    *)
(* The board and the HID link are the environment; `sent` is what the last *)
(* step handed to the link, in order.                                      *)
(***************************************************************************)
EXTENDS AgentRegistry

CONSTANTS
    Registrations,  \* the agent.register lines clients send
    Discoverable,   \* the agents the transcript poller can report
    GracePolls,     \* PASSIVE_MISSING_GRACE_POLLS
    Inputs,         \* the stimuli this environment uses, see AllInputs
    MaxOutbox,      \* bound: a step may not leave more messages queued
    MaxPerms,       \* bound: pending permissions of one agent
    MaxClients      \* bound: client threads between handling and flushing

AllInputs == {"agent.register", "agent.activity", "token.update",
              "turn.append", "permission.request", "permission.resolve",
              "permission.poll", "terminal.stream", "session.abort", "no-op",
              "SessionResponse", "SessionRejected", "SessionInvalid",
              "SessionFocus", "PermissionRes", "other",
              "heartbeat", "passive", "hid-error"}

(* What an agent.register line can say: only `vb-daemon launch` registers  *)
(* a Terminal.                                                             *)
RegisterLines ==
    {r \in [agent : Agents, from_launch : BOOLEAN,
            attached_terminal : Agents \cup {NoAgent}] :
        r.agent \in Terminals => r.from_launch}

ASSUME RegistrationsAssumption == Registrations \subseteq RegisterLines
ASSUME DiscoverableAssumption == Discoverable \subseteq Agents \ Terminals
ASSUME GracePollsAssumption == GracePolls \in Nat /\ GracePolls >= 2
ASSUME BoundsAssumption ==
    /\ Inputs \subseteq AllInputs
    /\ MaxOutbox \in Nat /\ MaxPerms \in Nat /\ MaxClients \in Nat

VARIABLES
    registered,             \* HashMap: a function on the registered agents
    pending_board_sessions, \* VecDeque of agents awaiting SESSION_RESPONSE
    passive_missing_counts, \* HashMap: 0 for an absent key
    focused_board_sid,      \* Option<BoardSid>
    board_outbox,           \* VecDeque<HidMessage>
    connected,              \* hid.is_connected()
    replying,               \* client threads that handled a line, not flushed
    heartbeat,              \* "asleep", or "due": saw the HID connected
    sent                    \* what the last step handed to the HID link

agentVars == <<registered, pending_board_sessions, passive_missing_counts,
               focused_board_sid>>
vars == <<registered, pending_board_sessions, passive_missing_counts,
          focused_board_sid, board_outbox, connected, replying, heartbeat,
          sent>>

Init ==
    /\ registered = [a \in {} |-> NewAgent(FALSE, FALSE, NoAgent)]
    /\ pending_board_sessions = <<>>
    /\ passive_missing_counts = [a \in Agents |-> 0]
    /\ focused_board_sid = NoSid
    /\ board_outbox = <<>>
    /\ connected = FALSE
    /\ replying = 0
    /\ heartbeat = "asleep"
    /\ sent = <<>>

---------------------------------------------------------------------------
(* Mutant: the message whose send failed is not pushed back. *)
flush_board_outbox_drops(q) ==
    \/ ~connected /\ board_outbox' = q /\ sent' = <<>> /\ UNCHANGED connected
    \/ connected /\ board_outbox' = <<>> /\ sent' = q /\ UNCHANGED connected
    \/ /\ connected /\ "hid-error" \in Inputs
       /\ \E n \in 0 .. Len(q) - 1 :
             /\ board_outbox' = SubSeq(q, n + 2, Len(q))
             /\ sent' = SubSeq(q, 1, n)
       /\ connected' = FALSE

(* flush_board_outbox on the queue q: nothing while disconnected; else     *)
(* everything, or everything before the message n+1 whose send fails.  The *)
(* failed message stays at the head of the queue although some or all of   *)
(* its frames may have reached the board.  A send that fails once is       *)
(* repeated by the transport, so message n may arrive twice.               *)
flush_board_outbox(q) ==
    \/ /\ ~connected
       /\ board_outbox' = q
       /\ sent' = <<>>
       /\ UNCHANGED connected
    \/ /\ connected
       /\ board_outbox' = <<>>
       /\ sent' = q
       /\ UNCHANGED connected
    \/ /\ connected
       /\ "hid-error" \in Inputs
       /\ board_outbox' = <<>>
       /\ \E n \in 1 .. Len(q) :
             sent' = SubSeq(q, 1, n) \o SubSeq(q, n, Len(q))
       /\ UNCHANGED connected
    \/ /\ connected
       /\ "hid-error" \in Inputs
       /\ \E n \in 0 .. Len(q) - 1 :
             /\ board_outbox' = SubSeq(q, n + 1, Len(q))
             /\ \E k \in {n, n + 1} : sent' = SubSeq(q, 1, k)
       /\ connected' = FALSE

Room == Len(board_outbox') <= MaxOutbox

(* The part of a client line every handler shares: it only queues for the  *)
(* board, and leaves the thread with a response to write.                  *)
ClientLine(name) ==
    /\ name \in Inputs
    /\ replying < MaxClients
    /\ replying' = replying + 1
    /\ sent' = <<>>
    /\ UNCHANGED <<connected, heartbeat>>

Enqueue(messages) == board_outbox' = board_outbox \o messages /\ Room

Update(a, r) == registered' = [registered EXCEPT ![a] = r]

With(a, r) == [b \in DOMAIN registered \cup {a} |->
                  IF b = a THEN r ELSE registered[b]]

Without(table, out) == [a \in DOMAIN table \ out |-> table[a]]

(* enqueue_board_session_request, for several new agents at once: the ones *)
(* without a slot yet get one, and a REQUEST_SESSION each.                 *)
NewSlots(keys) == Retain(keys, ToSet(pending_board_sessions))

(* Mutant: no REQUEST_SESSION while the HID is away. *)
Requests_when_connected(keys) ==
    IF connected THEN [i \in 1 .. Len(keys) |-> RequestSession(keys[i])]
                 ELSE <<>>

Requests(keys) == [i \in 1 .. Len(keys) |-> RequestSession(keys[i])]

---------------------------------------------------------------------------
(* Mutant: registering again starts from a fresh record with the old sid. *)
Registered_afresh(r) ==
    [NewAgent(TRUE, r.from_launch, r.attached_terminal) EXCEPT
        !.board_sid = IF r.agent \in DOMAIN registered
                      THEN registered[r.agent].board_sid ELSE NoSid]

(* agent.register *)
Registered(r) ==
    IF r.agent \in DOMAIN registered
    THEN LET old == registered[r.agent] IN
         [old EXCEPT !.from_hook = TRUE,
                     !.from_launch = old.from_launch \/ r.from_launch,
                     !.attached_terminal = IF r.attached_terminal = NoAgent
                                           THEN old.attached_terminal
                                           ELSE r.attached_terminal]
    ELSE NewAgent(TRUE, r.from_launch, r.attached_terminal)

(* Mutant: a captured terminal asks for a row like any other agent. *)
NeedsSid_always(a, r) == r.board_sid = NoSid

NeedsSid(a, r) == r.board_sid = NoSid /\ ~is_transport_only_terminal(a, r)

Register(r) ==
    LET agent == Registered(r)
        slots == NewSlots(Only(NeedsSid(r.agent, agent), r.agent))
    IN  /\ ClientLine("agent.register")
        /\ registered' = With(r.agent, agent)
        /\ pending_board_sessions' = pending_board_sessions \o slots
        /\ Enqueue(Requests(slots))
        /\ UNCHANGED <<passive_missing_counts, focused_board_sid>>

(* agent.activity *)
Activity(a) ==
    /\ ClientLine("agent.activity")
    /\ a \in DOMAIN registered
    /\ Enqueue(status_message_for_agent(a, registered[a]))
    /\ UNCHANGED agentVars

(* token.update, with a default or a non-default usage *)
TokenUpdate(a, usage) ==
    /\ ClientLine("token.update")
    /\ a \in DOMAIN registered
    /\ LET agent == [registered[a] EXCEPT !.usage = usage]
       IN  /\ Update(a, agent)
           /\ Enqueue(token_message_for_agent(a, agent))
    /\ UNCHANGED <<pending_board_sessions, passive_missing_counts,
                   focused_board_sid>>

(* Mutant: a fresh view whether or not the session is in focus. *)
LivePassiveView_unfocused(a, r) ==
    IF ~r.from_launch THEN terminal_replay_message_for_agent(a, r) ELSE <<>>

(* The fresh view of a focused session that owns no ConPTY. *)
LivePassiveView(a, r) ==
    IF ~r.from_launch /\ r.board_sid # NoSid /\ r.board_sid = focused_board_sid
    THEN terminal_replay_message_for_agent(a, r)
    ELSE <<>>

(* turn.append *)
TurnAppend(a) ==
    /\ ClientLine("turn.append")
    /\ a \in DOMAIN registered
    /\ LET agent == [registered[a] EXCEPT !.turns = TRUE]
       IN  /\ Update(a, agent)
           /\ Enqueue(LivePassiveView(a, agent))
    /\ UNCHANGED <<pending_board_sessions, passive_missing_counts,
                   focused_board_sid>>

(* Mutant: a decision from an earlier use of the request id stays. *)
PermissionRequest_keeps_decision(a, req) ==
    /\ ClientLine("permission.request")
    /\ a \in DOMAIN registered
    /\ Len(registered[a].pending_permissions) < MaxPerms
    /\ LET agent == [registered[a] EXCEPT !.pending_permissions =
                                              Append(@, req)]
       IN  /\ Update(a, agent)
           /\ Enqueue(permission_message_for_agent(a, agent, req))
    /\ UNCHANGED <<pending_board_sessions, passive_missing_counts,
                   focused_board_sid>>

(* permission.request *)
PermissionRequest(a, req) ==
    /\ ClientLine("permission.request")
    /\ a \in DOMAIN registered
    /\ Len(registered[a].pending_permissions) < MaxPerms
    /\ LET agent == [registered[a] EXCEPT
                       !.resolved_permissions[req] = NoDecision,
                       !.pending_permissions = Append(@, req)]
       IN  /\ Update(a, agent)
           /\ Enqueue(permission_message_for_agent(a, agent, req)
                      \o LivePassiveView(a, agent))
    /\ UNCHANGED <<pending_board_sessions, passive_missing_counts,
                   focused_board_sid>>

(* permission.resolve *)
PermissionResolve(a, req) ==
    /\ ClientLine("permission.resolve")
    /\ a \in DOMAIN registered
    /\ Update(a, [registered[a] EXCEPT !.pending_permissions =
                                           Retain(@, {req})])
    /\ Enqueue(<<>>)
    /\ UNCHANGED <<pending_board_sessions, passive_missing_counts,
                   focused_board_sid>>

(* Mutant: the decision can be polled again. *)
PermissionPoll_keeps_decision(a, req) ==
    /\ ClientLine("permission.poll")
    /\ a \in DOMAIN registered
    /\ Enqueue(<<>>)
    /\ UNCHANGED agentVars

(* Mutant: a request that is no longer pending is reported before the      *)
(* decision that settled it is looked up.                                  *)
PollReply_pending_first(a, req) ==
    IF req \in ToSet(registered[a].pending_permissions) THEN "pending"
                                                        ELSE "gone"

(* The response to permission.poll. *)
PollReply(a, req) ==
    LET agent == registered[a]
    IN  IF agent.resolved_permissions[req] # NoDecision
        THEN agent.resolved_permissions[req]
        ELSE IF req \in ToSet(agent.pending_permissions) THEN "pending"
                                                         ELSE "gone"

(* permission.poll: the answer consumes the decision, if there is one.     *)
PermissionPoll(a, req) ==
    /\ ClientLine("permission.poll")
    /\ a \in DOMAIN registered
    /\ Update(a, [registered[a] EXCEPT !.resolved_permissions[req] =
                                           NoDecision])
    /\ Enqueue(<<>>)
    /\ UNCHANGED <<pending_board_sessions, passive_missing_counts,
                   focused_board_sid>>

(* terminal.stream: the bytes go to the agent and to every session         *)
(* attached to it, and live to the board for the ones in focus.            *)
Mirrors(a) == {b \in DOMAIN registered :
                  b = a \/ registered[b].attached_terminal = a}

(* Mutant: every mirror counts as in focus. *)
InFocus_always(b) == focused_board_sid # NoSid

InFocus(b) == /\ registered[b].board_sid # NoSid
              /\ registered[b].board_sid = focused_board_sid

TerminalStream(a) ==
    /\ ClientLine("terminal.stream")
    /\ a \in DOMAIN registered
    /\ registered' = [b \in DOMAIN registered |->
                        [registered[b] EXCEPT !.terminal_buffer =
                                                  @ \/ b \in Mirrors(a)]]
    /\ \E order \in SetToSeqs({b \in Mirrors(a) : InFocus(b)}) :
          Enqueue([i \in 1 .. Len(order) |->
                     Vt100(focused_board_sid, order[i], "live")])
    /\ UNCHANGED <<pending_board_sessions, passive_missing_counts,
                   focused_board_sid>>

(* Mutant: the slot in the queue of waiting agents stays. *)
Abort_keeps_slot(a) ==
    /\ ClientLine("session.abort")
    /\ a \in DOMAIN registered
    /\ registered' = Without(registered, {a})
    /\ Enqueue(<<>>)
    /\ UNCHANGED <<pending_board_sessions, passive_missing_counts,
                   focused_board_sid>>

(* session.abort *)
Abort(a) ==
    /\ ClientLine("session.abort")
    /\ a \in DOMAIN registered
    /\ registered' = Without(registered, {a})
    /\ pending_board_sessions' = Retain(pending_board_sessions, {a})
    /\ Enqueue(<<>>)
    /\ UNCHANGED <<passive_missing_counts, focused_board_sid>>

(* A line that fails (malformed, unknown type, kind or agent), an empty    *)
(* terminal chunk, or daemon.snapshot, which only reads what is modelled.  *)
LineWithoutEffect ==
    /\ ClientLine("no-op")
    /\ Enqueue(<<>>)
    /\ UNCHANGED agentVars

(* The second critical section of handle_client_shared.                    *)
ClientFlush ==
    /\ replying > 0
    /\ replying' = replying - 1
    /\ flush_board_outbox(board_outbox)
    /\ Room
    /\ UNCHANGED <<agentVars, heartbeat>>

(* Writing the response failed: the thread ends without flushing.          *)
ClientGone ==
    /\ replying > 0
    /\ replying' = replying - 1
    /\ sent' = <<>>
    /\ UNCHANGED <<agentVars, board_outbox, connected, heartbeat>>

---------------------------------------------------------------------------
(* The HID reader: handle_board_message and a flush, under one lock.  The  *)
(* errors it logs change nothing, but the flush still happens.             *)
BoardMessage(name, queue) ==
    /\ name \in Inputs
    /\ flush_board_outbox(queue)
    /\ Room
    /\ UNCHANGED <<passive_missing_counts, replying, heartbeat>>

(* Mutants: the owners keep the sid; they get the broadcast sid. *)
clear_board_sid_owners_none(sid, keep) == registered

clear_board_sid_owners_zero(sid, keep) ==
    [a \in DOMAIN registered |->
        IF registered[a].board_sid = sid /\ a \notin keep
        THEN [registered[a] EXCEPT !.board_sid = Broadcast]
        ELSE registered[a]]

clear_board_sid_owners(sid, keep) ==
    [a \in DOMAIN registered |->
        IF registered[a].board_sid = sid /\ a \notin keep
        THEN [registered[a] EXCEPT !.board_sid = NoSid]
        ELSE registered[a]]

(* Mutant: the row goes to the agent that asked last. *)
SessionResponse_last(sid) ==
    LET n       == Len(pending_board_sessions)
        key     == pending_board_sessions[n]
        cleared == clear_board_sid_owners(sid, {key})
        bound   == [cleared[key] EXCEPT !.board_sid = sid]
    IN  /\ n > 0
        /\ pending_board_sessions' = SubSeq(pending_board_sessions, 1, n - 1)
        /\ registered' = [cleared EXCEPT ![key] = bound]
        /\ UNCHANGED focused_board_sid
        /\ BoardMessage("SessionResponse",
                        board_outbox \o board_sync_messages(key, bound))

(* Mutant: the sid is set on a copy of the record only. *)
SessionResponse_copy(sid) ==
    LET key   == Head(pending_board_sessions)
        bound == [registered[key] EXCEPT !.board_sid = sid]
    IN  /\ pending_board_sessions # <<>>
        /\ pending_board_sessions' = Tail(pending_board_sessions)
        /\ registered' = clear_board_sid_owners(sid, {key})
        /\ UNCHANGED focused_board_sid
        /\ BoardMessage("SessionResponse",
                        board_outbox \o board_sync_messages(key, bound))

(* SESSION_RESPONSE, status Ok or Created, sid # 0, somebody waiting: the  *)
(* agent that has waited longest gets the sid.  The branches for a waiting *)
(* agent that is gone or that had a sid are in the code too; PendingSound  *)
(* shows that neither is ever taken.                                       *)
SessionResponse(sid) ==
    LET key     == Head(pending_board_sessions)
        known   == key \in DOMAIN registered
        cleared == clear_board_sid_owners(sid, {key})
        bound   == [cleared[key] EXCEPT !.board_sid = sid]
        old     == IF known THEN registered[key].board_sid ELSE NoSid
    IN  /\ pending_board_sessions # <<>>
        /\ pending_board_sessions' = Tail(pending_board_sessions)
        /\ registered' = IF known THEN [cleared EXCEPT ![key] = bound]
                                  ELSE cleared
        /\ focused_board_sid' = IF old # NoSid /\ focused_board_sid = old
                                THEN sid ELSE focused_board_sid
        /\ BoardMessage("SessionResponse",
                        board_outbox \o (IF known
                                         THEN board_sync_messages(key, bound)
                                         ELSE <<>>))

(* SESSION_RESPONSE with sid 0 or an error status, or with nobody waiting. *)
SessionRejected ==
    /\ BoardMessage("SessionRejected", board_outbox)
    /\ UNCHANGED <<registered, pending_board_sessions, focused_board_sid>>

(* SESSION_INVALID; sid 0 is ignored (see OtherBoardMessage). *)
SessionInvalid(sid) ==
    /\ registered' = clear_board_sid_owners(sid, {})
    /\ focused_board_sid' = IF focused_board_sid = sid THEN NoSid
                                                       ELSE focused_board_sid
    /\ BoardMessage("SessionInvalid", board_outbox)
    /\ UNCHANGED pending_board_sessions

Owners(sid) == {a \in DOMAIN registered : registered[a].board_sid = sid}

(* SESSION_FOCUS; `find` takes the first owner in HashMap order. *)
SessionFocus(sid) ==
    /\ focused_board_sid' = sid
    /\ \/ /\ Owners(sid) = {}
          /\ BoardMessage("SessionFocus", board_outbox)
       \/ \E a \in Owners(sid) :
             BoardMessage("SessionFocus", board_outbox \o
                 terminal_replay_message_for_agent(a, registered[a]))
    /\ UNCHANGED <<registered, pending_board_sessions>>

(* Mutant: the answer settles every pending request of the agent. *)
PermissionRes_all(sid, req, decision) ==
    /\ \E a \in Owners(sid) :
          LET asked == ToSet(registered[a].pending_permissions) IN
          Update(a, [registered[a] EXCEPT
                       !.pending_permissions = <<>>,
                       !.resolved_permissions =
                           [r \in ReqIds |-> IF r \in asked \cup {req}
                                             THEN decision ELSE @[r]]])
    /\ BoardMessage("PermissionRes", board_outbox)
    /\ UNCHANGED <<pending_board_sessions, focused_board_sid>>

(* PERMISSION_RES for a sid somebody owns. *)
PermissionRes(sid, req, decision) ==
    /\ \E a \in Owners(sid) :
          Update(a, [registered[a] EXCEPT
                       !.pending_permissions = Retain(@, {req}),
                       !.resolved_permissions[req] = decision])
    /\ BoardMessage("PermissionRes", board_outbox)
    /\ UNCHANGED <<pending_board_sessions, focused_board_sid>>

(* Key and encoder events, sid 0, an undecodable payload, an unknown sid,  *)
(* an unsupported command.                                                 *)
OtherBoardMessage ==
    /\ BoardMessage("other", board_outbox)
    /\ UNCHANGED <<registered, pending_board_sessions, focused_board_sid>>

---------------------------------------------------------------------------
(* The heartbeat thread tests is_connected before it takes the lock.       *)
HeartbeatWakes ==
    /\ "heartbeat" \in Inputs
    /\ heartbeat = "asleep" /\ connected
    /\ heartbeat' = "due"
    /\ sent' = <<>>
    /\ UNCHANGED <<agentVars, board_outbox, connected, replying>>

Heartbeat(sid, a) == Message("SessionHeartbeat", sid, a, NoBody)

HeartbeatLocks ==
    /\ heartbeat = "due"
    /\ heartbeat' = "asleep"
    /\ \E order \in SetToSeqs({a \in DOMAIN registered :
                                  registered[a].board_sid # NoSid}) :
          flush_board_outbox(
              board_outbox \o <<Heartbeat(Broadcast, NoAgent)>>
              \o [i \in 1 .. Len(order) |->
                    Heartbeat(registered[order[i]].board_sid, order[i])])
    /\ Room
    /\ UNCHANGED <<agentVars, replying>>

---------------------------------------------------------------------------
(* The passive discovery thread, one poll: register_discovered_sessions,   *)
(* ingest_discovered_turns, prune_missing_passive_sessions, flush.         *)
Snapshots == UNION {SetToSeqs(S) : S \in SUBSET Discoverable}

Discovered(snapshot) == Retain(snapshot, DOMAIN registered)

RegisteredAndIngested(snapshot, spoke) ==
    LET new == ToSet(Discovered(snapshot))
    IN  [a \in DOMAIN registered \cup new |->
           LET agent == IF a \in DOMAIN registered THEN registered[a]
                        ELSE NewAgent(FALSE, FALSE, NoAgent)
           IN  [agent EXCEPT !.turns = @ \/ a \in spoke]]

(* Unbound agents wait for the HID to reconnect; hooks and launchers end   *)
(* their own sessions.                                                     *)
PruneCandidates(table) ==
    {a \in DOMAIN table : /\ ~table[a].from_launch
                          /\ ~table[a].from_hook
                          /\ table[a].board_sid # NoSid}

(* Mutant: one poll too late. *)
GraceOver_late(a) == passive_missing_counts[a] + 1 > GracePolls

GraceOver(a) == passive_missing_counts[a] + 1 >= GracePolls

(* Mutant: being seen again does not clear the count. *)
MissingCounts_kept(snapshot, missed, dropped) ==
    [a \in Agents |->
        IF a \in dropped THEN 0
        ELSE IF a \in missed THEN passive_missing_counts[a] + 1
        ELSE passive_missing_counts[a]]

MissingCounts(snapshot, missed, dropped) ==
    [a \in Agents |->
        IF a \in ToSet(snapshot) \cup dropped THEN 0
        ELSE IF a \in missed THEN passive_missing_counts[a] + 1
        ELSE passive_missing_counts[a]]

PassivePoll(snapshot, spoke) ==
    LET slots   == NewSlots(Discovered(snapshot))
        table   == RegisteredAndIngested(snapshot, spoke)
        missed  == PruneCandidates(table) \ ToSet(snapshot)
        dropped == {a \in missed : GraceOver(a)}
    IN  /\ "passive" \in Inputs
        /\ registered' = Without(table, dropped)
        /\ pending_board_sessions' =
              Retain(pending_board_sessions \o slots, dropped)
        /\ passive_missing_counts' = MissingCounts(snapshot, missed, dropped)
        /\ flush_board_outbox(board_outbox \o Requests(slots))
        /\ Room
        /\ UNCHANGED <<focused_board_sid, replying, heartbeat>>

---------------------------------------------------------------------------
(* The HID transport opens the device lazily, from the reader's recv, and  *)
(* forgets it when a read fails.                                           *)
HidOpens ==
    /\ ~connected
    /\ connected' = TRUE
    /\ sent' = <<>>
    /\ UNCHANGED <<agentVars, board_outbox, replying, heartbeat>>

HidReadFails ==
    /\ "hid-error" \in Inputs
    /\ connected
    /\ connected' = FALSE
    /\ sent' = <<>>
    /\ UNCHANGED <<agentVars, board_outbox, replying, heartbeat>>

---------------------------------------------------------------------------
ClientStep ==
    \/ \E r \in Registrations : Register(r)
    \/ \E a \in Agents :
          \/ Activity(a) \/ TurnAppend(a) \/ TerminalStream(a) \/ Abort(a)
          \/ \E usage \in BOOLEAN : TokenUpdate(a, usage)
          \/ \E req \in ReqIds : \/ PermissionRequest(a, req)
                                 \/ PermissionResolve(a, req)
                                 \/ PermissionPoll(a, req)
    \/ LineWithoutEffect \/ ClientFlush \/ ClientGone

BoardStep ==
    \/ \E sid \in Sids :
          \/ SessionResponse(sid) \/ SessionInvalid(sid) \/ SessionFocus(sid)
          \/ \E req \in ReqIds, d \in Decisions : PermissionRes(sid, req, d)
    \/ SessionRejected \/ OtherBoardMessage

PassiveStep ==
    \E snapshot \in Snapshots, spoke \in SUBSET Discoverable :
        PassivePoll(snapshot, spoke)

OtherStep == HeartbeatWakes \/ HeartbeatLocks \/ HidOpens \/ HidReadFails

Next == ClientStep \/ BoardStep \/ PassiveStep \/ OtherStep

Spec == Init /\ [][Next]_vars

---------------------------------------------------------------------------
(* Every field keeps the type of the Rust struct. *)
TypeOK ==
    /\ DOMAIN registered \subseteq Agents
    /\ registered \in [DOMAIN registered -> RegisteredAgent]
    /\ pending_board_sessions \in Seq(Agents)
    /\ passive_missing_counts \in [Agents -> 0 .. GracePolls - 1]
    /\ focused_board_sid \in Sids \cup {NoSid}
    /\ board_outbox \in Seq(HidMessage)
    /\ connected \in BOOLEAN
    /\ replying \in 0 .. MaxClients
    /\ heartbeat \in {"asleep", "due"}
    /\ sent \in Seq(HidMessage)

(* At most one agent owns a sid: SESSION_RESPONSE detaches the previous    *)
(* owners before it binds (clear_board_sid_owners), so a heartbeat, a      *)
(* focus or a permission answer for a sid never has two candidates.        *)
SidUnique ==
    \A a, b \in DOMAIN registered :
        registered[a].board_sid = registered[b].board_sid
        /\ registered[a].board_sid # NoSid => a = b

(* SESSION_RESPONSE carries no agent: it is matched with the head of the   *)
(* queue.  Every queued agent is therefore still registered (abort and     *)
(* prune drain its slot), still without a sid, and queued once.            *)
PendingSound ==
    /\ \A i, j \in DOMAIN pending_board_sessions :
          pending_board_sessions[i] = pending_board_sessions[j] => i = j
    /\ \A i \in DOMAIN pending_board_sessions :
          /\ pending_board_sessions[i] \in DOMAIN registered
          /\ registered[pending_board_sessions[i]].board_sid = NoSid

(* A Terminal registered by `vb-daemon launch` is a byte source only: it   *)
(* never waits for a sid, so it can neither take a row on the board nor    *)
(* the sid meant for the agent attached to it.                             *)
TerminalsHaveNoRow ==
    \A a \in Terminals :
        /\ a \notin ToSet(pending_board_sessions)
        /\ a \in DOMAIN registered => /\ registered[a].board_sid = NoSid
                                      /\ registered[a].from_launch

(* What this step queued or sent beyond what was queued before. *)
NewMessages == (ToSet(board_outbox') \cup ToSet(sent')) \ ToSet(board_outbox)

(* A message is queued only under the sid its agent owns after the step:   *)
(* no handler announces, updates or beats for a session that a rebind, an  *)
(* invalidation or an abort in the same step took away.                    *)
NewMessagesFromOwner ==
    [][\A m \in NewMessages :
          m.agent # NoAgent /\ m.sid # Broadcast =>
              /\ m.agent \in DOMAIN registered'
              /\ registered'[m.agent].board_sid = m.sid]_vars

(* Terminal bytes and replays are queued only for the session in focus:    *)
(* the LCD has one terminal view, and bytes for another sid would mix in.  *)
Vt100OnlyForFocus ==
    [][\A m \in NewMessages :
          m.cmd = "Vt100Stream" => m.sid = focused_board_sid']_vars

(* Whatever a step does to a session - a hook registering it again before  *)
(* every event, a rebind, a poll - its pending permissions only shrink by  *)
(* an answer, a resolve, or the end of the session, and its launched flag  *)
(* and terminal bytes are never lost.                                      *)
SessionStateKept ==
    [][\A a \in DOMAIN registered \cap DOMAIN registered' :
          /\ registered[a].from_launch => registered'[a].from_launch
          /\ registered[a].from_hook => registered'[a].from_hook
          /\ registered[a].terminal_buffer => registered'[a].terminal_buffer
          /\ \A req \in ToSet(registered[a].pending_permissions)
                          \ ToSet(registered'[a].pending_permissions) :
                \/ PermissionResolve(a, req)
                \/ \E d \in Decisions :
                      PermissionRes(registered[a].board_sid, req, d)]_vars

(* The agent that owns a row, of the one or none that Owners(sid) holds.   *)
RowOwner(sid) == IF Owners(sid) = {} THEN NoAgent
                                     ELSE CHOOSE a \in Owners(sid) : TRUE

(* The daemon implements the abstract sid table: whatever the order of     *)
(* registrations, aborts, polls and board messages, a step grants one sid  *)
(* to one waiting agent, revokes one, or moves agents in and out.          *)
Table == INSTANCE SidTable WITH
    known   <- DOMAIN registered,
    waiting <- ToSet(pending_board_sessions),
    owner   <- [sid \in Sids |-> RowOwner(sid)]

ImplementsSidTable == Table!Spec
============================================================================
