--------------------------- MODULE AgentRegistry ---------------------------
(***************************************************************************)
(* The values of the Rust bridge daemon (crates/vb-daemon/src/lib.rs): the *)
(* record it keeps for a registered agent, the messages it queues for the  *)
(* board, and the pure functions that build those messages from a record.  *)
(* Names, directories, texts and byte payloads are abstracted to what the  *)
(* control flow tests: is the usage non-default, is there a last turn, is  *)
(* the terminal buffer empty.                                              *)
(***************************************************************************)
EXTENDS Naturals, FiniteSets, SequencesExt

CONSTANTS
    Agents,     \* the keys (kind, agent_id) of HashMap `registered`
    NoAgent,    \* attached_terminal = None; the owner of an ownerless message
    Terminals,  \* the agents of kind Terminal
    Sids,       \* the session ids the board hands out (never 0)
    NoSid,      \* board_sid = None, focused_board_sid = None
    Broadcast,  \* BoardSid::BROADCAST, sid 0 on the wire
    ReqIds,     \* permission request ids
    Decisions,  \* allow, deny, always
    NoDecision  \* no entry in resolved_permissions

ASSUME NoAgentAssumption == NoAgent \notin Agents
ASSUME TerminalsAssumption == Terminals \subseteq Agents
ASSUME AgentsFinite == IsFiniteSet(Agents)
ASSUME NoSidAssumption == NoSid \notin Sids /\ Broadcast \notin Sids
ASSUME NoDecisionAssumption == NoDecision \notin Decisions

(* RegisteredAgent.  `usage`, `turns` and `terminal_buffer` say whether    *)
(* the field is non-default or non-empty.                                  *)
RegisteredAgent ==
    [board_sid            : Sids \cup {NoSid},
     from_hook            : BOOLEAN,
     from_launch          : BOOLEAN,
     attached_terminal    : Agents \cup {NoAgent},
     usage                : BOOLEAN,
     turns                : BOOLEAN,
     terminal_buffer      : BOOLEAN,
     pending_permissions  : Seq(ReqIds),
     resolved_permissions : [ReqIds -> Decisions \cup {NoDecision}]]

(* A record as into_registered_agent and from_session fill it in. *)
NewAgent(hook, launch, parent) ==
    [board_sid            |-> NoSid,
     from_hook            |-> hook,
     from_launch          |-> launch,
     attached_terminal    |-> parent,
     usage                |-> FALSE,
     turns                |-> FALSE,
     terminal_buffer      |-> FALSE,
     pending_permissions  |-> <<>>,
     resolved_permissions |-> [r \in ReqIds |-> NoDecision]]

(* Vec::retain and VecDeque::retain: s without the elements of `out`, in   *)
(* the order of s.  Written with ranks, not recursively, so that its       *)
(* properties can be proved (BridgeDaemonProofs).                          *)
Retain(s, out) ==
    LET keep    == {i \in DOMAIN s : s[i] \notin out}
        rank(i) == Cardinality({k \in keep : k <= i})
    IN  [j \in 1 .. Cardinality(keep) |-> s[CHOOSE i \in keep : rank(i) = j]]

---------------------------------------------------------------------------
(* HidMessage: command, wire sid, the agent whose data the payload carries *)
(* and, for the two commands a property looks into, what it carries.       *)

Screens == {"live", "clear+buffer", "clear", "placeholder"}
Cmds == {"RequestSession", "AgentMeta", "StatusUpdate", "TokenUsage",
         "TurnAppend", "PermissionReq", "Vt100Stream", "SessionHeartbeat"}
NoBody == "none"

HidMessage == [cmd   : Cmds,
               sid   : Sids \cup {Broadcast},
               agent : Agents \cup {NoAgent},
               body  : ReqIds \cup Screens \cup {NoBody}]

Message(cmd, sid, a, body) ==
    [cmd |-> cmd, sid |-> sid, agent |-> a, body |-> body]

RequestSession(a) == Message("RequestSession", Broadcast, a, NoBody)

Vt100(sid, a, screen) == Message("Vt100Stream", sid, a, screen)

(* <<m>> when the condition holds, no message otherwise. *)
Only(condition, m) == IF condition THEN <<m>> ELSE <<>>

status_message_for_agent(a, r) ==
    Only(r.board_sid # NoSid, Message("StatusUpdate", r.board_sid, a, NoBody))

token_message_for_agent(a, r) ==
    Only(r.usage /\ r.board_sid # NoSid,
         Message("TokenUsage", r.board_sid, a, NoBody))

permission_message_for_agent(a, r, req) ==
    Only(r.board_sid # NoSid, Message("PermissionReq", r.board_sid, a, req))

(* Mutant: the permissions asked before the row existed are not announced. *)
board_sync_messages_no_permissions(a, r) ==
    IF r.board_sid = NoSid THEN <<>> ELSE
       <<Message("AgentMeta", r.board_sid, a, NoBody)>>
    \o status_message_for_agent(a, r) \o token_message_for_agent(a, r)

(* What a freshly bound row needs: meta, status, usage if any, the last    *)
(* turn of a launched agent, and every pending permission in order.        *)
board_sync_messages(a, r) ==
    IF r.board_sid = NoSid THEN <<>> ELSE
       <<Message("AgentMeta", r.board_sid, a, NoBody)>>
    \o status_message_for_agent(a, r)
    \o token_message_for_agent(a, r)
    \o Only(r.from_launch /\ r.turns,
            Message("TurnAppend", r.board_sid, a, NoBody))
    \o [i \in 1 .. Len(r.pending_permissions) |->
            Message("PermissionReq", r.board_sid, a, r.pending_permissions[i])]

(* What the board's terminal view gets when the session takes the focus:   *)
(* nothing for an attached session whose parent has shown nothing yet.     *)
terminal_replay_message_for_agent(a, r) ==
    Only(/\ r.board_sid # NoSid
         /\ r.terminal_buffer \/ r.attached_terminal = NoAgent,
         Vt100(r.board_sid, a,
               IF r.terminal_buffer THEN "clear+buffer"
               ELSE IF r.from_launch THEN "clear" ELSE "placeholder"))

is_transport_only_terminal(a, r) == a \in Terminals /\ r.from_launch
============================================================================
