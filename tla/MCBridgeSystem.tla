--------------------------- MODULE MCBridgeSystem ---------------------------
(* Instances of BridgeSystem for TLC: two agents that hooks register. *)
EXTENDS BridgeSystem

CONSTANTS claude, codex, s1, s2, s3, r1, r2, allow, deny

HookLines == {[agent |-> a, from_launch |-> FALSE,
               attached_terminal |-> NoAgent] : a \in Agents}

NoAsks   == [a \in Agents |-> {}]
OneAsker == [a \in Agents |-> IF a = claude THEN {r1} ELSE {}]
BothAsk  == [a \in Agents |-> IF a = claude THEN {r1} ELSE {r2}]

BoardInputs == {"SessionResponse", "SessionRejected", "SessionInvalid",
                "PermissionRes", "other", "heartbeat"}
SessionInputs == BoardInputs \cup {"agent.register", "session.abort"}
ReliableInputs == BoardInputs \cup
    {"agent.register", "permission.request", "permission.poll"}
LossyInputs == (ReliableInputs \ {"heartbeat"})
                   \cup {"session.abort", "hid-error", "permission.resolve"}
============================================================================
