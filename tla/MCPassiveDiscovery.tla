------------------------- MODULE MCPassiveDiscovery -------------------------
(* Instance of PassiveDiscovery for TLC: two transcripts, and a hook that  *)
(* may claim one of them.                                                  *)
EXTENDS PassiveDiscovery

CONSTANTS claude, codex, s1, s2

HookLines == {[agent |-> claude, from_launch |-> FALSE,
               attached_terminal |-> NoAgent]}
PassiveInputs == {"agent.register", "session.abort", "SessionResponse",
                  "SessionInvalid", "passive"}
============================================================================
