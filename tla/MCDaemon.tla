------------------------------ MODULE MCDaemon ------------------------------
(* Instances of the daemon for TLC, under an arbitrary board.  A behaviour *)
(* has the clients of one of three parts, chosen at the start: hooks that  *)
(* come and go, a captured terminal, and the transcript poller.            *)
EXTENDS PassiveDiscovery

CONSTANTS claude, codex, shell, s1, s2

VARIABLE part

Line(a, launch, parent) ==
    [agent |-> a, from_launch |-> launch, attached_terminal |-> parent]

(* Two agents reported by hooks, and sends that fail. *)
Hooked == INSTANCE PassiveDiscovery WITH
    Registrations <- {Line(claude, FALSE, NoAgent), Line(codex, FALSE, NoAgent)},
    Discoverable <- {},
    Inputs <- {"agent.register", "session.abort", "SessionResponse",
               "SessionRejected", "SessionInvalid", "heartbeat", "hid-error"}

(* A captured terminal, the agent launched in it, and its hook. *)
Captured == INSTANCE PassiveDiscovery WITH
    Registrations <- {Line(shell, TRUE, NoAgent), Line(claude, TRUE, shell),
                      Line(claude, FALSE, NoAgent)},
    Discoverable <- {},
    Inputs <- {"agent.register", "agent.activity", "token.update",
               "turn.append", "terminal.stream", "session.abort", "no-op",
               "SessionResponse", "SessionFocus", "other"},
    MaxOutbox <- 2

(* Two transcripts, one of which a hook may claim. *)
Polled == INSTANCE PassiveDiscovery WITH
    Registrations <- {Line(claude, FALSE, NoAgent)},
    Discoverable <- {claude, codex},
    Inputs <- {"agent.register", "session.abort", "passive",
               "SessionResponse", "SessionInvalid", "SessionFocus"}

DaemonInit == PDInit /\ part \in {"hooked", "captured", "polled"}

DaemonNext ==
    /\ \/ part = "hooked" /\ Hooked!PDNext
       \/ part = "captured" /\ Captured!PDNext
       \/ part = "polled" /\ Polled!PDNext
    /\ UNCHANGED part

DaemonSpec == DaemonInit /\ [][DaemonNext]_<<vars, unseen, part>>

(* All that the parts use. *)
AllLines == {Line(shell, TRUE, NoAgent), Line(claude, TRUE, shell),
             Line(claude, FALSE, NoAgent), Line(codex, FALSE, NoAgent)}
=============================================================================
