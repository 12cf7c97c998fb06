------------------------------- MODULE MCHost -------------------------------
(* Instances for TLC of the parts of the host that share no state with     *)
(* each other: the HID transport, a captured terminal, the discovery       *)
(* poller and the installation.  One of them runs in a behaviour, chosen   *)
(* at the start; the others stay in an initial state.                      *)
EXTENDS HidTransport, LaunchSession, AgentDiscovery, HostSetup

CONSTANTS tiny, small, large,                   \* window sizes
          t1, t2, top, left, right,             \* transcripts, directories
          v1, v2, stable, preview               \* executables, settings files

(* HidTransport: a message of two frames and an empty one to the board.    *)
Lengths == <<3, 0>>

(* AgentDiscovery: two sessions, of one kind or two, in neighbouring       *)
(* directories, agents there and in the directory above.                   *)
TwoFiles == <<t1, t2>>
Directories == {top, left, right}
Tree == {<<top, left>>, <<top, right>>}
TwoKinds == {[f \in {t1, t2} |-> "codex"],
             [f \in {t1, t2} |-> IF f = t1 THEN "codex" ELSE "claude"]}
Sides == [f \in {t1, t2} |-> IF f = t1 THEN left ELSE right]
JSON(type, sub, role, failed, text) ==
    [type |-> type, sub |-> sub, role |-> role, failed |-> failed, text |-> text]
CodexLines == {JSON("event_msg", "approval", "none", FALSE, FALSE),
               JSON("response_item", "message", "assistant", FALSE, TRUE)}
ClaudeLines == {JSON("user", "none", "none", FALSE, TRUE),
                JSON("assistant", "tool_use", "none", TRUE, FALSE)}
AllLines == [k \in {"codex", "claude"} |-> IF k = "codex" THEN CodexLines ELSE ClaudeLines]
Found == {<<"codex", top>>, <<"codex", left>>}
Windows2 == {[cwds |-> {}, kind |-> "codex", shell |-> FALSE],
             [cwds |-> {left, right}, kind |-> "claude", shell |-> FALSE],
             [cwds |-> {right}, kind |-> "none", shell |-> TRUE]}
Labels == [c \in {top, left, right} |-> 3]

(* HostSetup: two versions, two settings files, two choices of options.    *)
OneSettings == <<stable>>
Flags == {{"startup", "links", "shell", "manage"}, {"terminal", "wrappers"}}

VARIABLE part   \* the part of the host that runs

hostVars == <<part, hidVars, launchVars, discoveryVars, setupVars>>

HostInit ==
    /\ part \in {"hid", "launch", "discovery", "setup"}
    /\ HidInit /\ (part # "hid" => present)
    /\ LaunchInit /\ (part # "launch" => env.path = <<"user">>)
    /\ DiscoveryInit /\ (part # "discovery" => kindOf[t2] = "codex")
    /\ SetupInit
    /\ part # "setup" \/ machine.wsl # "distro" =>
         machine.login /\ machine.usr /\ machine.local = "file" /\ machine.windows
    /\ part # "setup" => machine.wsl = "distro"

HostNext ==
    \/ /\ part = "hid" /\ HidNext
       /\ UNCHANGED <<part, launchVars, discoveryVars, setupVars>>
    \/ /\ part = "launch" /\ LaunchNext
       /\ UNCHANGED <<part, hidVars, discoveryVars, setupVars>>
    \/ /\ part = "discovery" /\ DiscoveryNext
       /\ UNCHANGED <<part, hidVars, launchVars, setupVars>>
    \/ /\ part = "setup" /\ SetupNext
       /\ UNCHANGED <<part, hidVars, launchVars, discoveryVars>>

(* The fairness of HidFairSpec and LaunchFairSpec.                         *)
HostSpec ==
    /\ HostInit /\ [][HostNext]_hostVars
    /\ WF_hidVars(part = "hid" /\ Reader) /\ WF_hidVars(part = "hid" /\ Flush)
    /\ WF_hidVars(part = "hid" /\ Plugged)
    /\ WF_launchVars(part = "launch" /\ Main)
    /\ WF_launchVars(part = "launch" /\ PumpReads)
    /\ WF_launchVars(part = "launch" /\ PumpSends)
    /\ WF_launchVars(part = "launch" /\ Drains)
    /\ WF_launchVars(part = "launch" /\ Resizes)
    /\ WF_launchVars(part = "launch" /\ DaemonHandles)
    /\ WF_launchVars(part = "launch" /\ DaemonAnswers)
=============================================================================
