------------------------------ MODULE HostSetup ------------------------------
(***************************************************************************)
(* Installing and uninstalling on Windows (vb-daemon main.rs): the         *)
(* versioned daemon executables, everything that names one of them         *)
(* (command shims, Startup entry, shortcuts, wrapped Windows Terminal      *)
(* profiles), and the two ways into a WSL distro, the shell integration    *)
(* that puts a shim before the agents in PATH, and the wrappers that take  *)
(* their place.  An operation is a list of steps; a step may fail, which   *)
(* ends the operation or only gives a warning, and the machine may go down *)
(* between two of them.  Shims start the daemon at any time.               *)
(***************************************************************************)
EXTENDS Integers, Sequences, SequencesExt, FiniteSets

CONSTANTS
    Versions,       \* contents of the executable, which its file name hashes
    NoExe,          \* no executable
    SettingsPaths,  \* Windows Terminal settings files, in the order of the code
    OptionSets,     \* sets of options an operation may be called with
    MaxOps,         \* bound: operations
    MaxTroubles     \* bound: steps that fail and crashes

Shims == {"codex", "claude", "wsl"}
Commands == Shims \union {"startup", "links", "manage"}
Settings == ToSet(SettingsPaths)

ASSUME SetupAssumption ==
    /\ NoExe \notin Versions
    /\ SettingsPaths \in Seq(Settings)
    /\ OptionSets \subseteq SUBSET {"startup", "terminal", "links", "shell", "manage", "wrappers", "keep"}
    /\ MaxOps \in Nat /\ MaxTroubles \in Nat

VARIABLES
    machine,    \* what the machine has: wsl, login, usr, local, windows
    exes,       \* version -> "absent", "cut" or "whole"
    command,    \* command -> the executable it names, or NoExe
    profile,    \* settings file -> the commandline of its profile
    backups,    \* settings file -> backups taken of it
    distro,     \* the WSL distro: shell integration, ~/.local/bin, real-bin
    running,    \* versions of background daemons
    setup,      \* the operation in progress
    ops,        \* operations started
    troubles    \* failures and crashes so far

setupVars == <<machine, exes, command, profile, backups, distro, running, setup, ops, troubles>>

-----------------------------------------------------------------------------
(* Commandlines of profiles: the user's own, in layers of terminal-shim.   *)

TornFile == [layers |-> <<>>, torn |-> TRUE]
Native == [layers |-> <<>>, torn |-> FALSE]

(* extract_wrapped_terminal_cmdline.                                       *)
Extract(c) == IF c.layers = <<>> THEN c ELSE [c EXCEPT !.layers = Tail(@)]

(* build_terminal_profile_commandline: terminal-shim of version v, and the *)
(* commandline in base64.                                                  *)
Shimmed(c, v) == [c EXCEPT !.layers = <<v>> \o @]

(* Mutant: the commandline found is wrapped as it is.                      *)
Wrap_again(c, v) == Shimmed(c, v)

(* wrap_windows_terminal_settings_json, of one profile.                    *)
Wrap(c, v) == Shimmed(Extract(c), v)

(* strip_jsonc_comments, and the JSON parser after it.                     *)
Parses(c) == ~c.torn

Rewritten(do, c, v) == IF do = "wrap" THEN Wrap(c, v) ELSE Extract(c)

-----------------------------------------------------------------------------
(* Steps: what is done, with what ("none" where with nothing), and the     *)
(* part of the operation it is of.                                         *)

Step(part, do, with) == [part |-> part, do |-> do, with |-> with]

(* install_windows_terminal_profiles, uninstall_windows_terminal_profiles: *)
(* file after file is copied, then written, which first empties it.        *)
ProfileSteps(do) ==
    [i \in 1 .. 3 * Len(SettingsPaths) |->
        LET f == SettingsPaths[(i + 2) \div 3]
        IN  CASE i % 3 = 1 -> Step("profiles", "backup", <<do, f>>)
              [] i % 3 = 2 -> Step("profiles", "empty", f)
              [] i % 3 = 0 -> Step("profiles", "refill", f)]

If(b, steps) == IF b THEN steps ELSE <<>>
Put(a) == Step("write", "write", a)
Delete(a) == Step("remove", "remove", a)

(* run_install_windows.                                                    *)
InstallSteps(o) ==
    <<Step("stop", "stop", "none"), Step("copy", "create", "none"), Step("copy", "fill", "none"),
      Put("codex"), Put("claude"), Put("wsl")>>
    \o If("startup" \in o, <<Put("startup")>>)
    \o ProfileSteps(IF "terminal" \in o THEN "wrap" ELSE "unwrap")
    \o If("links" \in o, <<Step("links", "links", "none")>>)
    \o If("shell" \in o, <<Step("shell", "shell", "none")>>)
    \o If("manage" \in o, <<Step("manage", "manage", "none")>>)
    \o If("wrappers" \in o, <<Step("wrappers", "wrappers", "none")>>)
    \o <<Step("start", "start", "none")>>

(* Mutant: executables go before the commands that name them.              *)
UninstallSteps_exes_first(o) ==
    <<Step("stop", "stop", "none"), Step("cleanup", "cleanup", "none"),
      Delete("startup"), Delete("codex"), Delete("claude"), Delete("wsl"),
      Step("remove", "unlink", "none"), Step("unshell", "unshell", "none")>>
    \o If("keep" \notin o, ProfileSteps("unwrap"))

(* run_uninstall_windows.                                                  *)
UninstallSteps(o) ==
    <<Step("stop", "stop", "none"),
      Delete("startup"), Delete("codex"), Delete("claude"), Delete("wsl"),
      Step("remove", "unlink", "none"), Step("unshell", "unshell", "none")>>
    \o If("keep" \notin o, ProfileSteps("unwrap"))
    \o <<Step("cleanup", "cleanup", "none")>>

(* A failure of one of these parts is a warning; the part ends there.      *)
Warned == {"profiles", "links", "shell", "manage", "wrappers", "start"}

NoSetup == [op |-> "none", exe |-> NoExe, todo |-> <<>>, new |-> Native]

-----------------------------------------------------------------------------
(* The agent in the WSL distro.  ~/.local/bin has a file, or a link to a   *)
(* target outside of it; real-bin holds the agent that was in ~/.local/bin *)
(* or a link: to the same target, to the agent in /usr/bin, to the shim.   *)

Content(d) == IF d.bin = "link" THEN d.target ELSE d.bin
RealBinExists(d) == d.real \in {"agent", "usr", "target"} \/ (d.real = "shim" /\ d.shell)
RealBinRuns(d) == d.real \in {"agent", "usr"} \/ (d.real = "target" /\ d.target = "agent")

(* What `command -v` finds in a login shell that is not interactive.       *)
Current(d) ==
    IF machine.login /\ d.shell THEN "shim"
    ELSE IF machine.login /\ d.bin # "absent" THEN "bin"
    ELSE IF machine.usr THEN "usr" ELSE "none"

(* install_agent_wrapper: what is found first is linked from real-bin.     *)
Linked(d) ==
    IF Current(d) \in {"shim", "usr"} /\ d.real = "absent"
    THEN [d EXCEPT !.real = Current(d)] ELSE d

(* What is in ~/.local/bin and no wrapper goes to a backup when there is   *)
(* something in real-bin already.  Otherwise it goes to real-bin, but of a *)
(* link only the target does, and the link stays; it goes there itself     *)
(* where ln finds a link that leads nowhere.                               *)
SetAside(d) ==
    IF Content(d) # "agent" THEN d
    ELSE CASE RealBinExists(d) -> [d EXCEPT !.bin = "absent"]
           [] ~RealBinExists(d) /\ d.bin = "agent" ->
                [d EXCEPT !.real = "agent", !.bin = "absent"]
           [] d.bin = "link" /\ d.real = "shim" /\ ~d.shell ->
                [d EXCEPT !.real = "target", !.bin = "absent"]
           [] d.bin = "link" /\ d.real = "absent" -> [d EXCEPT !.real = "target"]

(* cat > "$wrapper": a link that is still there is written through.        *)
Overwritten(d) ==
    IF d.bin = "link" THEN [d EXCEPT !.target = "wrapper", !.exe = setup.exe]
    ELSE [d EXCEPT !.bin = "wrapper", !.exe = setup.exe]

(* Mutant: an agent in ~/.local/bin is overwritten.                        *)
install_agent_wrapper_overwrites(d) == Overwritten(Linked(d))

install_agent_wrapper(d) == Overwritten(SetAside(Linked(d)))

(* find_real of the shell shim skips wrappers and does not know real-bin.  *)
ShellShimFinds == Content(distro) = "agent" \/ machine.usr

(* wsl_agent_exec_script, reached by agent-shim unless the agent is        *)
(* installed on Windows.                                                   *)
AgentShimFinds ==
    machine.windows \/ RealBinRuns(distro) \/ Content(distro) = "agent" \/ machine.usr

(* The wrapper falls back to real-bin when its executable does not run.    *)
WrapperFinds ==
    IF exes[distro.exe] = "whole" THEN AgentShimFinds
    ELSE \/ RealBinRuns(distro)
         \/ distro.real = "shim" /\ distro.shell /\ ShellShimFinds

(* An interactive shell of the distro, the name of an agent typed.         *)
TypedFinds ==
    CASE distro.shell -> ShellShimFinds
      [] ~distro.shell /\ Content(distro) = "agent" -> TRUE
      [] ~distro.shell /\ Content(distro) = "wrapper" -> WrapperFinds
      [] OTHER -> machine.usr

-----------------------------------------------------------------------------
(* wsl: wsl.exe is missing or fails, lists no distro, or lists one; local: *)
(* what is in ~/.local/bin at first.                                       *)
Machine == [wsl : {"none", "empty", "distro"}, login : BOOLEAN, usr : BOOLEAN,
            local : {"no", "file", "link"}, windows : BOOLEAN]

SetupInit ==
    /\ machine \in Machine /\ (machine.local # "no" \/ machine.usr)
    /\ exes = [v \in Versions |-> "absent"]
    /\ command = [a \in Commands |-> NoExe]
    /\ profile = [f \in Settings |-> Native] /\ backups = [f \in Settings |-> {}]
    /\ distro = [shell |-> FALSE,
                 bin |-> CASE machine.local = "no" -> "absent"
                           [] machine.local = "file" -> "agent"
                           [] machine.local = "link" -> "link",
                 target |-> "agent", real |-> "absent", exe |-> NoExe]
    /\ running = {} /\ setup = NoSetup /\ ops = 0 /\ troubles = 0

OpStarts ==
    /\ setup.op = "none" /\ ops < MaxOps /\ ops' = ops + 1
    /\ \E o \in OptionSets, v \in Versions :
         setup' \in {[NoSetup EXCEPT !.op = "install", !.exe = v, !.todo = InstallSteps(o)],
                     [NoSetup EXCEPT !.op = "uninstall", !.todo = UninstallSteps(o)]}
    /\ UNCHANGED <<machine, exes, command, profile, backups, distro, running, troubles>>

Doing(do) == setup.todo # <<>> /\ Head(setup.todo).do = do
With == Head(setup.todo).with
Done == setup' = [setup EXCEPT !.todo = Tail(@)]

(* The rest of the part a step is of is skipped: its next steps.           *)
SkipPart ==
    LET part == Head(setup.todo).part
    IN  \E n \in 1 .. Len(setup.todo) :
            /\ \A i \in 1 .. n : setup.todo[i].part = part
            /\ n < Len(setup.todo) => setup.todo[n + 1].part # part
            /\ setup' = [setup EXCEPT !.todo = SubSeq(@, n + 1, Len(@))]

(* stop_background_daemon_processes_for_addr.                              *)
Stops ==
    /\ Doing("stop") /\ Done /\ running' = {}
    /\ UNCHANGED <<machine, exes, command, profile, backups, distro, ops, troubles>>

(* install_daemon_exe: a file of that name is taken as it is.              *)
CopiesExe ==
    /\ \/ /\ Doing("create") /\ exes[setup.exe] # "absent" /\ SkipPart /\ UNCHANGED exes
       \/ /\ Doing("create") /\ exes[setup.exe] = "absent" /\ Done
          /\ exes' = [exes EXCEPT ![setup.exe] = "cut"]
       \/ Doing("fill") /\ Done /\ exes' = [exes EXCEPT ![setup.exe] = "whole"]
    /\ UNCHANGED <<machine, command, profile, backups, distro, running, ops, troubles>>

(* write_agent_cmd, write_wsl_cmd, write_startup_cmd.                      *)
WritesCommand ==
    /\ Doing("write") /\ Done
    /\ command' = [command EXCEPT ![With] = setup.exe]
    /\ UNCHANGED <<machine, exes, profile, backups, distro, running, ops, troubles>>

(* install_management_start_menu_shortcuts, and                            *)
(* install_wsl_start_menu_shortcuts where a distro is listed.              *)
WritesShortcuts ==
    /\ Doing("manage") \/ (Doing("links") /\ machine.wsl = "distro")
    /\ Done
    /\ command' = [command EXCEPT ![Head(setup.todo).do] = setup.exe]
    /\ UNCHANGED <<machine, exes, profile, backups, distro, running, ops, troubles>>

(* remove_startup_cmd, remove_agent_cmds.                                  *)
RemovesCommand ==
    /\ Doing("remove") /\ Done
    /\ command' = [command EXCEPT ![With] = NoExe]
    /\ UNCHANGED <<machine, exes, profile, backups, distro, running, ops, troubles>>

(* remove_wsl_start_menu_shortcuts: the directory holds the management     *)
(* shortcuts too.                                                          *)
RemovesShortcuts ==
    /\ Doing("unlink") /\ Done
    /\ command' = [command EXCEPT !["links"] = NoExe, !["manage"] = NoExe]
    /\ UNCHANGED <<machine, exes, profile, backups, distro, running, ops, troubles>>

(* A settings file that cannot be parsed ends the part; one that needs no  *)
(* change is left alone.                                                   *)
SavesProfile ==
    /\ Doing("backup")
    /\ LET f == With[2]
           new == Rewritten(With[1], profile[f], setup.exe)
       IN  /\ Parses(profile[f])
           /\ IF new = profile[f]
              THEN /\ setup' = [setup EXCEPT !.todo = SubSeq(@, 4, Len(@))]
                   /\ UNCHANGED backups
              ELSE /\ setup' = [setup EXCEPT !.todo = Tail(@), !.new = new]
                   /\ backups' = [backups EXCEPT ![f] = @ \union {profile[f]}]
    /\ UNCHANGED <<machine, exes, command, profile, distro, running, ops, troubles>>

(* fs::write empties the file before it writes what was made of it.        *)
WritesProfile ==
    /\ \/ Doing("empty") /\ profile' = [profile EXCEPT ![With] = TornFile]
       \/ Doing("refill") /\ profile' = [profile EXCEPT ![With] = setup.new]
    /\ Done
    /\ UNCHANGED <<machine, exes, command, backups, distro, running, ops, troubles>>

(* install_wsl_shell_integration, remove_wsl_shell_integrations,           *)
(* install_wsl_distro, in the distro that is listed; where list_wsl_distros *)
(* gives an empty list they succeed and do nothing.                        *)
ChangesDistro ==
    /\ \/ /\ machine.wsl = "distro"
          /\ \/ Doing("shell") /\ distro' = [distro EXCEPT !.shell = TRUE]
             \/ Doing("unshell") /\ distro' = [distro EXCEPT !.shell = FALSE]
             \/ Doing("wrappers") /\ distro' = install_agent_wrapper(distro)
       \/ /\ machine.wsl = "empty" /\ UNCHANGED distro
          /\ Doing("links") \/ Doing("shell") \/ Doing("unshell") \/ Doing("wrappers")
    /\ Done
    /\ UNCHANGED <<machine, exes, command, profile, backups, running, ops, troubles>>

(* cleanup_daemon_exes: executables in use cannot be removed.              *)
CleansUp ==
    /\ Doing("cleanup") /\ Done
    /\ \E used \in SUBSET Versions :
         /\ running \subseteq used
         /\ exes' = [v \in Versions |-> IF v \in used THEN exes[v] ELSE "absent"]
    /\ UNCHANGED <<machine, command, profile, backups, distro, running, ops, troubles>>

(* ensure_daemon_listening_with_exe, by the installer and by shims.        *)
Bootstraps(v) ==
    running' = IF running = {} /\ exes[v] = "whole" THEN {v} ELSE running

StartsDaemon ==
    /\ Doing("start") /\ Done /\ Bootstraps(setup.exe)
    /\ UNCHANGED <<machine, exes, command, profile, backups, distro, ops, troubles>>

ShimRuns ==
    /\ running = {}
    /\ \E a \in Shims : command[a] # NoExe /\ exes[command[a]] = "whole" /\ Bootstraps(command[a])
    /\ UNCHANGED <<machine, exes, command, profile, backups, distro, setup, ops, troubles>>

(* A step fails: what cannot be read or listed does, the others may.  Only *)
(* the parts that warn let the operation go on.                            *)
StepFails ==
    /\ setup.todo # <<>>
    /\ LET s == Head(setup.todo)
           must == \/ machine.wsl = "none" /\ s.do \in {"links", "shell", "unshell", "wrappers"}
                   \/ s.do = "backup" /\ ~Parses(profile[s.with[2]])
       IN  /\ \/ must /\ UNCHANGED troubles
              \/ ~must /\ troubles < MaxTroubles /\ troubles' = troubles + 1
           /\ \/ (s.part \in Warned \/ (s.do = "unshell" /\ machine.wsl = "distro")) /\ SkipPart
              \/ s.part \notin Warned /\ setup' = [setup EXCEPT !.todo = <<>>]
    /\ UNCHANGED <<machine, exes, command, profile, backups, distro, running, ops>>

OpEnds ==
    /\ setup.op # "none" /\ setup.todo = <<>> /\ setup' = NoSetup
    /\ UNCHANGED <<machine, exes, command, profile, backups, distro, running, ops, troubles>>

(* The machine goes down.                                                  *)
Crash ==
    /\ setup.op # "none" /\ troubles < MaxTroubles /\ troubles' = troubles + 1
    /\ setup' = NoSetup /\ running' = {}
    /\ UNCHANGED <<machine, exes, command, profile, backups, distro, ops>>

SetupNext ==
    \/ OpStarts \/ Stops \/ CopiesExe \/ WritesCommand \/ WritesShortcuts
    \/ RemovesCommand \/ RemovesShortcuts
    \/ SavesProfile \/ WritesProfile
    \/ ChangesDistro \/ CleansUp \/ StartsDaemon \/ ShimRuns \/ StepFails \/ OpEnds \/ Crash

SetupSpec == SetupInit /\ [][SetupNext]_setupVars
-----------------------------------------------------------------------------
(* At no point of an install or uninstall, whichever step failed and       *)
(* wherever the machine went down, does a command shim, the Startup entry  *)
(* or a shortcut name an executable that is not there.                     *)
NoDanglingCommand ==
    \A a \in Commands : command[a] # NoExe => exes[command[a]] # "absent"

(* The user's own commandline can always be had back: unwrapping gives it, *)
(* of the settings file or, where a write of it was cut, of a backup,      *)
(* however often profiles were wrapped by one version and another.         *)
CommandlineKept ==
    \A f \in Settings :
        \E c \in IF profile[f].torn THEN backups[f] ELSE {profile[f]} : Extract(c) = Native

(* "Do not break the normal codex and claude": an agent of the distro is   *)
(* found when its name is typed, after installs and uninstalls in any      *)
(* order and whatever failed, as long as the wrappers and the shell        *)
(* integration are not installed one after the other, and where            *)
(* install_agent_wrapper did not write through a link (RealBinIsNoWrapper).*)
AgentStillRuns ==
    \/ distro.real = "shim"
    \/ distro.shell /\ Content(distro) = "wrapper"
    \/ distro.target = "wrapper"
    \/ TypedFinds

(* HANDOFF.md: the wrappers save the real CLI to real-bin.  What real-bin  *)
(* leads to is never the wrapper itself (MEMORY.md: it must not be spoilt).*)
RealBinIsNoWrapper == distro.real = "target" => distro.target # "wrapper"

(* MEMORY.md: an uninstall must restore terminal, profile, startup, shims  *)
(* and shell integration.  One in which nothing fails but what cannot be   *)
(* done on this machine leaves no profile wrapped.                         *)
UninstallRestores ==
    setup.op = "uninstall" /\ setup.todo = <<>> /\ troubles = 0 =>
        \A f \in Settings : profile[f].layers = <<>>
=============================================================================
