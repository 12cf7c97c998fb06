---------------------------- MODULE LaunchSession ---------------------------
(***************************************************************************)
(* A captured terminal: `terminal-shim` and run_launch (vb-daemon main.rs) *)
(* run a command in a pseudoconsole (conpty.rs), show its output, stream   *)
(* it to the daemon and report its end.  The main thread, the stdout pump, *)
(* the stdin pump, the ack drainer and the resize watcher share a TCP      *)
(* connection and the ConPTY session; the command, the console host, the   *)
(* user's window and the daemon's client thread are the environment.       *)
(* The daemon appends what it gets to the replay buffer (TerminalBuffer).  *)
(***************************************************************************)
EXTENDS TerminalBuffer, FiniteSets

CONSTANTS
    Output,     \* bound: bytes the command writes
    ReadMax,    \* 4096: bytes one read of the pseudoconsole returns at most
    ReqCap,     \* bound: lines the sockets hold towards the daemon
    AckCap,     \* bound: response lines the sockets hold towards the client
    Windows,    \* sizes of the user's window; Tiny is one below the LCD's
    Tiny,
    MaxWindows  \* bound: times the user resizes the window

ASSUME LaunchAssumption ==
    /\ Output \in Nat /\ MaxWindows \in Nat
    /\ ReadMax \in Nat \ {0} /\ ReqCap \in Nat \ {0} /\ AckCap \in Nat \ {0}

VARIABLES
    pc,         \* the main thread
    session,    \* handles of the ConPTY session that are open
    env,        \* the process environment: PATH, and the variables set
    runtimeDir, \* the directory of the runtime shims exists
    console,    \* mode of the user's console: "own" or "passthrough"
    child,      \* the command: "none", "runs", "ended"
    others,     \* another process is attached to the pseudoconsole
    written,    \* bytes the command has written
    piped,      \* bytes the stdout pump has read
    outEnd,     \* the console host has closed its output
    pump,       \* the stdout pump
    chunk,      \* what it read last: <<first, last>>
    stream,     \* daemon_stream_enabled
    stdin,      \* the stdin pump: "off", "reads", "ended"
    conn,       \* the connection: "none", "up", "broken"
    req,        \* lines on their way to the daemon
    acks,       \* responses on their way back
    daemon,     \* the client thread: "reads" or "answers"
    known,      \* the agent in the daemon: "no", "yes", "aborted"
    watch,      \* the resize watcher: "off" or last_size
    pty,        \* size of the pseudoconsole
    window,     \* the user's window
    resizes     \* times the user resized it

ends  == <<child, others, written, outEnd>>
pumps == <<piped, pump, chunk, stream, stdin>>
link  == <<conn, req, acks, daemon, known, terminal_buffer, terminal_buffer_len, total>>
sizes == <<watch, pty, window, resizes>>
scope == <<session, env, runtimeDir, console>>
launchVars == <<pc, scope, ends, pumps, link, sizes>>

Line(kind, c) == [kind |-> kind, first |-> c[1], last |-> c[2]]
Pipes == {"in_read", "in_write", "out_read", "out_write"}
Vars == {"DAEMON", "TERMINAL_AGENT_ID", "TERMINAL_KIND", "CAPTURED_TERMINAL"}
Ended == {"done", "passthrough"}
PumpDone == pump \in {"ended", "failed"}
InitialSize == CHOOSE w \in Windows : w # Tiny

LaunchInit ==
    /\ pc = "ensure"
    /\ session = {} /\ runtimeDir = FALSE /\ console = "own"
    /\ env \in [path : {<<"user">>, <<"bin", "user">>}, vars : {{}}]
    /\ child = "none" /\ others = FALSE /\ written = 0 /\ outEnd = FALSE
    /\ piped = 0 /\ pump = "off" /\ chunk = <<1, 0>> /\ stream = TRUE
    /\ stdin = "off"
    /\ conn = "none" /\ req = <<>> /\ acks = 0 /\ daemon = "reads" /\ known = "no"
    /\ BufferInit
    /\ watch = "off" /\ resizes = 0
    /\ window = InitialSize /\ pty = InitialSize

-----------------------------------------------------------------------------
(* The main thread.                                                        *)

(* ensure_daemon_listening, then TcpStream::connect.  When either fails    *)
(* the terminal shim runs the command itself.                              *)
Connects ==
    /\ pc = "ensure"
    /\ \/ pc' = "enter" /\ conn' = "up"
       \/ pc' = "passthrough" /\ UNCHANGED conn
    /\ UNCHANGED <<scope, ends, pumps, req, acks, daemon, known, bufferVars, sizes>>

(* The guards of a Vec are dropped first to last, each puts back the value *)
(* it found: of two that changed PATH the second one wins, and what the    *)
(* first one had put in front stays.                                       *)
Restored(e) ==
    [path |-> IF Head(e.path) = "runtime" THEN Tail(e.path) ELSE <<"runtime", "user">>,
     vars |-> {}]

(* create_captured_terminal_runtime_shims makes a directory for wsl.cmd;   *)
(* it and, unless PATH has it, the one of the installed shims come first.  *)
ShimmedPath(path) ==
    IF "bin" \in ToSet(path) THEN <<"runtime">> \o path ELSE <<"bin", "runtime">> \o path

(* TerminalChildEnvGuard::enter, and the guards run_launch takes itself.   *)
EntersEnv ==
    /\ pc = "enter"
    /\ \/ /\ runtimeDir' = TRUE /\ pc' = "spawn"
          /\ env' = [path |-> ShimmedPath(env.path), vars |-> Vars]
          /\ UNCHANGED conn
       \/ /\ pc' = "passthrough" /\ conn' = "none"
          /\ UNCHANGED <<env, runtimeDir>>
    /\ UNCHANGED <<session, console, ends, pumps, req, acks, daemon, known, bufferVars, sizes>>

(* ConsoleModeGuard::enter_passthrough: has no effect without a console.   *)
EntersPassthrough == console' \in {"own", "passthrough"}

(* ... and the modes it found are put back when the guard is dropped.      *)
RestoresConsole == console' = "own"

(* The environment is restored and the runtime shims are removed.          *)
LeavesEnv == env' = Restored(env) /\ runtimeDir' = FALSE

(* run_launch returns an error: its locals are dropped in reverse order,   *)
(* the watcher joined, the console mode put back, the session closed (and  *)
(* with it the command), the environment restored, the connection left to  *)
(* the ack drainer.  The shim then runs the command without the bridge.    *)
LaunchFails(left) ==
    /\ pc' = "passthrough"
    /\ session' = left
    /\ RestoresConsole /\ LeavesEnv
    /\ conn' = "none" /\ watch' = "off"

(* The steps of ConPtySession::spawn, what each opens, and what its error  *)
(* path closes.                                                            *)
SpawnSteps == <<"pipe1", "pipe2", "console", "attrs", "process">>
Opened(n) == (IF n > 1 THEN {"in_read", "in_write"} ELSE {})
             \union (IF n > 2 THEN {"out_read", "out_write"} ELSE {})
             \union (IF n > 3 THEN {"pty"} ELSE {})
             \union (IF n > 4 THEN {"attrs"} ELSE {})

(* Mutant: the error path of the attribute list forgets the pseudoconsole. *)
Closed_not_pty(n) ==
    CASE n = 1 -> {} [] n = 2 -> {"in_read", "in_write"} [] n = 3 -> Pipes
      [] n = 4 -> Pipes [] n = 5 -> Pipes \union {"pty", "attrs"}

(* The pipe ends handed to the pseudoconsole are closed whether it could   *)
(* be created or not; the attribute list is dropped on return.             *)
Closed(n) ==
    CASE n = 1 -> {} [] n = 2 -> {"in_read", "in_write"} [] n = 3 -> Pipes
      [] n = 4 -> Pipes \union {"pty"} [] n = 5 -> Pipes \union {"pty", "attrs"}

SpawnFails ==
    /\ pc = "spawn"
    /\ \E n \in DOMAIN SpawnSteps : LaunchFails(Opened(n) \ Closed(n))
    /\ UNCHANGED <<ends, pumps, req, acks, daemon, known, bufferVars, pty, window, resizes>>

(* effective_conpty_size: the size of the window or, when that is below    *)
(* the LCD's, the size asked for.                                          *)
EffectiveSize == IF window = Tiny THEN InitialSize ELSE window

(* The command runs in a pseudoconsole, the resize watcher starts, and the *)
(* console is put into passthrough mode.                                   *)
Spawns ==
    /\ pc = "spawn"
    /\ session' = (Pipes \ {"in_read", "out_write"}) \union {"pty", "attrs", "process"}
    /\ child' = "runs" /\ others' \in BOOLEAN
    /\ pty' = EffectiveSize /\ watch' = pty'
    /\ EntersPassthrough
    /\ pc' = "register"
    /\ UNCHANGED <<env, runtimeDir, written, outEnd, pumps, link, window, resizes>>

(* send_json_line: a blocking write, which fails on a broken connection.   *)
Sends(line) == conn = "up" /\ Len(req) < ReqCap /\ req' = Append(req, line)

Registers ==
    /\ pc = "register"
    /\ \/ /\ Sends(Line("register", <<1, 0>>))
          /\ pc' = "waits" /\ pump' = "reads" /\ stdin' = "reads"
          /\ UNCHANGED <<scope, child, conn, watch>>
       \/ /\ conn = "broken"
          /\ LaunchFails({}) /\ child' = "ended"
          /\ UNCHANGED <<req, pump, stdin>>
    /\ UNCHANGED <<others, written, outEnd, piped, chunk, stream, acks, daemon, known,
                   bufferVars, pty, window, resizes>>

(* Mutant: the end is reported as soon as the command has exited.          *)
ChildWaited_reports ==
    /\ pc = "waits" /\ child = "ended"
    /\ watch' = "off" /\ pc' = "abort"
    /\ UNCHANGED <<scope, ends, pumps, link, pty, window, resizes>>

(* session.wait returns; the watcher is stopped and joined.                *)
ChildWaited ==
    /\ pc = "waits" /\ child = "ended"
    /\ watch' = "off" /\ pc' = "join"
    /\ UNCHANGED <<scope, ends, pumps, link, pty, window, resizes>>

(* The join of the pump's thread; that it returned an error is ignored.    *)
Joins ==
    /\ pc = "join" /\ PumpDone
    /\ pc' = "abort"
    /\ UNCHANGED <<scope, ends, pumps, link, sizes>>

(* The session is shared with the stdin pump, which is detached: while it  *)
(* waits for input the session stays open.                                 *)
DropsSession == session' = IF stdin = "ended" THEN {} ELSE session

(* session.abort, its error ignored; then everything is dropped.           *)
Aborts ==
    /\ pc = "abort"
    /\ \/ Sends(Line("abort", <<1, 0>>))
       \/ conn = "broken" /\ UNCHANGED req
    /\ pc' = "done"
    /\ DropsSession /\ RestoresConsole /\ LeavesEnv
    /\ UNCHANGED <<ends, pumps, conn, acks, daemon, known, bufferVars, sizes>>

-----------------------------------------------------------------------------
(* The pumps.                                                              *)

(* ReadFile on the pseudoconsole returns what is there, at most ReadMax;   *)
(* the bytes are shown to the user before they are sent.  An error other   *)
(* than a broken pipe ends the thread with output unread.                  *)
PumpReads ==
    /\ pump = "reads"
    /\ \/ \E n \in 1..ReadMax :
            /\ piped + n <= written
            /\ chunk' = <<piped + 1, piped + n>> /\ piped' = piped + n
            /\ pump' = IF stream THEN "sends" ELSE "reads"
       \/ /\ outEnd /\ piped = written
          /\ pump' = "ended" /\ UNCHANGED <<chunk, piped>>
       \/ pump' = "failed" /\ UNCHANGED <<chunk, piped>>
    /\ UNCHANGED <<pc, scope, ends, stream, stdin, link, sizes>>

(* Mutant: a chunk that cannot be sent at once is dropped.                 *)
PumpSends_drops ==
    /\ pump = "sends"
    /\ \/ Sends(Line("stream", chunk)) /\ UNCHANGED stream
       \/ conn = "up" /\ Len(req) = ReqCap /\ UNCHANGED <<req, stream>>
       \/ conn = "broken" /\ stream' = FALSE /\ UNCHANGED req
    /\ pump' = "reads"
    /\ UNCHANGED <<pc, scope, ends, piped, chunk, stdin, conn, acks, daemon, known,
                   bufferVars, sizes>>

(* terminal.stream; after a failed send the output is only shown.          *)
PumpSends ==
    /\ pump = "sends"
    /\ \/ Sends(Line("stream", chunk)) /\ UNCHANGED stream
       \/ conn = "broken" /\ stream' = FALSE /\ UNCHANGED req
    /\ pump' = "reads"
    /\ UNCHANGED <<pc, scope, ends, piped, chunk, stdin, conn, acks, daemon, known,
                   bufferVars, sizes>>

(* The stdin pump forwards what the user types until the input ends or the *)
(* pseudoconsole refuses it.                                               *)
StdinEnds ==
    /\ stdin = "reads" /\ stdin' = "ended"
    /\ UNCHANGED <<pc, scope, ends, piped, pump, chunk, stream, link, sizes>>

(* Mutant: nobody reads the responses.                                     *)
Drains_never == FALSE /\ UNCHANGED launchVars

(* The ack drainer: keeps the daemon from blocking on its response.        *)
Drains ==
    /\ acks > 0 /\ conn = "up"
    /\ acks' = acks - 1
    /\ UNCHANGED <<pc, scope, ends, pumps, conn, req, daemon, known, bufferVars, sizes>>

(* Mutant: a size is remembered although the pseudoconsole refused it.     *)
Resizes_once ==
    /\ watch \notin {"off", window} /\ window # Tiny
    /\ watch' = window
    /\ pty' \in {pty, window}
    /\ UNCHANGED <<pc, scope, ends, pumps, link, window, resizes>>

(* A round of the resize watcher: the size is remembered when the          *)
(* pseudoconsole took it, so a refused one is tried again.                 *)
Resizes ==
    /\ watch \notin {"off", window} /\ window # Tiny
    /\ watch' = window /\ pty' = window
    /\ UNCHANGED <<pc, scope, ends, pumps, link, window, resizes>>

-----------------------------------------------------------------------------
(* The daemon's client thread, and the rest of the environment.            *)

DaemonHandles ==
    /\ conn = "up" /\ daemon = "reads" /\ req # <<>>
    /\ LET line == Head(req)
       IN  /\ req' = Tail(req)
           /\ known' = CASE line.kind = "register" -> "yes"
                         [] line.kind = "abort" -> "aborted" [] OTHER -> known
           /\ IF line.kind = "stream" /\ known = "yes"
              THEN append_terminal_bytes(line.first, line.last)
              ELSE UNCHANGED bufferVars
    /\ daemon' = "answers"
    /\ UNCHANGED <<pc, scope, ends, pumps, conn, acks, sizes>>

(* The response is written before the next line is read; a full socket     *)
(* blocks the thread.                                                      *)
DaemonAnswers ==
    /\ daemon = "answers" /\ (conn = "up" => acks < AckCap)
    /\ daemon' = "reads"
    /\ acks' = IF conn = "up" THEN acks + 1 ELSE acks
    /\ UNCHANGED <<pc, scope, ends, pumps, conn, req, known, bufferVars, sizes>>

(* The daemon exits: every later write fails.                              *)
DaemonEnds ==
    /\ conn = "up" /\ conn' = "broken" /\ req' = <<>>
    /\ UNCHANGED <<pc, scope, ends, pumps, acks, daemon, known, bufferVars, sizes>>

ChildWrites ==
    /\ child = "runs" /\ "pty" \in session
    /\ written < Output /\ written' = written + 1
    /\ UNCHANGED <<pc, scope, child, others, outEnd, pumps, link, sizes>>

ChildEnds ==
    /\ child = "runs" /\ child' = "ended"
    /\ UNCHANGED <<pc, scope, others, written, outEnd, pumps, link, sizes>>

OthersEnd ==
    /\ others /\ child = "ended" /\ others' = FALSE
    /\ UNCHANGED <<pc, scope, child, written, outEnd, pumps, link, sizes>>

(* The console host closes its output when nobody is attached any more.    *)
(* It need not, while the launch holds the pseudoconsole, which is until   *)
(* after the join: no fairness, so a behaviour may never take this step.   *)
HostCloses ==
    /\ child = "ended" /\ ~others /\ ~outEnd
    /\ outEnd' = TRUE
    /\ UNCHANGED <<pc, scope, child, others, written, pumps, link, sizes>>

UserResizes ==
    /\ resizes < MaxWindows /\ resizes' = resizes + 1
    /\ window' \in Windows \ {window}
    /\ UNCHANGED <<pc, scope, ends, pumps, link, watch, pty>>

-----------------------------------------------------------------------------
Main == Connects \/ EntersEnv \/ SpawnFails \/ Spawns \/ Registers \/ ChildWaited
        \/ Joins \/ Aborts

LaunchNext ==
    \/ Main \/ PumpReads \/ PumpSends \/ StdinEnds \/ Drains \/ Resizes
    \/ DaemonHandles \/ DaemonAnswers \/ DaemonEnds
    \/ ChildWrites \/ ChildEnds \/ OthersEnd \/ HostCloses \/ UserResizes

LaunchSpec == LaunchInit /\ [][LaunchNext]_launchVars

(* Every thread runs; the daemon reads and answers.                        *)
LaunchFairSpec ==
    /\ LaunchSpec
    /\ WF_launchVars(Main) /\ WF_launchVars(PumpReads) /\ WF_launchVars(PumpSends)
    /\ WF_launchVars(Drains) /\ WF_launchVars(Resizes)
    /\ WF_launchVars(DaemonHandles) /\ WF_launchVars(DaemonAnswers)

-----------------------------------------------------------------------------
(* When the terminal shim falls back to running the command itself, after  *)
(* a failure at any step of the launch, the user's terminal is as it was:  *)
(* no captured copy of the command runs, no handle is left open, the       *)
(* console has its own mode, nobody else reads its input, the bridge's     *)
(* variables are gone, and PATH finds what it found before.                *)
FallbackIsClean ==
    pc = "passthrough" =>
        /\ child # "runs" /\ session = {} /\ stdin = "off" /\ watch = "off"
        /\ console = "own" /\ env.vars = {}
        /\ \E path \in {<<"user">>, <<"bin", "user">>} :
              env.path = path \/ (~runtimeDir /\ env.path = <<"runtime">> \o path)

(* The abort is the last line of the launch: the pump that shares the      *)
(* connection is joined first, so no output arrives for an agent the       *)
(* daemon has dropped (it would be taken for output of nobody, and lost).  *)
AbortIsLast ==
    /\ \A i \in DOMAIN req : req[i].kind = "abort" => i = Len(req) /\ PumpDone
    /\ known = "aborted" => req = <<>> /\ pump # "sends"

(* The launch never hangs on its daemon: once the command and everything   *)
(* attached to its console is gone and the console's output has ended, or  *)
(* the pump failed to read it, run_launch returns, and a daemon that is    *)
(* still there has dropped the agent, having got all that the pump read:   *)
(* all of the output unless reading it failed.                             *)
LaunchEnds ==
    (child = "ended" /\ ~others /\ (outEnd \/ pump = "failed")) ~>
        /\ pc \in Ended
        /\ conn = "up" => known = "aborted" /\ total = piped
        /\ conn = "up" => pump = "failed" \/ total = written

(* The pseudoconsole follows the user's window: unless the window is too   *)
(* small for the LCD or the launch is over, it gets its size.              *)
PtyFollowsWindow == []<>(pty = window \/ window = Tiny \/ watch = "off")
=============================================================================
