# Vibe Bridge: TLA+ models and proofs

Vibe Bridge shows the coding agents of a workstation (Claude Code, Codex, ...)
on an external board with a small LCD. A host process, the *bridge daemon*,
collects agent sessions from hooks, launchers and transcript files, asks the
board for a row (a *sid*) per session over USB HID, mirrors terminal bytes to the
board, and carries permission prompts to it and the user's answers back. Around
it are a launcher that captures a terminal, a poller that finds agents by their
transcripts, and an installer. This directory models these programs and checks
and proves what they promise.

## Inventory

| Component | Source | State | Operations | Talks to | Modelled in |
|---|---|---|---|---|---|
| Bridge daemon core | `crates/vb-daemon/src/lib.rs` | table of registered agents, queue of agents waiting for a sid, focused sid, outbox, missing counts | 10 client line types, 6 board messages, poll of transcripts | clients by TCP lines, board by HID messages, discovery thread | `BridgeDaemon` |
| Daemon threads | same, `run_tcp_hid_daemon` | one mutex; reader, heartbeat, passive and client threads | critical sections of each | the core | `BridgeDaemon` |
| Daemon, link and board together | same | plus what is in flight and the board's rows | all of the above | - | `BridgeSystem` |
| Passive discovery in the daemon | same, `prune_missing_passive_sessions` | missing counts | poll | transcripts | `PassiveDiscovery` |
| Replay buffer | same, `append_terminal_bytes` | 64 KiB ring of chunks | append, snapshot | focus replay | `TerminalBuffer` |
| Hook adapter | `adapters/claude-code-hook/index.js` | one request per process | register, ask, poll, time out | daemon | `PermissionHook` |
| HID transport, frame codec | `crates/vb-transport/src/windows.rs`, `crates/vb-protocol` | shared handle slot, open handles and their queues | send, recv, reopen, invalidate; split, encode | reader and flushing threads of the daemon | `HidTransport` |
| Terminal launcher, ConPTY session | `crates/vb-daemon/src/main.rs`, `conpty.rs` | child, handles, environment, console mode, threads | launch, pump, drain, resize, abort, fall back | daemon, console host | `LaunchSession` |
| Agent discovery poller | `crates/vb-host/src/agent_discovery.rs` | file cursors, sessions seen | poll | transcripts, process scan, window titles | `AgentDiscovery` |
| Windows installer | `crates/vb-daemon/src/main.rs` | executables, shims, shortcuts, terminal profiles, WSL distro | install, uninstall, bootstrap | file system, WSL | `HostSetup` |
| Python host | `src/vibe_bridge/*.py` | owner tables, session pool, per-sid buffers, queues | plugin requests, HID events, heartbeats | HID | not modelled |
| Window titles and processes | `windows_terminal.rs` | - | OS calls | poller | not modelled: its results are inputs of `AgentDiscovery` |
| Desktop application | `desktop/` | - | starts the installed binaries | - | not modelled |

Paths in the table are relative to the parts of the repository they live in
(`src/` of the repository for Python, `crates/` for Rust).

What is hard in this code:

* **Pairing without a name.** `SESSION_RESPONSE` carries no agent. The daemon
  gives the sid to the head of `pending_board_sessions`. Everything that removes,
  binds or re-registers an agent has to keep that queue in step.
* **Two critical sections per line.** A client thread handles a line under the
  mutex, writes its response without it, and takes it again to flush. Any other
  thread may run between; a thread whose response fails never flushes.
* **A link that comes and goes.** Sends fail half-way, are retried by the
  transport, and failed messages go back to the head of the outbox. The board
  restarts and drops rows whose heartbeats stop.
* **A handle that is replaced under a blocked reader.** A flush that fails
  empties the slot the reader cloned its handle from; two handles can be open,
  and each gets every report of the board.
* **A sid that changes hands.** The board reuses sids; answers, focus and
  invalidations for a sid can be on the way when its owner changes.
* **Counting polls.** A passive session is dropped after three polls in a row
  that missed it, while hooks, aborts and invalidations fall between polls.
* **Files that grow while they are read.** The poller keeps a cursor per
  transcript and looks at the length before it reads; agents write in between.
* **A terminal of six threads.** Pumps, drainer, watcher and main thread share a
  socket and a pseudoconsole, and must come to an end with the command, the
  daemon or the connection going first.
* **Installing in place of something.** Shims and wrappers replace the user's
  own commands; a failure or crash at any step must leave them usable.

The full list, with the line each hazard sits at and the property that would
catch it, is under `hazards` in `PROJECT.json`.

## Modules

| Module | Models |
|---|---|
| `AgentRegistry` | the record of an agent, the messages for the board and the functions that build them; no state |
| `BridgeDaemon` | the daemon: one action per critical section of each thread |
| `SidTable` | the abstract specification: who owns a sid, who waits for one |
| `PassiveDiscovery` | `BridgeDaemon` with a history variable that counts missed polls |
| `BridgeSystem` | `BridgeDaemon` composed with the HID link and the board |
| `PermissionHook` | the `PreToolUse` hook process composed with `BridgeDaemon` |
| `TerminalBuffer` | the replay buffer, byte for byte |
| `HidTransport` | the transport's shared slot, the frame splitter, the reader thread and the flush |
| `LaunchSession` | a captured terminal from launch to abort or fallback; extends `TerminalBuffer` |
| `AgentDiscovery` | the discovery poller and the agents that write transcripts |
| `HostSetup` | install, uninstall and the shims they leave |
| `BridgeDaemonProofs` | the daemon: lemmas about `Retain`, queues and message builders, the invariants, and what a step may do: the refinement of `SidTable` and the action properties |
| `PassiveDiscoveryProofs` | the grace period of passive sessions |
| `BridgeSystemProofs` | rows, waiting agents, permission requests and decisions between daemon, link and board |
| `PermissionHookProofs` | what hooks print |
| `HidTransportProofs` | the order of frames and of board messages |
| `LaunchSessionProofs` | the captured terminal: fallback, abort, and the replay buffer it fills |
| `AgentDiscoveryProofs` | the poller: cursors, deliveries, status, and the choice of sessions |
| `HostProofs` | what any sequence of installs and uninstalls leaves usable |
| `MC*` | values of the constants for TLC; `MCDaemon` has three kinds of clients, `MCHost` four parts of the host, one of them per behaviour |

### How `BridgeDaemon` corresponds to the code

| TLA+ | Code |
|---|---|
| `registered` | `HashMap<AgentKey, RegisteredAgent>`: a function on the registered agents |
| `pending_board_sessions` | the `VecDeque` of agents without an answer to their request |
| `passive_missing_counts` | the `HashMap`, 0 for an absent key |
| `focused_board_sid`, `board_outbox` | the fields of the same names |
| `connected` | `hid.is_connected()` |
| `replying` | client threads between `handle_json_line` and the flush |
| `heartbeat` | the heartbeat thread between its connection test and the lock |
| `sent` | what the last step handed to the link, in order |
| `Register` ... `Abort`, `LineWithoutEffect` | the arms of `handle_json_line` |
| `ClientFlush`, `ClientGone` | the rest of `handle_client_shared` |
| `SessionResponse` ... `OtherBoardMessage` | the arms of `handle_board_message`, with the reader's flush |
| `HeartbeatWakes`, `HeartbeatLocks` | the heartbeat thread: test, then lock, enqueue, flush |
| `PassivePoll` | one round of the passive thread: register, ingest, prune, flush |
| `HidOpens`, `HidReadFails` | the lazily opened transport |

A message is a record of command, sid, the agent whose data it carries and, for
permission requests and terminal views, what it carries. Texts, directories,
usage figures and bytes are abstracted to what the control flow tests (is there
a last turn, is the usage non-default, is the buffer empty). The
activity log is left out: nothing but the snapshot reply reads it. A `HashMap`
that the code iterates yields its keys in any order (`SetToSeqs`), and
`find` any matching owner.

A flush while connected sends everything; or a message is repeated by the
transport's second attempt; or a send fails for good, the message goes back and the
device is closed, and the board may or may not have got the message. The steps
inside that flush are those of `HidTransport`.

### The board

The board is not in the repository. `BridgeSystem` models it from what the
daemon sends and accepts: it gives a free sid to a `REQUEST_SESSION`, shows
prompts on live rows, answers `SESSION_INVALID` to a heartbeat for a sid without a
row, drops rows whose heartbeats stop, and (where `BoardEvents` says so)
rejects requests or restarts. In `BridgeDaemon` alone the board is arbitrary:
any message, any sid, at any time.

`withdrawn` becomes true when an agent that waits for its row is aborted: its
request may be on the wire, and the grant it gets goes to whoever waits next.
`RowMadeForOwner` holds until then. `reissued` has the sids that the board granted
anew while nobody waited: the daemon ignores such a grant, also where an
agent still holds the sid from a row the board has dropped. It leaves the set when a
`SESSION_INVALID` or a grant that binds an agent clears that up.

### The hook

`PermissionHook` runs several hook processes against the daemon's own actions.
`pc`, `line` and `reply` of a hook are where it waits, the line the daemon has
not handled, and the response it has not read. A hook that gives up leaves its
line behind, and the daemon may still handle it: that is how a decision can be
consumed by a poll nobody listens to any more. `DaemonRestarts` forgets the
daemon's state and closes the connections; index.js takes a connection that ends
without a line for success and one that breaks for an error, so both are
possible. The request id is `Date.now()`.

The user answers each prompt at most once, at any time, late ones included, on the row
the agent has then. The answer travels (`transit`) as `PERMISSION_RES` with that row's
sid and the request id. Before `handle_permission_response` gets it (`AnswerArrives`)
other hooks may ask and the row may change hands; a restart may lose it (`AnswerLost`).
The history `answers` has those that ended, with the agent the daemon kept them for.

A behaviour runs in one of the given situations, chosen at the start (`setting`): the
session and request id of each hook, and the faults that may occur.

### The replay buffer

`TerminalBuffer` follows `append_terminal_bytes` with a byte represented by its
position in the stream, so that "the last 64 KiB, in order" is one equation. Its
loop is `TrimRound`, iterated by `trim` until nothing changes any more: every
round but the last removes a chunk. `LaunchSession` fills the buffer with the
chunks the captured terminal's pump happens to read.

### The HID transport

| TLA+ | Code |
|---|---|
| `slot` | `ReopenWinHidTransport.inner`: the current handle, 0 for `None` |
| `th["reader"]`, `th["flusher"]` | where the reader thread and the flushing thread are in `with_transport`, and the handle each has cloned |
| `queue` | open handle -> input reports Windows keeps for it; a handle is open while the slot or a thread refers to it |
| `outbox`, `todo` | `board_outbox`, and the frames of the message being sent |
| `flusher` | who holds the daemon mutex while it flushes |
| `Takes`, `OpenFails`, `OpErr` | `with_transport`: take or open under the slot's lock, run the operation, invalidate, second attempt |
| `ReaderReceives`, `ReaderDecodes`, `ReaderFails`, `ReaderGivesUp`, `ReaderHandles` | `recv`, and the reader thread's loop |
| `FlushStarts` ... `FlushFails` | `flush_board_outbox`, one step per frame |

Handles and board messages are numbered in their order; a frame is the range of
bytes it carries. A write that times out is cancelled without a look at the
result, so the frame may have gone out. `rx` (the last frame the board got),
`handled` and `calm` are histories the properties speak about. That Windows
queues every report on every open handle is documented behaviour of its HID
driver and marked external.

### The captured terminal

`LaunchSession` follows `terminal-shim` into `run_launch`: daemon and
connection, environment guards, the five steps of `ConPtySession::spawn`
with the handles each opens (`session`), registration, the pumps, the wait, the
join, the abort and the drops at the end. An error at any step goes through
the same drops to the fallback, which runs the command without the bridge.
Writes block on a full socket (`ReqCap`, `AckCap`), as the daemon's response
does. The daemon may exit at any time; the command may leave behind a process
that keeps the console (`others`). The pump ends with the console's output or with an error
of `read_output`; the main thread joins it and aborts either way. `HostCloses`, the end of the
output, is possible once nobody is attached to the console, and never assumed: Windows may only
end it after `ClosePseudoConsole`, which the launcher calls after the join.

### The poller

A transcript is a sequence of lines; a line takes two units of its file, so
that a read can end inside one. `StatsFile` and `ReadsFile` are the two
halves of `read_appended_lines`, with agents writing between them. What the
process scan and the window titles yield is any subset of `Processes` and
`Titles`, and slots come in any order, as from the `HashMap`. The scan of the
directories and the choice of sessions is one step, `PollStarts`: their
results are only used in that poll. The one-day and two-hour windows on
modification times are left out (all files are recent), so `Selected` chooses
from all of them.

### Installing

An operation is a list of steps (`InstallSteps`, `UninstallSteps`), in the order of the
code, each of them the smallest change another process or a crash can see: a copied
executable exists before it is whole, a settings file is empty before it is filled in. A
step that fails ends its part with a warning or the operation with an error, as the code has
it for that part. A profile's command line is the user's own in layers of `terminal-shim`;
the distro is whether the shell integration is there, what `~/.local/bin/<agent>` is
(nothing, the agent, a wrapper, or a link to a target elsewhere) and what `real-bin/<agent>`
is. `install_agent_wrapper` is its three steps: `Linked` links what `command -v` finds from
`real-bin`, `SetAside` moves or links what is in `~/.local/bin`, and `Overwritten` is the
`cat` that follows a link. `wsl.exe` may be missing or fail, list nothing, or list a distro;
with an empty list the steps for WSL succeed and do nothing. A shim of the installed version
starts the daemon at any time, which is why an executable may be in use when it is removed.

## Runs

| Run | Config | Question | Instance |
|---|---|---|---|
| `daemon` | `MCDaemon` | under an arbitrary board: are sids unique and the waiting queue sound, is every message queued under the owner's sid, do bytes reach the LCD only for the session in focus, does a terminal ever ask for a row, are passive sessions dropped after exactly the grace period, does the daemon implement `SidTable`? | 2 sids, outbox 3 (2 with the captured terminal), grace 3 as in the code; the three parts below |
| `passive_comment` | `MCPassiveComment` | what the comment of the pruning function says (violated) | the third part of `daemon` |
| `lossy` | `MCSystemLossy` | is a permission request or a session request ever lost when sends fail, agents abort, clients vanish and the board drops rows, all together? | 2 agents, 1 asking, 1 sid, outbox 2 |
| `rows` | `MCSystemRows` | does a row go to the agent it was made for, and does every waiting agent get a row or end? | 2 agents, 2 sids, dropped rows, aborts, vanishing clients |
| `disturbed` | `MCSystemDisturbed` | do permission requests survive rejections, dropped rows and restarts, and is an answer only given to the prompt the user saw? | 2 agents, both asking |
| `hooks` | `MCHooks` | is every verdict printed an answer the daemon got after the hook asked, is no answer used twice, is session state ever lost? | 2 hooks, answers under way, rebinds: one session and id under every fault; two sessions with their own ids and restarts; two sessions sharing an id |
| `hooks_live` | `MCHooksLive` | does every started hook end, is an answer given in time printed? | 2 hooks: one session and id with a slow or restarting daemon and deadlines; one session with own ids, and two sessions sharing one, without faults; rows change hands by grants only |
| `register_again` | `MCSystemRegister` | what `C_context/MEMORY.md` says of `agent.register` (violated) | a board that rejects |
| `host` | `MCHost` | the seventeen properties of the four parts below | below |
| `hid_stalled` | `MCHidStalled` | what `HANDOFF.md` says of reopening the device (violated) | 2 messages, 2 faults, a silent board |
| `uninstall` | `MCUninstall` | what `C_context/MEMORY.md` says of uninstalling (violated) | 1 version, 1 settings file |
| `real_bin` | `MCRealBin` | what `HANDOFF.md` and `C_context/MEMORY.md` say of `real-bin` (violated) | 1 version, 1 install of the wrappers, no failure |

Two agents and two sids are enough for a sid to change hands, for two agents to
wait in either order, and for an agent to wait while the other holds the sid
it is offered; in `lossy` one sid changes hands because its board drops rows.
The bounds `MaxOutbox`, `MaxPerms`, `MaxClients` and `MaxWire` cut steps that
would leave more queued. An outbox of 3 leaves room for a request, a beat and
the announcement of a row at once; one of 2, in `lossy`, for the request of one
agent behind a message of the other that a failed send put back. One client
thread between its sections is enough because client lines do not depend on
which thread carries them. `CHECK_DEADLOCK FALSE` is given because the
bounded environment may run out of permitted steps; the programs themselves
wait for input.

`SessionResponse` has branches for a waiting agent that is gone or already has
a sid, because the code has them. `PendingSound` says that they are never taken.

### The run `daemon`

A behaviour has the clients of one of three parts, chosen in the initial state (`part`). Each part is
`PassiveDiscovery` itself, instantiated with its own lines and inputs.

| Part | Instance |
|---|---|
| hooks | 2 agents that register, abort and register again, rejections, invalidations, heartbeats, failing sends and reads |
| terminal | a captured terminal, the agent launched in it and its hook, all lines of theirs, focus |
| transcripts | 2 transcripts, a hook that may claim one, polls with any snapshot, invalidations, focus |

### The run `host`

The transport, the captured terminal, the poller and the installer share no
state. `MCHost` is their disjoint union: `part`, chosen in the initial state,
says which of them runs, and the others stay as they start. Every behaviour of
each part is a behaviour of the run.

| Part | Instance | Properties |
|---|---|---|
| transport | a message of two frames and an empty one, 3 board messages of which the second has an unknown command, 2 faults (unplugged, failed or timed out operation) | `FramesInOrder`, `HandledInOrder`, `OutboxDrains`, `CalmMessageHandled` |
| terminal | 3 bytes of output in reads of up to 3, a buffer of 2, sockets of 1 line, 3 window sizes, 1 resize, every failing step and failing reads | `FallbackIsClean`, `AbortIsLast`, `LaunchEnds`, `PtyFollowsWindow`, `ReplayIsTail`, `CountIsExact` |
| poller | 2 transcripts of one or two kinds in neighbouring directories, 2 processes that may be found, 3 window titles, 3 lines, 1 torn write, failed read or truncation | `NothingSkipped`, `ToldAtMostTwice`, `StatusAgrees`, `OwnProcess` |
| installer | 2 versions, 1 settings file, 2 sets of options, machines without WSL, without a distro and with one, agents as files and links in `~/.local/bin` and outside; 2 operations, 1 failure or crash | `NoDanglingCommand`, `CommandlineKept`, `AgentStillRuns` |

Two faults are what it takes to fail both attempts of `with_transport`, or to
reopen a device a second time while the reader holds the first handle. A socket of one
line blocks as a full one does. Three bytes and a buffer of two give
chunks that fit, exceed and straddle the limit. Two operations include
install-install, install-uninstall and reinstallation with another version.

### Fairness

`FairSysSpec` (`rows`) assumes weak fairness of the reader (it opens the device and
reads what has arrived), of both halves of the heartbeat thread and of the
board reading its link: these are endless loops that sleep for fixed times
and take a mutex nobody holds for long. It assumes that the board drops a row
no session beats for, which frees its sid. Nothing is assumed of clients,
client threads or the user. A client that vanished before its flush leaves its
`REQUEST_SESSION` in the outbox; the heartbeat's flush is what delivers it.
Since the link of `BridgeSystem` is connected again whenever the reader opens the
device, this liveness is that of a link without the stall of finding 3.

`FairHookSpec` (`hooks_live`) assumes that a hook runs and that its two timers
fire. In the situation without faults it also assumes that the daemon handles lines
and flushes; with faults daemon, board and user may stop. The fairness of the lines is
strong, because `MaxClients = 1` lets one client's line wait for the flush of another
again and again, where the code has a thread per connection and hooks that
sleep 250 ms between polls.

`HidFairSpec` (`hid_stalled`, and the transport in `host`) assumes that the
reader's loop goes on, except that nobody promises it a report; that the flush,
once started, goes on, and that somebody flushes what can be flushed: the
heartbeat thread wakes every two seconds; and that an unplugged board is plugged
in again. `LaunchFairSpec` (the terminal in `host`) assumes that each thread runs,
and that a daemon that is alive reads and answers. Neither the command, nor the
user, nor the console host, nor a process left behind is assumed to do anything:
`LaunchEnds` begins where the output has ended or the pump has failed.

### Findings

1. `passive_comment`. The comment above `prune_missing_passive_sessions` says that
   transcript-only agents missing from the snapshot are dropped, except those with
   a request still queued. The code exempts every agent without a sid. A passive
   session whose sid was invalidated, or taken by a rebind, waits for nothing, is
   skipped by discovery because it is known, and stays for ever.
2. `register_again`. A rejected `SESSION_RESPONSE` leaves the head of the queue in
   place. Registering that agent again finds it queued and requests nothing.
3. `hid_stalled`. `HANDOFF.md` says that after `open_lazy` the device is opened or
   reconnected at the next HID read or write. When both attempts of a write fail,
   the slot is empty while the reader still waits on a handle that works.
   `is_connected` then says no, so the flush returns before it writes and the
   heartbeat does not beat: until the board sends a report, nothing is written.
   `OutboxDrains`, in `host`, says that this is the only way to get stuck.
4. `uninstall`. `MEMORY.md` says that uninstalling must restore terminal and profile.
   `remove_wsl_shell_integrations` fails where `wsl.exe` is missing or exits nonzero, and the
   uninstall ends before it restores the profiles, every time.
5. `real_bin`. `HANDOFF.md` says that the WSL wrappers save the real CLI to `real-bin`, and
   `MEMORY.md` that `real-bin` must not be spoilt. Where `~/.local/bin/claude` is a
   symlink, `ln -s "$target" "$real"` succeeds, the symlink stays, and `cat > "$wrapper"`
   writes through it. The agent is overwritten, and `real-bin/claude` leads to the wrapper.
   `MEMORY.md:259` records a machine in that state.

More observations that contradict no document:

* A `SESSION_RESPONSE` that finds nobody waiting does not detach an agent that still holds
  the sid. If the board dropped that agent's row and granted the sid for a request whose
  agent has been aborted, or for a repeated one, the agent seems bound, and its prompts were
  never announced to the new row. `NoLostPermission` excepts these sids (`reissued`), and
  run `lossy` shows that nothing else goes missing.
* A poll whose response comes later than 1.5 s consumes the decision while the hook prints
  `{continue: true}`, so a refusal can be lost.
* A hook that reaches its deadline sends no `permission.resolve`, so its prompt stays on the
  board.
* Two hooks with the same `Date.now()` share a request id. The answer to one prompt may be
  printed by the other hook: of the same session at any time, also when the answer was under
  way as that hook asked, and of another session when the row changes hands under way.
  `VerdictIsFresh` speaks of what the daemon gets and keeps, and of the user's answer to
  this very request only where no other hook has the id.
* If Windows ends a pseudoconsole's output only with `ClosePseudoConsole`, a captured
  terminal stays in the join of the pump (`main.rs:887`) after its command has ended: the
  session is closed by its `Drop`, after the join.
* The environment guards are dropped first to last, so the directory of the runtime shims
  may stay in `PATH` after a fallback; it no longer exists.
* A failed poll drops the turns of files it has read. A line appended between the stat and
  the read of a transcript is delivered twice, where the comment at
  `agent_discovery.rs:952-955` says that later polls only read new bytes; `ToldAtMostTwice`
  is the bound.
* The daemon takes sessions and turns from a poll (`lib.rs:1356-1369`); activities are only
  printed by `vb-host monitor`. `StatusAgrees` is about the poller's own output.
* Where the WSL wrappers and the shell integration are both installed, one may look for the
  agent where the other has moved it; `AgentStillRuns` excepts that combination, and the
  links of finding 5.

## Proofs

`tlapm` checks the eight `*Proofs` modules, for every value of the constants
under the named assumptions of the modules they are about:

* the set of agents is finite, and the "none" values are not members of the sets they
  are added to;
* only `vb-daemon launch` registers a terminal (`RegisterLines`), discovery
  reports no terminals, and no hook runs as one (`SettingsAssumption`);
* the grace period is at least 2 (it is 3);
* a decision is none of the other replies a hook can read (`RepliesAssumption`);
* a report carries at least one byte, and lengths and bounds are natural numbers;
* the settings files are a sequence, in the order in which the installer visits them;
* the limit of the replay buffer, the size of a read and the capacity of a socket
  are positive;
* the processes that the scan may find are finitely many, and the transcripts are a
  sequence, in the order in which a poll visits them.

The bounds on queues and faults are constants too, so a theorem holds for all of them.

| Theorem | States | Under |
|---|---|---|
| `TypeCorrect` | `Spec => []TypeOK` | |
| `SidsStayUnique` | `Spec => []SidUnique` | |
| `PendingStaysSound` | `Spec => []PendingSound` | |
| `TerminalsNeverTakeRows` | `Spec => []TerminalsHaveNoRow` | |
| `DaemonImplementsSidTable` | `Spec => ImplementsSidTable` | |
| `MessagesComeFromOwners` | `Spec => NewMessagesFromOwner` | |
| `TerminalBytesOnlyForFocus` | `Spec => Vt100OnlyForFocus` | |
| `SessionsKeepTheirState` | `Spec => SessionStateKept` | |
| `BoundPassiveSessionsAreDropped` | `PDSpec => []BoundPassiveDropped` | |
| `DroppedOnlyAfterGrace` | `PDSpec => DroppedAfterGrace` | |
| `SysTypeCorrect` | `SysSpec => []SysTypeOK` | |
| `DecisionsAreTheUsers` | `SysSpec => []AnswerIsTheUsers` | no request id is used by two agents |
| `WaitersAreServed` | `SysSpec => []EveryWaiterServed` | the board neither rejects nor restarts |
| `RowsGoToTheirAgents` | `SysSpec => []RowMadeForOwner` | no failing sends; the board may drop rows, but neither rejects nor restarts |
| `PermissionsAreNotLost` | `SysSpec => []NoLostPermission` | |
| `HooksPrintFreshAnswers` | `HookSpec => []VerdictIsFresh` | |
| `AnswersAreUsedOnce` | `HookSpec => []AnswerUsedOnce` | |
| `FramesStayInOrder` | `HidSpec => FramesInOrder` | |
| `MessagesHandledInOrder` | `HidSpec => []HandledInOrder` | |
| `FallbackIsCleanHolds` | `LaunchSpec => []FallbackIsClean` | |
| `AbortIsLastHolds` | `LaunchSpec => []AbortIsLast` | |
| `ReplayIsTailHolds` | `LaunchSpec => []ReplayIsTail` | |
| `CountIsExactHolds` | `LaunchSpec => []CountIsExact` | |
| `NothingSkippedHolds` | `DiscoverySpec => []NothingSkipped` | |
| `ToldAtMostTwiceHolds` | `DiscoverySpec => []ToldAtMostTwice` | |
| `StatusAgreesHolds` | `DiscoverySpec => []StatusAgrees` | |
| `OwnProcessHolds` | `DiscoverySpec => []OwnProcess` | |
| `CommandsHaveTheirExe` | `SetupSpec => []NoDanglingCommand` | |
| `CommandlinesAreKept` | `SetupSpec => []CommandlineKept` | |
| `AgentsStillRun` | `SetupSpec => []AgentStillRuns` | |

*Lemmas on data.* `Retain` (the model of `retain`) is defined with ranks
instead of recursion, because a RECURSIVE operator cannot be reasoned about by the
provers. (A recursive function can, see the replay buffer, once it is shown to
exist.) `RankIsBijection` shows by counting that ranks number the kept
positions; `RetainProperties` concludes that the result is a sequence of the
kept elements and repeats nothing that did not repeat. `ConcatInjective` and
`TailInjective` say the same of joining and leaving a queue. `SplitFrames` says that
`split_host_to_board` cuts a message of any length into consecutive frames that end
where the message does.

*Types.* `TypeOK` is inductive. It is split into the agents' part and the
link's part, with one lemma for the flush and one per action.

*Safety of the daemon.* `SidUnique`, `PendingSound` and `TerminalsHaveNoRow` are inductive only
together (`RowsInv`). `SESSION_RESPONSE` binds the head of the queue without
looking at it: were a slot held by an agent that is gone or has a sid, the step
could lose the sid or break the pairing; were it a terminal's, the
terminal would get a row. Conversely the queue stays clean because register
adds only unbound agents that are not queued, and abort, prune and the
response itself remove the only slot of the agent they take away. `SameRows`
covers every action that moves no sid, agent or slot; the five others have a
lemma each.

*The daemon implements `SidTable`.* The owner of a sid is chosen from the records, so the
refinement needs `SidUnique`: `RowOwnerIs` says that the choice is then the one
agent that has the sid. Every action is shown to do one of four things to
records and queue: agents join, ask or leave (`RowsMoved`), the head of the queue gets a
sid that another agent may lose (`RowGranted`), a sid is taken back
(`RowRevoked`), or nothing. Each of these is a step of the table or a stutter.

*What a step queues.* `NewMessagesFromOwner` and `Vt100OnlyForFocus` speak about the
records and the focus *after* the step. `Proper` is the set of messages that are right
in that sense. Each action queues proper messages only, and a
flush, whichever of its outcomes, hands on nothing else.

*What a session keeps.* `SessionsKept` splits a step by what it does to the record of
a session that lives on: the record is the same, one of the `ensure_*` functions has
updated it, or one of its requests was asked, answered, resolved or polled. Only
an answer and `permission.resolve` take a pending request away, and only that one.

*Grace.* The daemon counts missed polls only for sessions with a sid, and only a poll sets
its counts, while other handlers give a session a sid or take it away. `GraceInv` relates
its count to the number of polls that in fact missed the session: equal while there is a
sid, both zero while it waits for one. The second half is what makes the first survive a
`SESSION_RESPONSE`. A session that neither has a sid nor waits for one has no relation to
keep, which is finding 1.

*Daemon, link and board.* `SysInv` collects the types of the three, the daemon's `RowsInv`,
and that pending permissions are those an agent may ask. `Talk` and
`BoardTalk` are the messages that occur in each direction. A step of the daemon, seen from
the link, only matters by what it `Posts`.

*Decisions.* `PERMISSION_RES` names a sid and a request, and the daemon records it for
whoever owns the sid by then, who may not have asked. `Told` says that what is recorded for an
agent under an id that the agent may ask with is an answer to that agent. It is inductive as
long as ids tell agents apart; index.js takes them from the clock, in milliseconds.

*Waiting agents.* `EveryWaiterServed` follows from a count (`Served`): no more agents
wait than there are requests in the outbox and on the wire, and grants on the way
back. `Carrying` counts messages of one command. A flush that repeats or puts back
messages loses none, an agent that joins brings a request, and a
grant that is read takes one waiting agent away. Without the count the property is not inductive, since
nothing else says that two waiting agents do not rely on one request. A
rejection or a restart breaks it: the daemon keeps the agent in line and asks for nobody.

*Rows and their agents.* Grants and requests on the way form one line behind
`pending_board_sessions`: its first `Granted` slots are those of the grants, the next
are, agent by agent, those of the requests on the wire and in the outbox (`InLine`). The
grant in position n of the way back made its row for the agent in slot n, unless a later grant or a
dropped row has taken the sid over (`Own`), and a row the two sides agree on was made for
its owner (`Owned`). These three, `Fits`, hold until a waiting agent is aborted
(`withdrawn`). They need every request to be sent once, hence no failing sends, which may
repeat one; and no request to go unanswered.

*Permission requests.* `AsksKept` strengthens `NoLostPermission` by what may stand for a request
of an agent with a row: its announcement under that sid on the way, the prompt
on the row, or the answer coming back. A step that gives an agent a row or a request
must announce it (`Announces`). What endangers `AsksKept` is the board: a restart or a dropped row
empties the prompts. The daemon then learns it by `SESSION_INVALID` or a new grant of that sid,
and until it does the row is not settled. A grant that nobody waits for settles
it without a new announcement, and then the sid is in `reissued`, until the daemon
detaches the agent or announces everything again. Sends may fail and repeat: `FlushKeeps`
says that whatever a flush does, an announcement that was queued is queued again or
handed to the link (`SliceHolds`). An aborted agent is not bound, and its abort announces
nothing for others and takes nothing of theirs (`AbortKept`). So the theorem has no hypothesis.

*Hooks.* `HookInv` follows a decision from the daemon to the output. A hook has at most one
line or response under way (`OneLineEach`). What the daemon keeps for it, what a response
carries and what it printed is an answer that the daemon got after it asked and kept for its
session (`Fresh`): this holds because `permission.request` clears the decision stored under
that id. That the user gave it to this hook's own request is the id's doing: the user only
answers what a hook asked (`Prompted`), and an answer keeps its id on whatever row it
arrives. Hooks that share an id share its answers, so use is counted: hooks that printed a
verdict or are about to, together with the stored decision, are never more than the answers
kept for the session (`Counted`). `permission.poll` moves a decision from the daemon to a
response in one critical section, which keeps the sum.

*Order of frames.* `FramesInOrder` speaks of the last frame the board got and the
next; what makes the next one right is where the flush stands, which `FrameInv` says.
The outbox holds the last messages queued, without a gap (`OutboxInv`). The board
has all of the last message flushed, or a part of the one at the head of the outbox
(`BoardInv`). The frames still to send are a tail of that message's; unless they are
all of them, the board's last frame is the one before, or already the first of
them, after a write that timed out (`TodoInv`). And a flushing thread that is busy has
frames to send (`FlusherInv`), so that a frame sent is one of these.

*Order of board messages.* Two handles may each deliver a message, so
`HandledInOrder` needs to know what every handle still holds, which `ReaderInv` says.
The slot holds the latest handle or none (`HandleInv`). What waits on a handle that
is not dead are the last messages the board sent, without a gap (`QueueInv`), so a
handle is described by the number of messages before those, `Past`. No handle the
reader has or finds in the slot can give it a message older than the last one it took, nor that
message again when it took it twice; and the handle in the slot is never
behind the one the reader has (`HeardInv`). A third delivery would need a third handle that
was open when the message came. There is none, because a flusher between two messages
holds no handle: this is where `FrameInv` is used.

*The captured terminal.* `LaunchIInv` has three parts. `PhaseInv` says, for each
place of the main thread, which handles are open, what PATH and the console
are like, and which threads run; `FallbackIsClean` is what it says of the last place.
`LinkInv` accounts for the output on the connection, byte for byte: the lines in the
queue carry the bytes from the first the daemon has not got (`total`) to the last the pump
has handed over (`Sent`), the registration is the first line, and the abort the
last, written by a main thread that is past the join.

*The replay buffer.* `BufferInv` describes the buffer by a function `e` on its chunks
(`Chunked`): chunk i is not empty and has the bytes after `e[i - 1]` up to `e[i]`, and
the last chunk ends at `total`. The count is `total`, cut at the limit. That gives
`ReplayIsTail` and `CountIsExact`, the flattened buffer by a lemma on chunks that
follow each other. `trim` is a recursive function, which in TLA+ is a choice among the
functions that satisfy its equation. `IterationExists` shows that there is
one, from a least length without one: the provers have no induction, but numbers
have least elements. A round then removes a chunk or cuts the front one to exactly the
limit, and after as many rounds as there were chunks, and one, the count fits.

*What the poller delivers.* `DiscoveryIInv` is the shape of the state and of a poll
(`ShapeInv`, `PollInv`) and one part for each property. `SkipInv`: a turn below
the cursor was delivered, or is in what the poll has got, or is known as spoiled.
`TwiceInv` counts what was delivered together with what the poll under way will
deliver (`Times`). Two at most is not inductive. It needs that a line at or after
the cursor counts one at most, for the next poll will read it again; and that
one beyond the length seen by the read under way counts none, because the cursor will
stop at that length and the read will not. `StatusInv`: the status delivered is that of the
first lines of the file, at least up to the cursor, so at the end of the file it is
that of all lines. What agents append, at once or in halves, keeps all of these
(`GrowingKeeps`); an emptied file starts them again.

*The sessions a poll shows.* `Selected` is a fold over the transcripts in which each may
take a live agent out of the slots, by `swap_remove`. `Owned` says of every stage that there is
an injection from the sessions taken to live agents, each matching its session and
none left in the slots. The sessions in any `S` then have as many agents as members,
which is `OwnProcess`.

*Installing.* `HostInv` relates what is installed to the steps that are left to do. The
lists of steps depend on machine, options and settings files; what the proof uses of them is
that a `backup` of a settings file is followed by its `empty` and `refill` (`Paired`), that
an install creates its executable first or right after stopping the old one (`Copies`), and
that an uninstall deletes every command before anything of another part (`Removes`). A step
that fails leaves a tail of the list, or skips the rest of its part; `Paired` and `Removes`
survive both. `CommandsInv` adds that while an install is under way, its executable is there
unless the copy is still ahead, and while an uninstall is, a command is gone or its removal
ahead. In `ProfilesInv` a profile leads back to the user's own command line (`Restorable`)
or its file is torn and has a backup that does. In `DistroInv` a wrapper has an entry in
`real-bin`, which leads to the agent unless a link's target was overwritten or the shell
integration's shim it names is gone.

### Only model-checked

Every safety invariant and every action property that a passing run checks is stated by one
of the theorems. What TLC alone checks is liveness: `WaiterGetsRow`, `HookEnds`,
`AnswerReachesHook`, `OutboxDrains`, `CalmMessageHandled`, `LaunchEnds` and
`PtyFollowsWindow`. Fairness, and the ENABLED in it, are outside the prover's reach.

`RowMadeForOwner` is neither checked nor claimed where sends fail: a repeated request makes
a second grant.

## Not modelled

* *The Python host* (`daemon.py`, `session_manager.py`, `vt100_router.py`,
  `plugin_client.py`, `forwarder.py`): the Linux predecessor of the Rust daemon, with its own
  locks and tables. It shares no state with what is modelled here and would be
  a second project beside this one.
* *Window titles and processes, enumerating HID devices, the Tauri window, the core
  types and the mock device*: I/O and data without protocol state. What they return is
  an arbitrary input of the models.
* *In the daemon*: the append-only activity log, the snapshot reply, and
  `run_tcp_registration_server`, the single-threaded server without a HID.
* *In the launcher*: agents attached to a captured terminal, `wsl-shim`, `run_start` and
  `status`, an error of `session.wait` itself (`main.rs:885`), what a failing `fs::write` of the
  runtime shims leaves in their directory (`main.rs:643-653`), and a launcher killed from outside.
* *In the installer*: the user PATH, `--purge`, `daemon-status.json`, and what the
  scripts generated for WSL write into hook settings and stream. Hidden profiles
  and profiles with an implicit command line are one profile here. The refusal to
  install inside a captured terminal comes before any step. `uninstall-windows`
  never undoes the WSL wrappers or the user PATH, so no step of the model does.
* *In the poller*: finding home directories, and the windows of time on modification
  times.

Worth doing next: the byte path of the daemon's focus replay on a board with a
screen; the Python host.
