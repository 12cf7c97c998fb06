--------------------------- MODULE AgentDiscovery ---------------------------
(***************************************************************************)
(* The passive discovery poller (vb-host agent_discovery.rs).  Agents      *)
(* append JSON lines to transcripts; a poll finds the recent transcripts,  *)
(* keeps those that a live process accounts for, and reads from each what  *)
(* was appended since the poll before, from a cursor per file.  Agents     *)
(* write while the poll looks at one file after the other.                 *)
(*                                                                         *)
(* A line takes two units of its file, so that a read can end inside one.  *)
(* A line is the record of what the poller tells apart in its JSON.        *)
(***************************************************************************)
EXTENDS Integers, Sequences, SequencesExt, FiniteSets

CONSTANTS
    Transcripts,    \* sequence of transcript files, by descending agent id
    KindsOf,        \* agent kinds the transcripts may have: functions from files
    CwdOf,          \* working directory of each
    Processes,      \* agents, <<kind, directory>>, that the process scan may find
    Titles,         \* window titles: the directories and the kind they name
    LabelLen,       \* length of the label of a directory
    Cwds,           \* directories an agent may run in
    Prefix,         \* pairs of directories, the first an ancestor of the second
    LinesOf,        \* kind -> the lines its agents write
    MaxLines,       \* bound: lines of all transcripts together
    MaxSpoils       \* bound: torn writes, failed reads and truncations

Files == ToSet(Transcripts)
Kinds == {"codex", "claude"}

ASSUME DiscoveryAssumption ==
    /\ Transcripts \in Seq(Files)
    /\ KindsOf \subseteq [Files -> Kinds] /\ CwdOf \in [Files -> Cwds]
    /\ Processes \subseteq Kinds \X Cwds /\ IsFiniteSet(Processes)
    /\ Titles \subseteq [cwds : SUBSET Cwds, kind : Kinds \union {"none"}, shell : BOOLEAN]
    /\ LabelLen \in [Cwds -> Nat]
    /\ Prefix \subseteq Cwds \X Cwds
    /\ MaxLines \in Nat /\ MaxSpoils \in Nat

VARIABLES
    kindOf,     \* file -> kind of its agent, for good
    lines,      \* file -> its lines
    half,       \* files whose last line is only half written
    recent,     \* files in the order of their modification, latest first
    cursors,    \* file -> units read
    seen,       \* sessions announced
    poll,       \* the poll in progress
    told,       \* file -> sequence: how often the turn of each line was delivered
    status,     \* file -> status of the last activity delivered
    spoiled,    \* history: lines a torn read or a failed poll may have lost
    spoils      \* number of torn writes, failed reads and truncations

files == <<kindOf, lines, half, recent>>
delivered == <<told, status>>
discoveryVars == <<files, cursors, seen, poll, delivered, spoiled, spoils>>

-----------------------------------------------------------------------------
(* What a line says.                                                       *)

NoStatus == "none"

codex_event_status(l) ==
    CASE l.sub \in {"approval", "input"} -> "WaitingInput"
      [] l.sub \in {"user_message", "task_started"} -> "Running"
      [] l.sub = "agent_message" -> "Idle"
      [] l.sub = "task_complete" -> "Done"
      [] l.sub = "exec_command_end" -> IF l.failed THEN "Error" ELSE "Running"
      [] OTHER -> NoStatus

codex_response_status(l) ==
    CASE l.sub = "function_call" -> "Running"
      [] l.sub = "message" /\ l.role = "assistant" -> "Idle"
      [] l.sub = "message" /\ l.role = "user" -> "Running"
      [] OTHER -> NoStatus

claude_status(l) ==
    CASE l.type \in {"user", "progress"} -> "Running"
      [] l.type = "assistant" -> IF l.failed THEN "Error"
                                 ELSE IF l.sub = "tool_use" THEN "Running" ELSE "Idle"
      [] l.type = "system" /\ l.sub \in {"turn_duration", "stop_hook_summary"} -> "Done"
      [] OTHER -> NoStatus

(* update_codex_metadata and update_claude_metadata: the status a line     *)
(* gives the session when the whole file is scanned.                       *)
MetadataStatus(kind, l) ==
    IF kind = "claude" THEN claude_status(l)
    ELSE CASE l.type = "event_msg" -> codex_event_status(l)
           [] l.type = "response_item" -> codex_response_status(l)
           [] OTHER -> NoStatus

(* Mutant: response items give no activity.                                *)
ActivityStatus_events_only(kind, l) ==
    IF kind = "claude" THEN claude_status(l)
    ELSE IF l.type = "event_msg" THEN codex_event_status(l) ELSE NoStatus

(* line_to_activity: the status of the activity a new line gives, if any.  *)
ActivityStatus(kind, l) ==
    IF kind = "claude" THEN claude_status(l)
    ELSE CASE l.type = "event_msg" -> codex_event_status(l)
           [] l.type = "response_item" -> codex_response_status(l)
           [] OTHER -> NoStatus

(* line_to_discovered_turn: lines with a user's or an agent's real text.   *)
IsTurn(kind, l) ==
    /\ l.text
    /\ IF kind = "claude" THEN l.type \in {"user", "assistant"}
       ELSE \/ l.type = "event_msg" /\ l.sub \in {"user_message", "agent_message"}
            \/ /\ l.type = "response_item" /\ l.sub = "message"
               /\ l.role \in {"user", "assistant"}

Whole(f) == IF f \in half THEN Len(lines[f]) - 1 ELSE Len(lines[f])
Length(f) == Len(lines[f]) + Whole(f)

(* The status the first n lines leave: that of the last line that says one. *)
LastStatus(f, n) ==
    LET says == {i \in 1..n : MetadataStatus(kindOf[f], lines[f][i]) # NoStatus}
    IN  IF says = {} THEN NoStatus ELSE MetadataStatus(kindOf[f], lines[f][Max(says)])

(* read_jsonl_metadata: the last status of all lines that parse.           *)
ScannedStatus(f) == LastStatus(f, Whole(f))

-----------------------------------------------------------------------------
(* Which sessions are alive.                                               *)

(* discover_claude_sessions_in, discover_codex_sessions_in: files that     *)
(* exist and were modified in the last day, here all that were written.    *)
Candidates == {f \in Files : lines[f] # <<>>}

Key(f) == <<kindOf[f], CwdOf[f]>>

Keys == {Key(f) : f \in Candidates}

(* best_matching_session_key: the longest label in the title; labels of    *)
(* one length in the order of the hash map.                                *)
BestKeys(t) ==
    LET named == {k \in Keys : k[2] \in t.cwds}
    IN  {k \in named : \A j \in named : LabelLen[j[2]] <= LabelLen[k[2]]}

(* generic_agent_title_kind: n windows that only name a kind stand for its *)
(* n latest sessions.                                                      *)
Latest(kind, n) ==
    LET of    == {i \in DOMAIN recent : recent[i] \in Candidates /\ kindOf[recent[i]] = kind}
        first == {i \in of : Cardinality({j \in of : j <= i}) <= n}
    IN  {Key(recent[i]) : i \in first}

(* visible_terminal_session_counts_from_titles: what the windows tell, in  *)
(* every order of the hash map.                                            *)
TitleEvidence(titles) ==
    LET shown == {t \in titles : ~t.shell}
        named == {t \in shown : BestKeys(t) # {}}
        generic == UNION {Latest(k, Cardinality({t \in shown \ named : t.kind = k})) :
                            k \in Kinds}
    IN  {generic \union {p[t] : t \in named} :
            p \in {q \in [named -> Keys] : \A t \in named : q[t] \in BestKeys(t)}}

(* active_session_evidence_counts.                                         *)
Evidence == UNION {{ps \union e : e \in TitleEvidence(titles)} :
                     ps \in SUBSET Processes, titles \in SUBSET Titles}

(* cwd_prefix_matches: on one branch of the directory tree.                *)
Matches(f, slot) ==
    /\ slot[1] = kindOf[f]
    /\ \/ slot[2] = CwdOf[f]
       \/ <<slot[2], CwdOf[f]>> \in Prefix \/ <<CwdOf[f], slot[2]>> \in Prefix

(* Vec::swap_remove.                                                       *)
swap_remove(s, i) == IF i = Len(s) THEN Front(s) ELSE [Front(s) EXCEPT ![i] = Last(s)]

(* Mutant: a slot can be taken more than once.                             *)
TakeSlot_reused(acc, f) ==
    IF \E i \in DOMAIN acc.slots : Matches(f, acc.slots[i])
    THEN [acc EXCEPT !.out = @ \union {f}] ELSE acc

(* The first slot that matches is taken by the session.                    *)
TakeSlot(acc, f) ==
    LET fit == {i \in DOMAIN acc.slots : Matches(f, acc.slots[i])}
    IN  IF fit = {} THEN acc
        ELSE LET pos == CHOOSE i \in fit : \A j \in fit : i <= j
             IN  [slots |-> swap_remove(acc.slots, pos), out |-> acc.out \union {f}]

(* fallback_recent_active_candidates: recent sessions that are not over.   *)
fallback_candidates == {f \in Candidates : ScannedStatus(f) \notin {"Done", "Error"}}

(* filter_sessions_by_active_counts, the slots in the order in which the   *)
(* hash map gives them: latest transcripts choose first.                   *)
Selected(slots) ==
    LET taken[n \in 0..Len(recent)] ==
            IF n = 0 THEN [slots |-> slots, out |-> {}]
            ELSE IF recent[n] \in Candidates THEN TakeSlot(taken[n - 1], recent[n])
            ELSE taken[n - 1]
    IN  IF slots = <<>> THEN fallback_candidates ELSE taken[Len(recent)].out

(* The status shown: a live agent runs, unless it waits for input.         *)
Shown(f, slots) ==
    IF slots # <<>> /\ ScannedStatus(f) # "WaitingInput" THEN "Running" ELSE ScannedStatus(f)

Orders(S) == {s \in [1..Cardinality(S) -> S] : \A i, j \in DOMAIN s : s[i] = s[j] => i = j}

-----------------------------------------------------------------------------
NoPoll == [pc |-> "idle", todo |-> {}, len |-> 0, got |-> <<>>]

(* Sessions are polled by descending agent id.                             *)
Position(f) == CHOOSE i \in DOMAIN Transcripts : Transcripts[i] = f
FirstOf(todo) == CHOOSE t \in todo : \A u \in todo : Position(t[1]) <= Position(u[1])

DiscoveryInit ==
    /\ kindOf \in KindsOf
    /\ lines = [f \in Files |-> <<>>] /\ half = {} /\ recent = Transcripts
    /\ cursors = [f \in Files |-> 0] /\ seen = {} /\ poll = NoPoll
    /\ told = [f \in Files |-> <<>>] /\ status = [f \in Files |-> NoStatus]
    /\ spoiled = {} /\ spoils = 0

(* poll_once starts: it scans the transcripts and looks for live agents,   *)
(* processes and window titles, which may have changed since the last poll.*)
PollStarts ==
    /\ poll.pc = "idle"
    /\ \E alive \in Evidence : \E slots \in Orders(alive) :
         poll' = [NoPoll EXCEPT !.pc = "stat",
                                !.todo = {<<f, Shown(f, slots)>> : f \in Selected(slots)}]
    /\ UNCHANGED <<files, cursors, seen, delivered, spoiled, spoils>>

(* What is delivered of a session: line 0 stands for its first sight.      *)
Item(f, i) == [file |-> f, line |-> i, turn |-> IsTurn(kindOf[f], lines[f][i]),
               status |-> ActivityStatus(kindOf[f], lines[f][i])]
Sight(t) == [file |-> t[1], line |-> 0, turn |-> FALSE, status |-> t[2]]

(* A session not seen before is announced.  read_appended_lines looks at   *)
(* the length: a file that has become shorter, or has not grown, is        *)
(* skipped.                                                                *)
StatsFile ==
    /\ poll.pc = "stat" /\ poll.todo # {}
    /\ LET t == FirstOf(poll.todo)
           f == t[1]
           got == IF f \in seen THEN poll.got ELSE Append(poll.got, Sight(t))
       IN  /\ seen' = seen \union {f}
           /\ IF Length(f) > cursors[f]
              THEN /\ poll' = [poll EXCEPT !.pc = "read", !.len = Length(f), !.got = got]
                   /\ UNCHANGED cursors
              ELSE /\ poll' = [poll EXCEPT !.todo = @ \ {t}, !.got = got]
                   /\ cursors' = [cursors EXCEPT ![f] = Length(f)]
    /\ UNCHANGED <<files, delivered, spoiled, spoils>>

(* The lines a read from the cursor to the end of the file makes out: one  *)
(* cut by either end is no JSON.                                           *)
Lines(f, from) == {i \in 1..Whole(f) : 2 * (i - 1) >= from}
Torn(f, from) == {i \in 1..Len(lines[f]) : 2 * i > from} \ Lines(f, from)

Reading == FirstOf(poll.todo)[1]

Read(upto, cursor) ==
    LET f    == Reading
        skip == (cursors[f] + 1) \div 2
        new  == {i \in Lines(f, cursors[f]) : 2 * i <= upto}
    IN  /\ cursors' = [cursors EXCEPT ![f] = cursor]
        /\ poll' = [pc |-> "stat", todo |-> poll.todo \ {FirstOf(poll.todo)}, len |-> 0,
                    got |-> poll.got \o [i \in 1..Cardinality(new) |-> Item(f, skip + i)]]
        /\ spoiled' = spoiled \union ({f} \X Torn(f, cursors[f]))
        /\ UNCHANGED <<files, seen, delivered, spoils>>

(* Mutants: the read stops at the length seen and the cursor moves to the  *)
(* end of the file; the cursor stays when the file has grown meanwhile.    *)
ReadsFile_to_end ==
    poll.pc = "read" /\ Read(poll.len, Length(Reading))
ReadsFile_restarts ==
    /\ poll.pc = "read"
    /\ Read(Length(Reading),
            IF Length(Reading) = poll.len THEN poll.len ELSE cursors[Reading])

(* The file is read to its end, which may be further than the length seen; *)
(* the cursor moves to the length seen.                                    *)
ReadsFile == poll.pc = "read" /\ Read(Length(Reading), poll.len)

(* The file is gone, or ends inside a character: the whole poll fails, and *)
(* what it has read from other files is dropped although their cursors     *)
(* have moved.                                                             *)
PollFails ==
    /\ poll.pc \in {"stat", "read"} /\ poll.todo # {} /\ spoils < MaxSpoils
    /\ spoils' = spoils + 1
    /\ seen' = seen \union {Reading}
    /\ spoiled' = spoiled \union {<<g.file, g.line>> : g \in ToSet(poll.got)}
    /\ poll' = NoPoll
    /\ UNCHANGED <<files, cursors, delivered>>

(* What the poll has got of f: how often the turn of line i, and the status *)
(* of the last activity.                                                   *)
Turns(f, i) == Cardinality({k \in DOMAIN poll.got :
                   /\ poll.got[k].turn /\ poll.got[k].file = f /\ poll.got[k].line = i})

StatusOf(f) ==
    LET of == {k \in DOMAIN poll.got : poll.got[k].file = f /\ poll.got[k].status # NoStatus}
    IN  IF of = {} THEN status[f] ELSE poll.got[Max(of)].status

(* The snapshot is returned.  The daemon's passive thread uses its turns   *)
(* and sessions; its activities are printed by `vb-host monitor` only.     *)
PollEnds ==
    /\ poll.pc = "stat" /\ poll.todo = {}
    /\ told' = [f \in Files |-> [i \in DOMAIN told[f] |-> told[f][i] + Turns(f, i)]]
    /\ status' = [f \in Files |-> StatusOf(f)]
    /\ poll' = NoPoll
    /\ UNCHANGED <<files, cursors, seen, spoiled, spoils>>

-----------------------------------------------------------------------------
(* The agents.                                                             *)

Touched(f) ==
    \E p \in DOMAIN recent :
        /\ recent[p] = f
        /\ recent' = [i \in DOMAIN recent |-> IF i = 1 THEN f
                                              ELSE IF i <= p THEN recent[i - 1] ELSE recent[i]]
Written == FoldFunction(LAMBDA s, n : Len(s) + n, 0, lines)

(* A line is appended, at once or as the first half of one.  What is       *)
(* written below the cursor of a truncated file is never read.             *)
AgentWrites(f) ==
    /\ f \notin half /\ Written < MaxLines
    /\ \E l \in LinesOf[kindOf[f]] : lines' = [lines EXCEPT ![f] = Append(@, l)]
    /\ \/ half' = half /\ UNCHANGED spoils
       \/ half' = half \union {f} /\ spoils < MaxSpoils /\ spoils' = spoils + 1
    /\ told' = [told EXCEPT ![f] = Append(@, 0)]
    /\ spoiled' = IF Length(f) < cursors[f] THEN spoiled \union {<<f, Len(lines[f]) + 1>>}
                  ELSE spoiled
    /\ Touched(f)
    /\ UNCHANGED <<kindOf, cursors, seen, poll, status>>

AgentFinishesLine(f) ==
    /\ f \in half /\ half' = half \ {f}
    /\ Touched(f)
    /\ UNCHANGED <<kindOf, lines, cursors, seen, poll, delivered, spoiled, spoils>>

(* A transcript is emptied; not while a poll is reading it.                *)
Truncated(f) ==
    /\ poll.pc = "idle" /\ lines[f] # <<>> /\ f \notin half /\ spoils < MaxSpoils
    /\ spoils' = spoils + 1
    /\ lines' = [lines EXCEPT ![f] = <<>>]
    /\ told' = [told EXCEPT ![f] = <<>>] /\ status' = [status EXCEPT ![f] = NoStatus]
    /\ spoiled' = {s \in spoiled : s[1] # f}
    /\ UNCHANGED <<kindOf, half, recent, cursors, seen, poll>>

DiscoveryNext ==
    \/ PollStarts \/ StatsFile \/ ReadsFile \/ PollFails \/ PollEnds
    \/ \E f \in Files : AgentWrites(f) \/ AgentFinishesLine(f) \/ Truncated(f)

DiscoverySpec == DiscoveryInit /\ [][DiscoveryNext]_discoveryVars

-----------------------------------------------------------------------------
(* read_appended_lines never passes a turn nobody was told of: every turn  *)
(* below a cursor was delivered, except those a read cut in two or a       *)
(* failed poll dropped.  What agents append between the length check and   *)
(* the read is not among the exceptions.                                   *)
NothingSkipped ==
    poll.pc = "idle" =>
        \A f \in Files : \A i \in DOMAIN lines[f] :
            /\ 2 * i <= cursors[f] /\ IsTurn(kindOf[f], lines[f][i])
            => told[f][i] > 0 \/ <<f, i>> \in spoiled

(* A line appended during a poll may be delivered by it and by the next    *)
(* one, never a third time: the daemon would show the turn again and again.*)
ToldAtMostTwice == \A f \in Files : \A i \in DOMAIN told[f] : told[f][i] <= 2

(* Two ways to the status of a session agree: the one the scan of the      *)
(* whole transcript finds (read_jsonl_metadata), and that of the last      *)
(* activity delivered (line_to_activity), once everything has been read    *)
(* and nothing was lost.  `vb-host monitor` prints the one and the other;  *)
(* the daemon shows neither.                                               *)
StatusAgrees ==
    \A f \in Files :
        /\ poll.pc = "idle" /\ cursors[f] = Length(f) /\ f \notin half
        /\ \A s \in spoiled : s[1] # f
        /\ ScannedStatus(f) # NoStatus
        => status[f] = ScannedStatus(f)

(* filter_sessions_by_active_counts: the sessions a poll shows have live   *)
(* agents of their own on their branches of the directory tree, whatever   *)
(* the order of the slots: two transcripts never share one.                *)
OwnProcess ==
    poll.pc = "idle" /\ Candidates # {} =>
        \A alive \in Evidence \ {{}} : \A slots \in Orders(alive) :
            \A S \in SUBSET Selected(slots) :
                Cardinality({p \in alive : \E f \in S : Matches(f, p)}) >= Cardinality(S)
=============================================================================
