--------------------------- MODULE TerminalBuffer ---------------------------
(***************************************************************************)
(* The replay buffer of an agent (crates/vb-daemon/src/lib.rs,             *)
(* append_terminal_bytes and terminal_snapshot): a queue of chunks with a  *)
(* separate byte count, cut at the front to the last VT100_BUFFER_BYTES.   *)
(* A byte is its position in the agent's terminal stream.                  *)
(***************************************************************************)
EXTENDS Naturals, SequencesExt

CONSTANT VT100_BUFFER_BYTES \* 64 * 1024 in the code

ASSUME BufferAssumption == VT100_BUFFER_BYTES \in Nat \ {0}

VARIABLES
    terminal_buffer,     \* VecDeque<Vec<u8>>
    terminal_buffer_len, \* usize
    total                \* history: bytes appended so far

bufferVars == <<terminal_buffer, terminal_buffer_len, total>>

BufferInit == terminal_buffer = <<>> /\ terminal_buffer_len = 0 /\ total = 0

(* Mutant: the front chunk goes as a whole. *)
TrimRound_whole_chunks(b) ==
    IF b[2] <= VT100_BUFFER_BYTES THEN b ELSE <<Tail(b[1]), b[2] - Len(Head(b[1]))>>

(* A round of the loop of append_terminal_bytes, on the chunks and the     *)
(* count; nothing changes when the loop is over.                           *)
TrimRound(b) ==
    LET buffer   == b[1]
        len      == b[2]
        overflow == len - VT100_BUFFER_BYTES
        front    == Head(buffer)
    IN  IF len <= VT100_BUFFER_BYTES THEN b
        ELSE IF buffer = <<>> THEN <<buffer, 0>>
        ELSE IF Len(front) <= overflow THEN <<Tail(buffer), len - Len(front)>>
        ELSE <<[buffer EXCEPT ![1] = SubSeq(front, overflow + 1, Len(front))], len - overflow>>

(* Every round but the last removes a chunk. *)
trim(buffer, len) ==
    LET after[n \in 0..Len(buffer) + 1] ==
            IF n = 0 THEN <<buffer, len>> ELSE TrimRound(after[n - 1])
    IN  after[Len(buffer) + 1]

(* Mutant: an oversized chunk is counted in full. *)
appended_uncut(bytes) ==
    IF Len(bytes) >= VT100_BUFFER_BYTES
    THEN <<<<SubSeq(bytes, Len(bytes) - VT100_BUFFER_BYTES + 1, Len(bytes))>>,
           Len(bytes)>>
    ELSE trim(Append(terminal_buffer, bytes), terminal_buffer_len + Len(bytes))

(* The buffer and its count after a chunk that is not empty. *)
appended(bytes) ==
    IF Len(bytes) >= VT100_BUFFER_BYTES
    THEN <<<<SubSeq(bytes, Len(bytes) - VT100_BUFFER_BYTES + 1, Len(bytes))>>,
           VT100_BUFFER_BYTES>>
    ELSE trim(Append(terminal_buffer, bytes), terminal_buffer_len + Len(bytes))

(* A chunk of the stream: the bytes at its positions from first to last. *)
append_terminal_bytes(first, last) ==
    LET after == appended([i \in 1 .. (last + 1 - first) |-> first + i - 1])
    IN  /\ terminal_buffer' = after[1] /\ terminal_buffer_len' = after[2]
        /\ total' = total + (last + 1 - first)

terminal_snapshot == FlattenSeq(terminal_buffer)

---------------------------------------------------------------------------
(* However the stream was cut into chunks on its way, a focus replays      *)
(* exactly the last VT100_BUFFER_BYTES bytes of it, in order: nothing is   *)
(* lost at a chunk boundary, repeated, or kept beyond the limit.           *)
ReplayIsTail ==
    LET kept == IF total <= VT100_BUFFER_BYTES THEN total
                                               ELSE VT100_BUFFER_BYTES
    IN  terminal_snapshot = [i \in 1 .. kept |-> total - kept + i]

(* The separate count never drifts from the chunks, which the trimming of  *)
(* every later chunk rests on, and no empty chunk is left at a boundary.   *)
CountIsExact ==
    /\ terminal_buffer_len = Len(terminal_snapshot)
    /\ \A i \in DOMAIN terminal_buffer : terminal_buffer[i] # <<>>
============================================================================
