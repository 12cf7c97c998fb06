---------------------------- MODULE HidTransport ----------------------------
(***************************************************************************)
(* The Windows HID transport of the daemon (vb-transport windows.rs), the  *)
(* frame splitter (vb-protocol codec.rs) and the flush that uses both.     *)
(*                                                                         *)
(* One slot holds the current device handle, shared by reference count.    *)
(* The reader thread blocks in ReadFile on the handle it cloned; whichever *)
(* thread holds the daemon lock flushes the outbox.  Any failed operation  *)
(* empties the slot, and the next operation opens the device again, so two *)
(* handles can be open at a time.  Windows keeps a queue of input reports  *)
(* per open handle: every open handle gets each report of the board.       *)
(*                                                                         *)
(* Handles are numbered in the order of the opens; 0 is no handle.  Board  *)
(* messages are numbered 1.. in the order the board sends them.  A frame   *)
(* is the range of bytes of the host message it carries.                   *)
(***************************************************************************)
EXTENDS Naturals, Sequences, FiniteSets

CONSTANTS
    PayloadLen,     \* sequence: payload length of each message the daemon queues
    MaxPayload,     \* HID_MAX_PAYLOAD
    MaxBoard,       \* bound: messages the board sends
    BadCmd,         \* board messages whose command byte is unknown
    MaxFaults       \* bound: unplugs, failed or timed out operations, bad commands

ASSUME HidAssumption ==
    /\ MaxPayload \in Nat \ {0}
    /\ PayloadLen \in Seq(Nat)
    /\ MaxBoard \in Nat /\ MaxFaults \in Nat /\ BadCmd \subseteq 1..MaxBoard

VARIABLES
    present,    \* the board is plugged in
    opened,     \* number of handles opened so far
    dead,       \* handles to a device that has been unplugged since
    slot,       \* ReopenWinHidTransport.inner
    th,         \* thread -> what it does in with_transport
    queue,      \* open handle -> input reports waiting on it
    outbox,     \* board_outbox: messages to send
    queued,     \* number of messages queued so far
    todo,       \* frames of the message being flushed, <<>> between messages
    flusher,    \* who holds the daemon lock to flush: "reader", "other", "none"
    rx,         \* the last frame the board received
    handled,    \* board messages the daemon handled, in order
    sent,       \* number of messages the board sent
    calm,       \* those sent while the link was undisturbed
    faults

board == <<present, rx, sent, calm>>
hidVars == <<board, opened, dead, slot, th, queue, outbox, queued, todo, flusher,
             handled, faults>>

Threads == {"reader", "flusher"}
Messages == 1..Len(PayloadLen)
NoFrame == [msg |-> 0, first |-> 1, last |-> 0]

-----------------------------------------------------------------------------
(* The frame codec.                                                        *)

(* Mutant: chunks one byte longer than a report can carry.                 *)
split_host_to_board_long(m) ==
    LET size == MaxPayload + 1
    IN  [i \in 1..((PayloadLen[m] + size - 1) \div size) |->
           [msg |-> m, first |-> (i - 1) * size + 1,
            last |-> IF i * size < PayloadLen[m] THEN i * size ELSE PayloadLen[m]]]

(* split_host_to_board: chunks of HID_MAX_PAYLOAD; an empty payload is one *)
(* empty frame.                                                            *)
split_host_to_board(m) ==
    IF PayloadLen[m] = 0 THEN <<[msg |-> m, first |-> 1, last |-> 0]>>
    ELSE [i \in 1..((PayloadLen[m] + MaxPayload - 1) \div MaxPayload) |->
            [msg |-> m, first |-> (i - 1) * MaxPayload + 1,
             last |-> IF i * MaxPayload < PayloadLen[m]
                      THEN i * MaxPayload ELSE PayloadLen[m]]]

(* HidFrame::encode refuses a payload that does not fit the report.        *)
Encodes(f) == f.last + 1 - f.first <= MaxPayload

-----------------------------------------------------------------------------
(* The shared slot.                                                        *)

Idle == [pc |-> "idle", handle |-> 0, attempt |-> 0, got |-> 0]
OpenHandles(s, t) == {h \in {s} \union {t[x].handle : x \in Threads} : h # 0}

(* The Arc count: a handle is closed, and its queue lost, when neither the *)
(* slot nor a thread holds it; a newly opened one starts with no report.   *)
Rereferenced(s, t, q) ==
    /\ slot' = s
    /\ th' = t
    /\ queue' = [h \in OpenHandles(s, t) |-> IF h \in DOMAIN q THEN q[h] ELSE <<>>]

Starting(t, x) == [t EXCEPT ![x] = [Idle EXCEPT !.pc = "take"]]

HidInit ==
    /\ present \in BOOLEAN
    /\ opened = 0 /\ dead = {} /\ slot = 0
    /\ th = [x \in Threads |-> IF x = "reader" THEN [Idle EXCEPT !.pc = "take"] ELSE Idle]
    /\ queue = <<>>
    /\ outbox = <<>> /\ queued = 0 /\ todo = <<>> /\ flusher = "none"
    /\ rx = NoFrame /\ handled = <<>> /\ sent = 0 /\ calm = {} /\ faults = 0

(* Mutant: the slot is not looked at, every operation opens the device.    *)
Takes_always_opens(x) ==
    /\ th[x].pc = "take" /\ present
    /\ opened' = opened + 1
    /\ Rereferenced(opened + 1,
                    [th EXCEPT ![x].pc = "op", ![x].handle = opened + 1], queue)
    /\ UNCHANGED <<board, dead, outbox, queued, todo, flusher, handled, faults>>

(* with_transport, under the slot's lock: open the device if the slot is   *)
(* empty and clone the handle.                                             *)
Takes(x) ==
    /\ th[x].pc = "take"
    /\ slot # 0 \/ present
    /\ LET h == IF slot = 0 THEN opened + 1 ELSE slot
       IN  /\ opened' = IF slot = 0 THEN h ELSE opened
           /\ Rereferenced(h, [th EXCEPT ![x].pc = "op", ![x].handle = h], queue)
    /\ UNCHANGED <<board, dead, outbox, queued, todo, flusher, handled, faults>>

(* The device is not there: open_current fails, without a second attempt.  *)
OpenFails(x) ==
    /\ th[x].pc = "take" /\ slot = 0 /\ ~present
    /\ th' = [th EXCEPT ![x].pc = "failed"]
    /\ UNCHANGED <<board, opened, dead, slot, queue, outbox, queued, todo, flusher,
                   handled, faults>>

(* Mutant: a failed operation leaves the slot as it is.                    *)
OpErr_keeps_slot(x, q) ==
    Rereferenced(slot, [th EXCEPT ![x].handle = 0,
                          ![x].pc = IF @ = "op" /\ th[x].attempt = 0 THEN "take" ELSE "failed",
                          ![x].attempt = 1], q)

(* The operation failed: invalidate empties the slot, whatever handle it   *)
(* holds by now; the first failure is tried again.                         *)
OpErr(x, q) ==
    Rereferenced(0, [th EXCEPT ![x].handle = 0,
                       ![x].pc = IF th[x].attempt = 0 THEN "take" ELSE "failed",
                       ![x].attempt = 1], q)

-----------------------------------------------------------------------------
(* The reader thread.                                                      *)

(* ReadFile completes and the frame decodes: with_transport returns, the   *)
(* handle is released, and the message waits for the daemon lock.          *)
ReaderReceives ==
    LET h == th["reader"].handle
    IN  /\ th["reader"].pc = "op" /\ h \notin dead
        /\ queue[h] # <<>> /\ Head(queue[h]) \notin BadCmd
        /\ Rereferenced(slot, [th EXCEPT !["reader"] = [Idle EXCEPT !.pc = "lock",
                                                        !.got = Head(queue[h])]],
                        [queue EXCEPT ![h] = Tail(@)])
        /\ UNCHANGED <<board, opened, dead, outbox, queued, todo, flusher, handled, faults>>

(* HidFrame::decode does not know the command byte: a failed read.         *)
ReaderDecodes ==
    LET h == th["reader"].handle
    IN  /\ th["reader"].pc = "op" /\ h \notin dead
        /\ queue[h] # <<>> /\ Head(queue[h]) \in BadCmd
        /\ OpErr("reader", [queue EXCEPT ![h] = Tail(@)])
        /\ UNCHANGED <<board, opened, dead, outbox, queued, todo, flusher, handled, faults>>

(* ReadFile fails: always on an unplugged device, else by a fault.         *)
ReaderFails ==
    /\ th["reader"].pc = "op"
    /\ IF th["reader"].handle \in dead THEN UNCHANGED faults
       ELSE faults < MaxFaults /\ faults' = faults + 1
    /\ OpErr("reader", queue)
    /\ UNCHANGED <<board, opened, dead, outbox, queued, todo, flusher, handled>>

(* recv failed: it empties the slot once more, and the thread sleeps.      *)
ReaderGivesUp ==
    /\ th["reader"].pc = "failed"
    /\ Rereferenced(0, Starting(th, "reader"), queue)
    /\ UNCHANGED <<board, opened, dead, outbox, queued, todo, flusher, handled, faults>>

(* The reader gets the daemon lock, handles the message and flushes.       *)
ReaderHandles ==
    /\ th["reader"].pc = "lock" /\ flusher = "none"
    /\ handled' = Append(handled, th["reader"].got)
    /\ IF slot # 0 /\ outbox # <<>>
       THEN /\ flusher' = "reader"
            /\ th' = [th EXCEPT !["reader"].pc = "flush"]
       ELSE flusher' = flusher /\ th' = Starting(th, "reader")
    /\ UNCHANGED <<board, opened, dead, slot, queue, outbox, queued, todo, faults>>

-----------------------------------------------------------------------------
(* The flush, under the daemon lock.                                       *)

(* A client line or the heartbeat queues a message.                        *)
Queues ==
    /\ flusher = "none" /\ queued < Len(PayloadLen)
    /\ queued' = queued + 1
    /\ outbox' = Append(outbox, queued + 1)
    /\ UNCHANGED <<board, opened, dead, slot, th, queue, todo, flusher, handled, faults>>

(* Another thread than the reader flushes; nothing happens when the slot   *)
(* is empty.                                                               *)
FlushStarts ==
    /\ flusher = "none" /\ slot # 0 /\ outbox # <<>>
    /\ flusher' = "other"
    /\ UNCHANGED <<board, opened, dead, slot, th, queue, outbox, queued, todo, handled, faults>>

(* The next message is popped and split, its first frame is sent.          *)
FlushNext ==
    /\ flusher # "none" /\ todo = <<>> /\ outbox # <<>>
    /\ todo' = split_host_to_board(Head(outbox))
    /\ th' = Starting(th, "flusher")
    /\ UNCHANGED <<board, opened, dead, slot, queue, outbox, queued, flusher, handled, faults>>

(* Mutant: the reader dispatches its message again after the flush.        *)
FlushOver_redispatch(t) ==
    /\ flusher' = "none"
    /\ th' = IF flusher = "reader" THEN [t EXCEPT !["reader"].pc = "lock"] ELSE t

(* The lock is released; the reader goes on to its next read.              *)
FlushOver(t) ==
    /\ flusher' = "none"
    /\ th' = IF flusher = "reader" THEN Starting(t, "reader") ELSE t

FlushDone ==
    /\ flusher # "none" /\ todo = <<>> /\ outbox = <<>>
    /\ FlushOver(th)
    /\ UNCHANGED <<board, opened, dead, slot, queue, outbox, queued, todo, handled, faults>>

(* WriteFile completes: the frame is at the board, the next one follows.   *)
FrameSent ==
    LET t == th["flusher"]
        over == Len(todo) = 1
    IN  /\ t.pc = "op" /\ t.handle \notin dead /\ Encodes(Head(todo))
        /\ rx' = Head(todo)
        /\ todo' = Tail(todo)
        /\ outbox' = IF over THEN Tail(outbox) ELSE outbox
        /\ Rereferenced(slot, IF over THEN [th EXCEPT !["flusher"] = Idle]
                              ELSE Starting(th, "flusher"), queue)
        /\ UNCHANGED <<present, sent, calm, opened, dead, queued, flusher, handled, faults>>

(* The write fails, or it times out and is cancelled: the result of the    *)
(* cancelled write is not looked at, the frame may have gone out.          *)
FrameFails ==
    LET t == th["flusher"]
    IN  /\ t.pc = "op"
        /\ \/ /\ t.handle \in dead \/ ~Encodes(Head(todo))
              /\ UNCHANGED <<faults, rx>>
           \/ /\ t.handle \notin dead /\ Encodes(Head(todo)) /\ faults < MaxFaults
              /\ faults' = faults + 1
              /\ rx' \in {rx, Head(todo)}
        /\ OpErr("flusher", queue)
        /\ UNCHANGED <<present, sent, calm, opened, dead, outbox, queued, todo, flusher, handled>>

(* Mutant: the message that failed is queued again behind the others.      *)
FlushFails_to_back ==
    /\ th["flusher"].pc = "failed"
    /\ FlushOver([th EXCEPT !["flusher"] = Idle])
    /\ todo' = <<>>
    /\ outbox' = Append(Tail(outbox), Head(outbox))
    /\ UNCHANGED <<board, opened, dead, slot, queue, queued, handled, faults>>

(* Both attempts failed: the message goes back to the front, as a whole.   *)
FlushFails ==
    /\ th["flusher"].pc = "failed"
    /\ FlushOver([th EXCEPT !["flusher"] = Idle])
    /\ todo' = <<>>
    /\ UNCHANGED <<board, opened, dead, slot, queue, outbox, queued, handled, faults>>

-----------------------------------------------------------------------------
(* The board and the cable.                                                *)

(* The link is undisturbed: no fault is left to come or still to be seen.  *)
Calm ==
    /\ faults = MaxFaults /\ present /\ slot # 0 /\ slot \notin dead
    /\ th["reader"].handle \in {0, slot} /\ th["reader"].pc # "failed"
    /\ th["flusher"].handle \in {0, slot}
    /\ ~ \E i \in DOMAIN queue[slot] : queue[slot][i] \in BadCmd

BoardSends ==
    /\ present /\ sent < MaxBoard
    /\ sent' = sent + 1
    /\ queue' = [h \in DOMAIN queue |->
                   IF h \in dead THEN queue[h] ELSE Append(queue[h], sent + 1)]
    /\ calm' = IF Calm /\ sent + 1 \notin BadCmd THEN calm \union {sent + 1} ELSE calm
    /\ IF sent + 1 \in BadCmd THEN faults < MaxFaults /\ faults' = faults + 1
       ELSE UNCHANGED faults
    /\ UNCHANGED <<present, rx, opened, dead, slot, th, outbox, queued, todo, flusher, handled>>

Unplugged ==
    /\ present /\ faults < MaxFaults
    /\ present' = FALSE /\ faults' = faults + 1
    /\ dead' = dead \union DOMAIN queue
    /\ UNCHANGED <<rx, sent, calm, opened, slot, th, queue, outbox, queued, todo, flusher,
                   handled>>

Plugged ==
    /\ ~present
    /\ present' = TRUE
    /\ UNCHANGED <<rx, sent, calm, opened, dead, slot, th, queue, outbox, queued, todo,
                   flusher, handled, faults>>

-----------------------------------------------------------------------------
Reader == \/ Takes("reader") \/ OpenFails("reader") \/ ReaderReceives \/ ReaderDecodes
          \/ (th["reader"].handle \in dead /\ ReaderFails) \/ ReaderGivesUp \/ ReaderHandles
Flush == \/ Takes("flusher") \/ OpenFails("flusher") \/ FlushStarts \/ FlushNext
         \/ FlushDone \/ FrameSent \/ FlushFails
         \/ (th["flusher"].handle \in dead /\ FrameFails)

HidNext ==
    \/ \E x \in Threads : Takes(x) \/ OpenFails(x)
    \/ ReaderReceives \/ ReaderDecodes \/ ReaderFails \/ ReaderGivesUp \/ ReaderHandles
    \/ Queues \/ FlushStarts \/ FlushNext \/ FlushDone
    \/ FrameSent \/ FrameFails \/ FlushFails
    \/ BoardSends \/ Unplugged \/ Plugged

HidSpec == HidInit /\ [][HidNext]_hidVars

(* The reader loops for ever; the heartbeat thread flushes every two       *)
(* seconds; an unplugged board is plugged in again.                        *)
HidFairSpec == HidSpec /\ WF_hidVars(Reader) /\ WF_hidVars(Flush) /\ WF_hidVars(Plugged)

-----------------------------------------------------------------------------
(* Every frame the board receives continues the stream: the next bytes of  *)
(* the same message, the same frame again (a timed out write that went     *)
(* out), the same message from its start (a flush that failed half way),   *)
(* or the next message once the last one is complete.  Retries in          *)
(* with_transport and flush_board_outbox never skip or reorder a frame.    *)
FramesInOrder ==
    [][rx' # rx =>
         \/ rx'.msg = rx.msg /\ rx'.first \in {1, rx.last + 1}
         \/ /\ rx'.msg = rx.msg + 1 /\ rx'.first = 1
            /\ rx.msg # 0 => rx.last = PayloadLen[rx.msg]]_hidVars

(* The daemon handles board messages in the order the board sent them, and *)
(* none more than twice: two open handles can each deliver one message     *)
(* (recv clones the slot anew for every read), a third delivery or a step  *)
(* back would apply a stale SESSION_RESPONSE or answer to a later state.   *)
HandledInOrder ==
    /\ \A i, j \in DOMAIN handled : i < j => handled[i] <= handled[j]
    /\ \A i \in 1..(Len(handled) - 2) : handled[i] # handled[i + 2]

(* The slot is empty, and the reader waits for a report on an older handle *)
(* that still works: is_connected says no, so no flush opens the device.   *)
ReaderStuck ==
    /\ slot = 0 /\ th["reader"].pc = "op"
    /\ th["reader"].handle \notin dead /\ queue[th["reader"].handle] = <<>>

(* After the last fault everything the daemon queued reaches the board:    *)
(* the message put back is flushed again once the slot is filled.  It is   *)
(* filled by the reader only; until the board sends something the link may *)
(* stay down.                                                              *)
OutboxDrains == (faults = MaxFaults) ~> (outbox = <<>> \/ []ReaderStuck)

(* HANDOFF.md: after open_lazy "the device is opened or reconnected at the *)
(* next HID read or write".  After the last fault what is queued to be     *)
(* written reaches the board.                                              *)
WriteReconnects == (faults = MaxFaults) ~> (outbox = <<>>)

(* A board message that arrives on an undisturbed link is handled: neither *)
(* the reader nor a flush closes the handle it waits on.                   *)
CalmMessageHandled ==
    \A m \in (1..MaxBoard) \ BadCmd : (m \in calm) ~> (\E i \in DOMAIN handled : handled[i] = m)
=============================================================================
