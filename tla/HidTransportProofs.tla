------------------------- MODULE HidTransportProofs -------------------------
(***************************************************************************)
(* The two promises of the HID transport, for every number and length of   *)
(* messages, every report size and every number of faults: frames reach    *)
(* the board in order (FrameInv), and board messages are handled in order, *)
(* none a third time (ReaderInv, which uses that a flusher without frames  *)
(* holds no handle).                                                       *)
(***************************************************************************)
EXTENDS HidTransport, SequenceTheorems, TLAPS

-----------------------------------------------------------------------------
(* The frames of a message.                                                *)

(* Rounding up: the number of chunks of n bytes that hold len bytes.       *)
LEMMA RoundUp ==
    ASSUME NEW len \in Nat, len # 0, NEW n \in Nat, n # 0
    PROVE  LET k == (len + n - 1) \div n
           IN  k \in Nat /\ k # 0 /\ (k - 1) * n < len /\ len <= k * n
  OBVIOUS

(* Chunk i of n bytes ends before the message does unless it is the last.  *)
LEMMA BeforeTheLast ==
    ASSUME NEW n \in Nat, NEW i \in Nat, NEW k \in Nat, i < k
    PROVE  i * n <= (k - 1) * n /\ i * n \in Nat
  OBVIOUS

(* The frames of a message carry its bytes, each once and in order.        *)
Frame == [msg : Nat, first : Nat, last : Nat]

LEMMA SplitFrames ==
    ASSUME NEW m \in Messages
    PROVE  LET F == split_host_to_board(m)
           IN  /\ F \in Seq(Frame)
               /\ Len(F) # 0
               /\ \A i \in 1..Len(F) : F[i].msg = m
               /\ F[1].first = 1
               /\ F[Len(F)].last = PayloadLen[m]
               /\ \A i \in 1..(Len(F) - 1) : F[i + 1].first = F[i].last + 1
<1> DEFINE F == split_host_to_board(m)
           len == PayloadLen[m]
           n == MaxPayload
           k == (len + n - 1) \div n
<1>1. m \in Nat /\ len \in Nat /\ n \in Nat /\ n # 0
  BY HidAssumption DEF Messages
<1>2. CASE len = 0
  BY <1>1, <1>2 DEF split_host_to_board, Frame
<1>3. CASE len # 0
  <2>1. k \in Nat /\ k # 0 /\ (k - 1) * n < len /\ len <= k * n
    BY <1>1, <1>3, RoundUp
  <2>2. F = [i \in 1..k |-> [msg |-> m, first |-> (i - 1) * n + 1,
                             last |-> IF i * n < len THEN i * n ELSE len]]
    BY <1>3 DEF split_host_to_board
  <2> HIDE DEF F, k
  <2>3. \A i \in 1..k : (i - 1) * n \in Nat /\ i * n \in Nat
    BY <1>1, <2>1
  <2>4. \A i \in 1..k : F[i] \in Frame
    BY <1>1, <2>2, <2>3 DEF Frame
  <2>5. F \in Seq(Frame) /\ Len(F) = k
    BY <2>1, <2>2, <2>4
  <2>6. F[1].first = 1
    BY <1>1, <2>1, <2>2
  <2>7. F[k].last = len
    BY <1>1, <2>1, <2>2, <2>3
  <2>8. ASSUME NEW i \in 1..(k - 1) PROVE F[i + 1].first = F[i].last + 1
    <3>1. i * n < len
      BY <1>1, <2>1, <2>3, BeforeTheLast
    <3> QED  BY <1>1, <2>1, <2>2, <3>1
  <2>9. \A i \in 1..k : F[i].msg = m
    BY <2>2
  <2> QED  BY <2>1, <2>5, <2>6, <2>7, <2>8, <2>9 DEF F
<1> QED  BY <1>2, <1>3

-----------------------------------------------------------------------------
(* The inductive invariant.                                                *)

(* Messages whose flush is over: those queued and no longer in the outbox. *)
Flushed == queued - Len(outbox)

(* The flusher thread works on frames only.                                *)
FlusherInv == DOMAIN th = Threads /\ (th["flusher"].pc # "idle" => todo # <<>>)

(* The outbox holds the last messages queued, in the order of queueing.    *)
OutboxInv ==
    /\ queued \in 0..Len(PayloadLen)
    /\ outbox \in Seq(Messages) /\ Len(outbox) <= queued
    /\ \A i \in 1..Len(outbox) : outbox[i] = Flushed + i

(* The board got all of the last message flushed, or a part of the next.   *)
BoardInv ==
    /\ rx \in Frame
    /\ \/ rx.msg = Flushed /\ (Flushed # 0 => rx.last = PayloadLen[Flushed])
       \/ rx.msg = Flushed + 1 /\ outbox # <<>>

(* Frames to send are the last ones of the first message in the outbox.    *)
(* Unless it is all of them, the board got the one before, or the first    *)
(* of them already.                                                        *)
TodoInv ==
    todo # <<>> =>
        LET F == split_host_to_board(Head(outbox))
            at == Len(F) - Len(todo) + 1
        IN  /\ outbox # <<>>
            /\ todo \in Seq(Frame) /\ Len(todo) <= Len(F)
            /\ \A j \in 1..Len(todo) : todo[j] = F[at + j - 1]
            /\ at # 1 => /\ rx.msg = Flushed + 1
                         /\ F[at].first = rx.last + 1 \/ rx = F[at]

FrameInv == FlusherInv /\ OutboxInv /\ BoardInv /\ TodoInv

-----------------------------------------------------------------------------
(* Every step keeps it.                                                    *)

frames == <<rx, todo, outbox, queued>>

LEMMA FrameInit == HidInit => FrameInv
<1> SUFFICES ASSUME HidInit PROVE FrameInv
  OBVIOUS
<1>1. FlusherInv
  BY DEF HidInit, FlusherInv, Threads, Idle
<1>2. queued = 0 /\ outbox = <<>> /\ todo = <<>> /\ rx = NoFrame
  BY DEF HidInit
<1>3. OutboxInv
  BY <1>2, HidAssumption DEF OutboxInv, Messages, Flushed
<1>4. Flushed = 0 /\ NoFrame \in Frame
  <2>1. Len(outbox) = 0
    BY <1>2
  <2>2. queued - Len(outbox) = 0 - 0
    BY <1>2, <2>1
  <2>3. 0 - 0 = 0
    OBVIOUS
  <2> QED  BY <2>2, <2>3 DEF Flushed, NoFrame, Frame
<1>5. BoardInv
  BY <1>2, <1>4 DEF BoardInv, NoFrame
<1> QED  BY <1>1, <1>2, <1>3, <1>5 DEF FrameInv, TodoInv

(* A step that touches neither the frames nor an idle flusher.             *)
LEMMA FramesKept ==
    ASSUME FrameInv, UNCHANGED frames, DOMAIN th' = Threads,
           th'["flusher"] = th["flusher"] \/ th'["flusher"].pc = "idle" \/ todo # <<>>
    PROVE  FrameInv'
<1> USE DEF FrameInv, frames
<1>1. FlusherInv'
  BY DEF FlusherInv
<1>2. OutboxInv' /\ BoardInv'
  BY DEF OutboxInv, BoardInv, Flushed
<1>3. TodoInv'
  BY DEF TodoInv, Flushed, split_host_to_board
<1> QED  BY <1>1, <1>2, <1>3

(* What the steps of with_transport do to the threads.                     *)
LEMMA OperationsKeepFrames ==
    ASSUME FrameInv, NEW x \in Threads, Takes(x) \/ OpenFails(x)
    PROVE  FrameInv'
<1>1. UNCHANGED frames
  BY DEF Takes, OpenFails, frames, board
<1>2. th[x].pc = "take" /\ DOMAIN th = Threads
  BY DEF Takes, OpenFails, FrameInv, FlusherInv
<1>3. DOMAIN th' = Threads /\ (x # "flusher" => th'["flusher"] = th["flusher"])
  BY <1>2 DEF Takes, OpenFails, Rereferenced, Threads
<1>4. x = "flusher" => todo # <<>>
  BY <1>2 DEF FrameInv, FlusherInv
<1> QED  BY <1>1, <1>3, <1>4, FramesKept

LEMMA ReaderKeepsFrames ==
    ASSUME FrameInv,
           ReaderReceives \/ ReaderDecodes \/ ReaderFails \/ ReaderGivesUp \/ ReaderHandles
    PROVE  FrameInv'
<1>1. UNCHANGED frames
  BY DEF ReaderReceives, ReaderDecodes, ReaderFails, ReaderGivesUp, ReaderHandles, frames, board
<1>2. DOMAIN th = Threads
  BY DEF FrameInv, FlusherInv
<1>3. DOMAIN th' = Threads /\ th'["flusher"] = th["flusher"]
  BY <1>2 DEF ReaderReceives, ReaderDecodes, ReaderFails, ReaderGivesUp, ReaderHandles,
              OpErr, Rereferenced, Starting, Threads
<1> QED  BY <1>1, <1>3, FramesKept

LEMMA QueuesKeepsFrames ==
    ASSUME FrameInv, Queues
    PROVE  FrameInv'
<1>1. FlusherInv'
  BY DEF Queues, FrameInv, FlusherInv
<1>2. queued' = queued + 1 /\ queued' \in Messages /\ outbox' = Append(outbox, queued + 1)
  BY HidAssumption DEF Queues, FrameInv, OutboxInv, Messages
<1>3. OutboxInv' /\ Flushed' = Flushed /\ outbox' # <<>>
  <2>1. /\ outbox \in Seq(Messages) /\ Len(outbox) <= queued /\ queued \in Nat
        /\ \A i \in 1..Len(outbox) : outbox[i] = queued - Len(outbox) + i
    BY HidAssumption DEF FrameInv, OutboxInv, Flushed
  <2>2. outbox' \in Seq(Messages) /\ Len(outbox') = Len(outbox) + 1 /\ outbox' # <<>>
    BY <1>2, <2>1
  <2>3. Flushed' = Flushed
    BY <1>2, <2>1, <2>2 DEF Flushed
  <2>4. \A i \in 1..Len(outbox') : outbox'[i] = Flushed + i
    BY <1>2, <2>1, <2>2 DEF Flushed
  <2>5. queued' \in 0..Len(PayloadLen)
    BY <1>2, HidAssumption DEF Messages
  <2> QED  BY <1>2, <2>1, <2>2, <2>3, <2>4, <2>5 DEF OutboxInv
<1>4. BoardInv'
  BY <1>3 DEF Queues, FrameInv, BoardInv, board
<1>5. outbox # <<>> => Head(outbox') = Head(outbox)
  BY <1>2 DEF FrameInv, OutboxInv
<1>6. TodoInv'
  BY <1>3, <1>5 DEF Queues, FrameInv, TodoInv, board, split_host_to_board
<1> QED  BY <1>1, <1>3, <1>4, <1>6 DEF FrameInv

(* The message at the front of the outbox is the next one to arrive.       *)
LEMMA FirstOut ==
    ASSUME FrameInv, outbox # <<>>
    PROVE  Head(outbox) \in Messages /\ Head(outbox) = Flushed + 1 /\ Flushed \in Nat
  BY HidAssumption DEF FrameInv, OutboxInv, Flushed, Messages

LEMMA FlushNextKeepsFrames ==
    ASSUME FrameInv, FlushNext
    PROVE  FrameInv'
<1> DEFINE F == split_host_to_board(Head(outbox))
<1>1. F \in Seq(Frame) /\ Len(F) # 0
  BY FirstOut, SplitFrames DEF FlushNext
<1>2. todo' = F /\ UNCHANGED <<rx, outbox, queued>>
  BY DEF FlushNext, board
<1>3. FlusherInv'
  BY <1>1, <1>2 DEF FlushNext, FrameInv, FlusherInv, Starting, Threads
<1>4. OutboxInv' /\ BoardInv'
  BY <1>2 DEF FrameInv, OutboxInv, BoardInv, Flushed
<1>5. split_host_to_board(Head(outbox))' = F
  BY <1>2 DEF split_host_to_board
<1> HIDE DEF F
<1>6. TodoInv'
  BY <1>1, <1>2, <1>5 DEF TodoInv, FlushNext
<1> QED  BY <1>3, <1>4, <1>6 DEF FrameInv

(* The frame the flusher sends, and what the board may be at.              *)
LEMMA FirstFrame ==
    ASSUME FrameInv, todo # <<>>
    PROVE  LET F == split_host_to_board(Head(outbox))
           IN  /\ Head(todo) \in Frame /\ Head(todo).msg = Flushed + 1
               /\ Head(todo).first = 1 \/ Head(todo).first = rx.last + 1 \/ Head(todo) = rx
               /\ Head(todo).first # 1 => rx.msg = Flushed + 1
               /\ Len(todo) = 1 => Head(todo).last = PayloadLen[Flushed + 1]
               /\ Len(todo) # 1 => F[Len(F) - Len(todo) + 2].first = Head(todo).last + 1
<1> DEFINE F == split_host_to_board(Head(outbox))
           at == Len(F) - Len(todo) + 1
<1>1. /\ outbox # <<>>
      /\ todo \in Seq(Frame) /\ Len(todo) <= Len(F)
      /\ \A j \in 1..Len(todo) : todo[j] = F[at + j - 1]
      /\ at # 1 => rx.msg = Flushed + 1 /\ (F[at].first = rx.last + 1 \/ rx = F[at])
  BY DEF FrameInv, TodoInv
<1>2. /\ F \in Seq(Frame) /\ Len(F) # 0
      /\ \A i \in 1..Len(F) : F[i].msg = Flushed + 1
      /\ F[1].first = 1 /\ F[Len(F)].last = PayloadLen[Flushed + 1]
      /\ \A i \in 1..(Len(F) - 1) : F[i + 1].first = F[i].last + 1
  BY <1>1, FirstOut, SplitFrames
<1> HIDE DEF F
<1>3. at \in 1..Len(F) /\ Head(todo) = F[at] /\ (Len(todo) = 1 <=> at = Len(F))
  <2>1. Len(F) \in Nat /\ Len(todo) \in Nat /\ Len(todo) # 0 /\ Head(todo) = todo[1]
    BY <1>1, <1>2
  <2>2. at \in 1..Len(F) /\ (Len(todo) = 1 <=> at = Len(F)) /\ at + 1 - 1 = at
    <3>1. Len(todo) <= Len(F)
      BY <1>1
    <3>2. ASSUME NEW a \in Nat, NEW b \in Nat, a # 0, a <= b
          PROVE  b - a + 1 \in 1..b /\ (a = 1 <=> b - a + 1 = b) /\ b - a + 1 + 1 - 1 = b - a + 1
      BY <3>2
    <3> QED  BY <2>1, <3>1, <3>2
  <2> HIDE DEF at
  <2> QED  BY <1>1, <2>1, <2>2
<1>4. Head(todo) \in Frame /\ Head(todo).msg = Flushed + 1
  BY <1>2, <1>3
<1>5. Len(todo) # 1 => at \in 1..(Len(F) - 1) /\ at + 1 = Len(F) - Len(todo) + 2
  BY <1>1, <1>2, <1>3
<1> QED  BY <1>1, <1>2, <1>3, <1>4, <1>5 DEF F

LEMMA FrameSentKeepsFrames ==
    ASSUME FrameInv, FrameSent
    PROVE  FrameInv'
<1> DEFINE F == split_host_to_board(Head(outbox))
<1>1. todo # <<>> /\ outbox # <<>>
  BY DEF FrameSent, FrameInv, FlusherInv, TodoInv
<1>2. rx' = Head(todo) /\ rx' \in Frame /\ rx'.msg = Flushed + 1
  BY <1>1, FirstFrame DEF FrameSent
<1>3. todo \in Seq(Frame) /\ Len(todo) <= Len(F) /\ todo' = Tail(todo) /\ queued' = queued
  BY <1>1 DEF FrameSent, FrameInv, TodoInv
<1>4. DOMAIN th' = Threads
  BY DEF FrameSent, FrameInv, FlusherInv, Rereferenced, Starting
<1>5. CASE Len(todo) = 1
  <2>1. todo' = <<>> /\ outbox' = Tail(outbox)
    BY <1>1, <1>3, <1>5 DEF FrameSent
  <2>2. th'["flusher"].pc = "idle"
    BY <1>5 DEF FrameSent, FrameInv, FlusherInv, Rereferenced, Idle, Threads
  <2>3. /\ outbox \in Seq(Messages) /\ Len(outbox) <= queued /\ queued \in Nat
        /\ \A i \in 1..Len(outbox) : outbox[i] = queued - Len(outbox) + i
    BY HidAssumption DEF FrameInv, OutboxInv, Flushed
  <2>4. /\ outbox' \in Seq(Messages) /\ Len(outbox') = Len(outbox) - 1
        /\ \A i \in 1..Len(outbox') : outbox'[i] = outbox[i + 1]
    BY <1>1, <2>1, <2>3
  <2>5. Flushed' = Flushed + 1 /\ Flushed \in Nat
    BY <1>3, <2>3, <2>4 DEF Flushed
  <2>6. \A i \in 1..Len(outbox') : outbox'[i] = Flushed + 1 + i
    BY <2>3, <2>4 DEF Flushed
  <2>7. OutboxInv'
    BY <1>3, <2>3, <2>4, <2>5, <2>6 DEF FrameInv, OutboxInv
  <2>8. BoardInv'
    BY <1>1, <1>2, <1>5, <2>5, FirstFrame DEF BoardInv
  <2> QED  BY <1>4, <2>1, <2>2, <2>7, <2>8 DEF FrameInv, FlusherInv, TodoInv
<1>6. CASE Len(todo) # 1
  <2>1. outbox' = outbox /\ Flushed' = Flushed
    BY <1>3, <1>6 DEF FrameSent, Flushed
  <2>2. /\ todo' \in Seq(Frame) /\ Len(todo') = Len(todo) - 1 /\ todo' # <<>>
        /\ \A j \in 1..Len(todo') : todo'[j] = todo[j + 1]
    <3>1. Len(todo) \in Nat /\ Len(todo) # 0
      BY <1>1, <1>3
    <3>2. Len(todo') = Len(todo) - 1 /\ todo' \in Seq(Frame)
      BY <1>1, <1>3, HeadTailProperties
    <3>3. Len(todo') # 0
      BY <1>6, <3>1, <3>2
    <3> QED  BY <1>1, <1>3, <3>2, <3>3, HeadTailProperties
  <2>3. OutboxInv' /\ BoardInv'
    BY <1>1, <1>2, <1>3, <2>1 DEF FrameInv, OutboxInv, BoardInv
  <2>4. F' = F
    BY <2>1 DEF split_host_to_board
  <2>5. Len(F) \in Nat /\ \A j \in 1..Len(todo) : todo[j] = F[Len(F) - Len(todo) + 1 + j - 1]
    BY <1>1, FirstOut, SplitFrames DEF FrameInv, TodoInv
  <2>6. F[Len(F) - Len(todo) + 2].first = rx'.last + 1
    BY <1>1, <1>2, <1>6, FirstFrame
  <2> HIDE DEF F
  <2>7. Len(F) - Len(todo') + 1 = Len(F) - Len(todo) + 2
    BY <1>3, <2>2, <2>5
  <2>8. \A j \in 1..Len(todo') : todo'[j] = F[Len(F) - Len(todo') + 1 + j - 1]
    BY <1>3, <2>2, <2>5
  <2>9. Len(todo') <= Len(F)
    BY <1>3, <2>2, <2>5
  <2>10. /\ outbox' # <<>> /\ rx'.msg = Flushed' + 1
         /\ F[Len(F) - Len(todo') + 1].first = rx'.last + 1
    BY <1>1, <1>2, <2>1, <2>6, <2>7
  <2>11. TodoInv'
    BY <2>2, <2>4, <2>8, <2>9, <2>10 DEF TodoInv, F
  <2> QED  BY <1>4, <2>2, <2>3, <2>11 DEF FrameInv, FlusherInv
<1> QED  BY <1>5, <1>6

LEMMA FrameFailsKeepsFrames ==
    ASSUME FrameInv, FrameFails
    PROVE  FrameInv'
<1>1. todo # <<>> /\ outbox # <<>>
  BY DEF FrameFails, FrameInv, FlusherInv, TodoInv
<1>2. UNCHANGED <<todo, outbox, queued>> /\ rx' \in {rx, Head(todo)}
  BY DEF FrameFails
<1>3. FlusherInv'
  BY <1>1, <1>2 DEF FrameFails, OpErr, Rereferenced, FrameInv, FlusherInv
<1>4. OutboxInv' /\ Flushed' = Flushed
  BY <1>2 DEF FrameInv, OutboxInv, Flushed
<1>5. BoardInv'
  BY <1>1, <1>2, <1>4, FirstFrame DEF FrameInv, BoardInv
<1>6. TodoInv'
  <2> DEFINE F == split_host_to_board(Head(outbox))
             at == Len(F) - Len(todo) + 1
  <2>1. F' = F
    BY <1>2 DEF split_host_to_board
  <2>2. Head(todo) = F[at]
    <3>1. Len(todo) \in Nat /\ Len(todo) # 0 /\ Head(todo) = todo[1]
      BY <1>1 DEF FrameInv, TodoInv
    <3>2. Len(F) \in Nat
      BY <1>1, FirstOut, SplitFrames
    <3>3. todo[1] = F[at + 1 - 1]
      BY <1>1, <3>1 DEF FrameInv, TodoInv
    <3>4. at + 1 - 1 = at
      BY <3>1, <3>2
    <3> QED  BY <3>1, <3>3, <3>4
  <2> HIDE DEF F
  <2>3. at # 1 => rx'.msg = Flushed + 1 /\ (F[at].first = rx'.last + 1 \/ rx' = F[at])
    BY <1>1, <1>2, <2>2, FirstFrame DEF FrameInv, TodoInv, F
  <2> QED  BY <1>1, <1>2, <1>4, <2>1, <2>3 DEF FrameInv, TodoInv, F
<1> QED  BY <1>3, <1>4, <1>5, <1>6 DEF FrameInv

(* The flush is given up: the message stays first, all of it is sent again *)
(* by the next one.                                                        *)
LEMMA FlushFailsKeepsFrames ==
    ASSUME FrameInv, FlushFails
    PROVE  FrameInv'
<1>1. todo' = <<>> /\ UNCHANGED <<rx, outbox, queued>>
  BY DEF FlushFails, board
<1>2. DOMAIN th' = Threads /\ th'["flusher"].pc = "idle"
  BY DEF FlushFails, FlushOver, Starting, Idle, Threads, FrameInv, FlusherInv
<1>3. OutboxInv' /\ BoardInv'
  BY <1>1 DEF FrameInv, OutboxInv, BoardInv, Flushed
<1> QED  BY <1>1, <1>2, <1>3 DEF FrameInv, FlusherInv, TodoInv

LEMMA OthersKeepFrames ==
    ASSUME FrameInv, FlushStarts \/ FlushDone \/ BoardSends \/ Unplugged \/ Plugged
    PROVE  FrameInv'
<1>1. UNCHANGED frames
  BY DEF FlushStarts, FlushDone, BoardSends, Unplugged, Plugged, frames, board
<1>2. DOMAIN th = Threads
  BY DEF FrameInv, FlusherInv
<1>3. DOMAIN th' = Threads /\ th'["flusher"] = th["flusher"]
  BY <1>2 DEF FlushStarts, FlushDone, BoardSends, Unplugged, Plugged, FlushOver, Starting,
              Threads
<1> QED  BY <1>1, <1>3, FramesKept

LEMMA FrameStep == FrameInv /\ [HidNext]_hidVars => FrameInv'
<1> SUFFICES ASSUME FrameInv, [HidNext]_hidVars PROVE FrameInv'
  OBVIOUS
<1>1. ASSUME NEW x \in Threads, Takes(x) \/ OpenFails(x) PROVE FrameInv'
  BY <1>1, OperationsKeepFrames
<1>2. CASE ReaderReceives \/ ReaderDecodes \/ ReaderFails \/ ReaderGivesUp \/ ReaderHandles
  BY <1>2, ReaderKeepsFrames
<1>3. CASE Queues
  BY <1>3, QueuesKeepsFrames
<1>4. CASE FlushNext
  BY <1>4, FlushNextKeepsFrames
<1>5. CASE FrameSent
  BY <1>5, FrameSentKeepsFrames
<1>6. CASE FrameFails
  BY <1>6, FrameFailsKeepsFrames
<1>7. CASE FlushFails
  BY <1>7, FlushFailsKeepsFrames
<1>8. CASE FlushStarts \/ FlushDone \/ BoardSends \/ Unplugged \/ Plugged
  BY <1>8, OthersKeepFrames
<1>9. CASE UNCHANGED hidVars
  <2>1. UNCHANGED frames /\ th' = th
    BY <1>9 DEF hidVars, frames, board
  <2> QED  BY <2>1, FramesKept DEF FrameInv, FlusherInv
<1> QED  BY <1>1, <1>2, <1>3, <1>4, <1>5, <1>6, <1>7, <1>8, <1>9 DEF HidNext

-----------------------------------------------------------------------------
(* What a frame that arrives may be.                                       *)
InOrder ==
    rx' # rx =>
        \/ rx'.msg = rx.msg /\ rx'.first \in {1, rx.last + 1}
        \/ /\ rx'.msg = rx.msg + 1 /\ rx'.first = 1
           /\ rx.msg # 0 => rx.last = PayloadLen[rx.msg]

LEMMA ArrivesInOrder == FrameInv /\ [HidNext]_hidVars => InOrder
<1> SUFFICES ASSUME FrameInv, [HidNext]_hidVars, rx' # rx PROVE InOrder
  BY DEF InOrder
<1>1. FrameSent \/ FrameFails
  BY DEF HidNext, Takes, OpenFails, ReaderReceives, ReaderDecodes, ReaderFails, ReaderGivesUp,
         ReaderHandles, Queues, FlushNext, FlushFails, FlushStarts, FlushDone, BoardSends,
         Unplugged, Plugged, hidVars, board
<1>2. todo # <<>> /\ rx' = Head(todo)
  BY <1>1 DEF FrameSent, FrameFails, FrameInv, FlusherInv
<1>3. /\ rx'.msg = Flushed + 1 /\ rx'.first \in {1, rx.last + 1}
      /\ rx'.first # 1 => rx.msg = Flushed + 1
  BY <1>2, FirstFrame
<1>4. \/ rx.msg = Flushed /\ (Flushed # 0 => rx.last = PayloadLen[Flushed])
      \/ rx.msg = Flushed + 1
  BY DEF FrameInv, BoardInv
<1>5. Flushed \in Nat
  BY <1>2, FirstOut DEF FrameInv, TodoInv
<1> QED  BY <1>3, <1>4, <1>5 DEF InOrder

(* The frames of the daemon's messages reach the board in order, whatever  *)
(* writes fail, time out, or go out although they timed out: every frame   *)
(* that arrives continues the stream or starts its message again.          *)
THEOREM FramesStayInOrder == HidSpec => FramesInOrder
<1>1. HidInit => FrameInv
  BY FrameInit
<1>2. FrameInv /\ [HidNext]_hidVars => FrameInv'
  BY FrameStep
<1>3. FrameInv /\ [HidNext]_hidVars => [InOrder]_hidVars
  BY ArrivesInOrder
<1> QED  BY <1>1, <1>2, <1>3, PTL DEF HidSpec, FramesInOrder, InOrder

-----------------------------------------------------------------------------
(* Board messages: what the reader heard, those waiting for the lock too.  *)

Thread == [pc : {"idle", "take", "op", "failed", "lock", "flush"},
           handle : Nat, attempt : Nat, got : Nat]

(* A thread has a handle while it reads or writes; every handle that a     *)
(* thread or the slot has is open, and the slot has the newest.            *)
HandleInv ==
    /\ opened \in Nat /\ sent \in Nat /\ dead \subseteq 1..opened /\ slot \in {0, opened}
    /\ th \in [Threads -> Thread]
    /\ \A x \in Threads : th[x].handle <= opened /\ (th[x].pc = "op" <=> th[x].handle # 0)
    /\ DOMAIN queue = OpenHandles(slot, th)
    /\ flusher = "reader" => th["reader"].pc = "flush"

(* The messages waiting on a handle are the last ones the board sent.      *)
QueueInv ==
    \A h \in DOMAIN queue \ dead :
        /\ queue[h] \in Seq(Nat) /\ Len(queue[h]) <= sent
        /\ \A i \in 1..Len(queue[h]) : queue[h][i] = sent - Len(queue[h]) + i

Heard == IF th["reader"].pc = "lock" THEN Append(handled, th["reader"].got) ELSE handled

Ordered(s) ==
    /\ \A i, j \in 1..Len(s) : i < j => s[i] <= s[j]
    /\ \A i \in 1..(Len(s) - 2) : s[i] # s[i + 2]

LastHeard == IF Heard = <<>> THEN 0 ELSE Heard[Len(Heard)]
Twice == Len(Heard) > 1 /\ Heard[Len(Heard) - 1] = LastHeard

(* The messages sent before those that wait on a handle.                   *)
Past(h) == sent - Len(queue[h])

(* The next message of a handle is a new one, or the last one heard if     *)
(* that was heard once.                                                    *)
Ready(h) ==
    h \notin dead => Past(h) + 1 >= LastHeard /\ (Twice => Past(h) >= LastHeard)

(* A handle that was opened while the reader had another one has only what *)
(* was sent since then.                                                    *)
HeardInv ==
    LET r == th["reader"]
    IN  /\ handled \in Seq(Nat) /\ Ordered(Heard) /\ LastHeard <= sent
        /\ slot # 0 => Ready(slot)
        /\ r.pc = "op" => Ready(r.handle)
        /\ r.pc = "op" /\ slot \notin {0, r.handle} \union dead =>
               Past(slot) >= LastHeard /\ (r.handle \notin dead => Past(slot) >= Past(r.handle))

ReaderInv == HandleInv /\ QueueInv /\ HeardInv

LEMMA OpenIs ==
    ASSUME NEW s, NEW t, NEW h
    PROVE  h \in OpenHandles(s, t) <=>
               h # 0 /\ (h = s \/ h = t["reader"].handle \/ h = t["flusher"].handle)
  BY DEF OpenHandles, Threads

LEMMA ReaderInit == HidInit => ReaderInv
<1> SUFFICES ASSUME HidInit PROVE ReaderInv
  OBVIOUS
<1>1. /\ opened = 0 /\ sent = 0 /\ dead = {} /\ slot = 0 /\ queue = <<>> /\ handled = <<>>
      /\ flusher = "none" /\ th \in [Threads -> Thread]
      /\ th["reader"].pc = "take" /\ \A x \in Threads : th[x].handle = 0 /\ th[x].pc # "op"
  <2>1. th = [x \in Threads |-> IF x = "reader" THEN [Idle EXCEPT !.pc = "take"] ELSE Idle]
    BY DEF HidInit
  <2>2. \A x \in Threads : th[x] \in Thread /\ th[x].handle = 0 /\ th[x].pc # "op"
    <3>1. Idle \in Thread /\ [Idle EXCEPT !.pc = "take"] \in Thread
      BY DEF Thread, Idle
    <3>2. Idle.handle = 0 /\ [Idle EXCEPT !.pc = "take"].handle = 0
      BY DEF Idle
    <3>3. Idle.pc # "op" /\ [Idle EXCEPT !.pc = "take"].pc # "op"
      BY DEF Idle
    <3> QED  BY <2>1, <3>1, <3>2, <3>3
  <2>3. th["reader"].pc = "take"
    BY <2>1 DEF Threads, Idle
  <2>4. th \in [Threads -> Thread]
    BY <2>1, <2>2
  <2> QED  BY <2>2, <2>3, <2>4 DEF HidInit
<1>2. \A h : h \notin OpenHandles(slot, th)
  BY <1>1, OpenIs DEF Threads
<1>3. DOMAIN queue = {}
  BY <1>1
<1>4. HandleInv
  BY <1>1, <1>2, <1>3 DEF HandleInv
<1>5. QueueInv
  BY <1>3 DEF QueueInv
<1>6. Heard = <<>> /\ LastHeard = 0 /\ Len(Heard) = 0
  BY <1>1 DEF Heard, LastHeard
<1>7. HeardInv
  BY <1>1, <1>6 DEF HeardInv, Ordered
<1> QED  BY <1>4, <1>5, <1>7 DEF ReaderInv

(* A queue that holds the last messages up to n, with and without its head.*)
LEMMA TailOfRange ==
    ASSUME NEW n \in Nat, NEW q \in Seq(Nat), q # <<>>, Len(q) <= n,
           \A i \in 1..Len(q) : q[i] = n - Len(q) + i
    PROVE  /\ Head(q) = n - Len(q) + 1
           /\ Tail(q) \in Seq(Nat) /\ Len(Tail(q)) = Len(q) - 1 /\ Len(Tail(q)) <= n
           /\ \A i \in 1..Len(Tail(q)) : Tail(q)[i] = n - Len(Tail(q)) + i
<1>1. Len(q) \in Nat /\ Len(q) # 0 /\ Head(q) = q[1]
  OBVIOUS
<1>2. /\ Tail(q) \in Seq(Nat) /\ Len(Tail(q)) = Len(q) - 1
      /\ \A i \in 1..Len(Tail(q)) : Tail(q)[i] = q[i + 1]
  BY HeadTailProperties
<1>3. \A i \in 1..Len(Tail(q)) : q[i + 1] = n - Len(Tail(q)) + i
  BY <1>1, <1>2
<1> QED  BY <1>1, <1>2, <1>3

(* Reports are taken from the front, and new handles start without any.    *)
LEMMA QueuesKept ==
    ASSUME ReaderInv, NEW s, NEW t, NEW q, Rereferenced(s, t, q),
           DOMAIN q = DOMAIN queue, UNCHANGED <<sent, dead>>,
           \A h \in DOMAIN queue \ dead :
               q[h] = queue[h] \/ (queue[h] # <<>> /\ q[h] = Tail(queue[h]))
    PROVE  QueueInv'
<1> SUFFICES ASSUME NEW h \in DOMAIN queue' \ dead
             PROVE  /\ queue'[h] \in Seq(Nat) /\ Len(queue'[h]) <= sent
                    /\ \A i \in 1..Len(queue'[h]) : queue'[h][i] = sent - Len(queue'[h]) + i
  BY DEF QueueInv
<1>1. sent \in Nat
  BY DEF ReaderInv, HandleInv
<1>2. CASE h \notin DOMAIN queue
  <2>1. queue'[h] = <<>>
    BY <1>2 DEF Rereferenced
  <2>2. Len(queue'[h]) = 0 /\ queue'[h] \in Seq(Nat)
    BY <2>1
  <2> QED  BY <1>1, <2>2
<1>3. CASE h \in DOMAIN queue
  <2>1. queue'[h] = q[h]
    BY <1>3 DEF Rereferenced
  <2>2. /\ queue[h] \in Seq(Nat) /\ Len(queue[h]) <= sent
        /\ \A i \in 1..Len(queue[h]) : queue[h][i] = sent - Len(queue[h]) + i
    BY <1>3 DEF ReaderInv, QueueInv
  <2>3. CASE q[h] = queue[h]
    BY <2>1, <2>2, <2>3
  <2>4. CASE queue[h] # <<>> /\ q[h] = Tail(queue[h])
    <3> DEFINE r == queue[h]
    <3>1. /\ r \in Seq(Nat) /\ r # <<>> /\ Len(r) <= sent
          /\ \A i \in 1..Len(r) : r[i] = sent - Len(r) + i
      BY <2>2, <2>4
    <3> HIDE DEF r
    <3>2. /\ Tail(r) \in Seq(Nat) /\ Len(Tail(r)) <= sent
          /\ \A i \in 1..Len(Tail(r)) : Tail(r)[i] = sent - Len(Tail(r)) + i
      BY <1>1, <3>1, TailOfRange
    <3>3. queue'[h] = Tail(r)
      BY <2>1, <2>4 DEF r
    <3> QED  BY <3>2, <3>3
  <2> QED  BY <1>3, <2>3, <2>4
<1> QED  BY <1>2, <1>3

(* A step in which the reader hears nothing new and the slot is not filled.*)
LEMMA HeardKept ==
    ASSUME ReaderInv, handled' \in Seq(Nat), Heard' = Heard, sent' = sent,
           dead \subseteq dead', slot' \in {0, slot},
           th'["reader"].pc = "op" => th'["reader"] = th["reader"],
           \A h : h # 0 /\ (h = slot' \/ h = th'["reader"].handle) /\ h \in DOMAIN queue
                    => queue'[h] = queue[h],
           HandleInv'
    PROVE  HeardInv'
<1>1. LastHeard' = LastHeard /\ Twice' = Twice
  BY DEF LastHeard, Twice
<1>2. slot' # 0 => slot' = slot /\ queue'[slot] = queue[slot]
  BY OpenIs DEF ReaderInv, HandleInv
<1>3. th'["reader"].pc = "op" => /\ th'["reader"] = th["reader"]
                                 /\ queue'[th["reader"].handle] = queue[th["reader"].handle]
  BY OpenIs DEF ReaderInv, HandleInv, Threads
<1>4. slot' # 0 => Past(slot)' = Past(slot) /\ Ready(slot)'
  BY <1>1, <1>2 DEF ReaderInv, HeardInv, Past, Ready
<1>5. th'["reader"].pc = "op" => /\ Past(th["reader"].handle)' = Past(th["reader"].handle)
                                 /\ Ready(th["reader"].handle)'
  BY <1>1, <1>3 DEF ReaderInv, HeardInv, Past, Ready
<1>6. Ordered(Heard)' /\ LastHeard' <= sent'
  BY <1>1 DEF ReaderInv, HeardInv, Ordered
<1> QED  BY <1>1, <1>2, <1>3, <1>4, <1>5, <1>6 DEF ReaderInv, HeardInv

(* One more message keeps the order if it is at least the last one, and    *)
(* a new one if that was heard twice.                                      *)
LEMMA AppendOrdered ==
    ASSUME NEW s \in Seq(Nat), NEW m \in Nat, Ordered(s),
           s # <<>> => s[Len(s)] <= m,
           Len(s) > 1 /\ s[Len(s) - 1] = s[Len(s)] => m # s[Len(s)]
    PROVE  Ordered(Append(s, m))
<1> DEFINE t == Append(s, m)
           n == Len(s)
<1>1. /\ n \in Nat /\ Len(t) = n + 1 /\ t[n + 1] = m
      /\ \A i \in 1..n : t[i] = s[i] /\ s[i] \in Nat
      /\ n # 0 => s # <<>>
  OBVIOUS
<1>2. /\ n # 0 => s[n] <= m
      /\ n > 1 /\ s[n - 1] = s[n] => m # s[n]
      /\ \A i, j \in 1..n : i < j => s[i] <= s[j]
      /\ \A i \in 1..(n - 2) : s[i] # s[i + 2]
  BY <1>1 DEF Ordered
<1> HIDE DEF t, n
<1>3. ASSUME NEW i \in 1..(n + 1), NEW j \in 1..(n + 1), i < j PROVE t[i] <= t[j]
  <2>1. CASE j # n + 1
    BY <1>1, <1>2, <1>3, <2>1
  <2>2. CASE j = n + 1
    <3>1. i \in 1..n /\ s[i] <= s[n] /\ s[n] \in Nat /\ s[n] <= m
      BY <1>1, <1>2, <1>3, <2>2
    <3> QED  BY <1>1, <2>2, <3>1
  <2> QED  BY <2>1, <2>2
<1>4. ASSUME NEW i \in 1..(n + 1 - 2) PROVE t[i] # t[i + 2]
  <2>1. CASE i # n - 1
    BY <1>1, <1>2, <2>1
  <2>2. CASE i = n - 1
    <3>1. n > 1 /\ t[i] = s[n - 1] /\ t[i + 2] = m
      BY <1>1, <2>2
    <3>2. s[n - 1] <= s[n] /\ s[n] <= m /\ s[n - 1] \in Nat /\ s[n] \in Nat
      BY <1>1, <1>2, <3>1
    <3>3. s[n - 1] = s[n] => m # s[n]
      BY <1>2, <3>1
    <3>4. s[n - 1] # m
      BY <3>2, <3>3
    <3> QED  BY <3>1, <3>4
  <2> QED  BY <2>1, <2>2
<1>5. Ordered(t)
  BY <1>1, <1>3, <1>4 DEF Ordered
<1> QED  BY <1>5 DEF t

LEMMA TakesKeepsReader ==
    ASSUME ReaderInv, NEW x \in Threads, Takes(x)
    PROVE  ReaderInv'
<1> DEFINE r == th["reader"]
<1>0. PICK h : h = IF slot = 0 THEN opened + 1 ELSE slot
  OBVIOUS
<1>1. /\ th[x].pc = "take" /\ slot' = h /\ opened' = IF slot = 0 THEN h ELSE opened
      /\ th' = [th EXCEPT ![x].pc = "op", ![x].handle = h]
      /\ Rereferenced(h, th', queue)
      /\ UNCHANGED <<sent, dead, handled, flusher>>
  BY <1>0 DEF Takes, Rereferenced, board
<1>2. /\ opened \in Nat /\ sent \in Nat /\ dead \subseteq 1..opened /\ slot \in {0, opened}
      /\ th \in [Threads -> Thread]
      /\ \A y \in Threads : th[y].handle <= opened /\ (th[y].pc = "op" <=> th[y].handle # 0)
      /\ DOMAIN queue = OpenHandles(slot, th)
      /\ flusher = "reader" => r.pc = "flush"
  BY DEF ReaderInv, HandleInv
<1>3. h \in Nat /\ h # 0 /\ h = opened' /\ opened <= opened' /\ opened' \in Nat
  BY <1>0, <1>1, <1>2
<1>4. th' \in [Threads -> Thread]
  BY <1>1, <1>2, <1>3 DEF Thread
<1>5. \A y \in Threads : th'[y].handle <= opened' /\ (th'[y].pc = "op" <=> th'[y].handle # 0)
  <2> SUFFICES ASSUME NEW y \in Threads
               PROVE  th'[y].handle <= opened' /\ (th'[y].pc = "op" <=> th'[y].handle # 0)
    OBVIOUS
  <2>1. CASE y = x
    BY <1>1, <1>2, <1>3, <2>1 DEF Thread
  <2>2. CASE y # x
    <3>1. th'[y] = th[y] /\ th[y].handle \in Nat
      BY <1>1, <1>2, <2>2 DEF Thread
    <3> QED  BY <1>2, <1>3, <3>1
  <2> QED  BY <2>1, <2>2
<1>6. HandleInv'
  BY <1>1, <1>2, <1>3, <1>4, <1>5 DEF HandleInv, Rereferenced, Threads
<1>7. QueueInv'
  BY <1>1, QueuesKept
<1>8. Heard' = Heard /\ LastHeard' = LastHeard /\ Twice' = Twice
  <2>1. Heard' = Heard
    BY <1>1, <1>2 DEF Heard, Threads, Thread
  <2> QED  BY <2>1 DEF LastHeard, Twice
<1>9. handled \in Seq(Nat) /\ Ordered(Heard)' /\ LastHeard' <= sent'
  BY <1>1, <1>8 DEF ReaderInv, HeardInv, Ordered
<1>10. LastHeard \in Nat /\ sent - 0 = sent
  <2>1. Heard \in Seq(Nat)
    BY <1>2, <1>9 DEF Heard, Threads, Thread
  <2> QED  BY <1>2, <2>1 DEF LastHeard
<1>11. h \notin dead => Past(h)' + 1 >= LastHeard /\ (Twice => Past(h)' >= LastHeard)
  <2>1. CASE slot = 0
    <3>1. h \notin DOMAIN queue
      BY <1>0, <1>2, <2>1, OpenIs DEF Threads
    <3>2. queue'[h] = <<>>
      BY <1>1, <1>3, <3>1, OpenIs DEF Rereferenced
    <3>3. Past(h)' = sent - Len(<<>>)
      BY <1>1, <3>2 DEF Past
    <3>4. Len(<<>>) = 0
      OBVIOUS
    <3> QED  BY <1>2, <1>8, <1>9, <1>10, <1>1, <3>3, <3>4
  <2>2. CASE slot # 0
    <3>1. h = slot /\ h \in DOMAIN queue
      BY <1>0, <1>2, <2>2, OpenIs
    <3>2. queue'[h] = queue[h]
      BY <1>1, <1>3, <3>1, OpenIs DEF Rereferenced
    <3>3. Past(h)' = Past(h)
      BY <1>1, <3>2 DEF Past
    <3> QED  BY <2>2, <3>1, <3>3 DEF ReaderInv, HeardInv, Ready
  <2> QED  BY <2>1, <2>2
<1>12. Ready(h)'
  BY <1>1, <1>8, <1>11 DEF Ready, Past
<1>13. CASE x = "reader"
  <2>1. th'["reader"].handle = h
    BY <1>1, <1>2, <1>13 DEF Threads, Thread
  <2> QED  BY <1>1, <1>6, <1>7, <1>9, <1>12, <2>1 DEF ReaderInv, HeardInv
<1>14. CASE x = "flusher"
  <2>1. th'["reader"] = r
    BY <1>1, <1>2, <1>14 DEF Threads
  <2>2. CASE slot # 0
    <3>1. h = slot
      BY <1>0, <2>2
    <3>2. \A g \in DOMAIN queue : g \in DOMAIN queue' => queue'[g] = queue[g]
      BY <1>1 DEF Rereferenced
    <3>3. \A g : g # 0 /\ (g = slot' \/ g = th'["reader"].handle) => g \in DOMAIN queue'
      BY <1>6, OpenIs DEF HandleInv
    <3> QED  BY <1>1, <1>6, <1>7, <1>8, <1>9, <2>1, <3>1, <3>2, <3>3, HeardKept DEF ReaderInv
  <2>3. CASE slot = 0
    <3>1. ASSUME r.pc = "op"
          PROVE  Ready(r.handle)' /\ Past(h)' >= LastHeard
                 /\ (r.handle \notin dead => Past(h)' >= Past(r.handle)')
      <4>1. r.handle \in DOMAIN queue
        BY <1>2, <3>1, OpenIs DEF Threads
      <4>2. r.handle \in DOMAIN queue'
        BY <1>1, <1>2, <2>1, <3>1, OpenIs DEF Rereferenced, Threads
      <4>3. queue'[r.handle] = queue[r.handle] /\ Past(r.handle)' = Past(r.handle)
        BY <1>1, <4>1, <4>2, <2>1 DEF Rereferenced, Past
      <4>4. Ready(r.handle)'
        BY <1>1, <1>8, <2>1, <3>1, <4>3 DEF ReaderInv, HeardInv, Ready, Past
      <4>5. Past(h)' = sent
        <5>1. h \notin DOMAIN queue
          BY <1>0, <1>2, <2>3, OpenIs DEF Threads
        <5>2. queue'[h] = <<>>
          BY <1>1, <1>3, <5>1, OpenIs DEF Rereferenced
        <5>3. Past(h)' = sent - Len(<<>>)
          BY <1>1, <5>2 DEF Past
        <5>4. Len(<<>>) = 0
          OBVIOUS
        <5> QED  BY <1>2, <1>10, <5>3, <5>4
      <4>6. r.handle \notin dead => Len(queue[r.handle]) \in Nat
        BY <4>1 DEF ReaderInv, QueueInv
      <4> QED  BY <1>1, <1>2, <1>8, <1>9, <1>10, <4>3, <4>4, <4>5, <4>6 DEF Past
    <3> QED  BY <1>1, <1>3, <1>6, <1>7, <1>8, <1>9, <1>12, <2>1, <3>1 DEF ReaderInv, HeardInv
  <2> QED  BY <2>2, <2>3
<1> QED  BY <1>13, <1>14 DEF Threads

(* The reader hears the next message of its handle.                        *)
LEMMA ReceivesKeepsReader ==
    ASSUME ReaderInv, ReaderReceives
    PROVE  ReaderInv'
<1> DEFINE r == th["reader"]
<1>0. PICK h : h = r.handle
  OBVIOUS
<1>1. PICK m : m = Head(queue[h])
  OBVIOUS
<1>2. PICK q : q = [queue EXCEPT ![h] = Tail(@)]
  OBVIOUS
<1>3. /\ r.pc = "op" /\ h \notin dead /\ queue[h] # <<>>
      /\ th' = [th EXCEPT !["reader"] = [Idle EXCEPT !.pc = "lock", !.got = m]]
      /\ Rereferenced(slot, th', q) /\ slot' = slot
      /\ UNCHANGED <<sent, opened, dead, handled, flusher>>
  BY <1>0, <1>1, <1>2 DEF ReaderReceives, Rereferenced, board
<1>4. /\ opened \in Nat /\ sent \in Nat /\ dead \subseteq 1..opened /\ slot \in {0, opened}
      /\ th \in [Threads -> Thread]
      /\ \A y \in Threads : th[y].handle <= opened /\ (th[y].pc = "op" <=> th[y].handle # 0)
      /\ DOMAIN queue = OpenHandles(slot, th)
      /\ flusher = "reader" => r.pc = "flush"
  BY DEF ReaderInv, HandleInv
<1>5. h # 0 /\ h \in Nat /\ h \in DOMAIN queue
  BY <1>0, <1>3, <1>4, OpenIs DEF Threads, Thread
<1>6. /\ queue[h] \in Seq(Nat) /\ Len(queue[h]) <= sent
      /\ \A i \in 1..Len(queue[h]) : queue[h][i] = sent - Len(queue[h]) + i
  BY <1>3, <1>5 DEF ReaderInv, QueueInv
<1>7. PICK s : s = queue[h]
  OBVIOUS
<1>8. m = sent - Len(s) + 1 /\ Len(Tail(s)) = Len(s) - 1 /\ Len(s) \in Nat /\ m \in Nat /\ m <= sent
  <2>1. s \in Seq(Nat) /\ s # <<>> /\ Len(s) <= sent
        /\ \A i \in 1..Len(s) : s[i] = sent - Len(s) + i
    BY <1>3, <1>6, <1>7
  <2>2. Head(s) = sent - Len(s) + 1 /\ Len(Tail(s)) = Len(s) - 1
    BY <1>4, <2>1, TailOfRange
  <2>3. Len(s) \in Nat /\ Len(s) # 0
    BY <2>1
  <2>4. ASSUME NEW a \in Nat, NEW b \in Nat, b # 0, b <= a
        PROVE  a - b + 1 \in Nat /\ a - b + 1 <= a
    BY <2>4
  <2>5. sent - Len(s) + 1 \in Nat /\ sent - Len(s) + 1 <= sent
    BY <1>4, <2>1, <2>3, <2>4
  <2> QED  BY <1>1, <1>7, <2>2, <2>3, <2>5
<1>9. Past(h) = m - 1 /\ Past(h) + 1 = m
  BY <1>4, <1>7, <1>8 DEF Past
<1>10. /\ th' \in [Threads -> Thread]
       /\ th'["reader"].pc = "lock" /\ th'["reader"].handle = 0 /\ th'["reader"].got = m
       /\ th'["flusher"] = th["flusher"]
  <2>1. [Idle EXCEPT !.pc = "lock", !.got = m] \in Thread
    BY <1>8 DEF Idle, Thread
  <2> QED  BY <1>3, <1>4, <2>1 DEF Threads, Idle
<1>11. HandleInv'
  BY <1>3, <1>4, <1>10 DEF HandleInv, Rereferenced, Threads
<1>12. QueueInv'
  <2>1. DOMAIN q = DOMAIN queue /\ q[h] = Tail(queue[h])
        /\ \A g \in DOMAIN queue : g # h => q[g] = queue[g]
    BY <1>2, <1>5
  <2> QED  BY <1>3, <2>1, QueuesKept
<1>13. handled \in Seq(Nat) /\ Heard = handled /\ Heard' = Append(handled, m)
       /\ Ordered(handled) /\ LastHeard <= sent
  BY <1>3, <1>10 DEF ReaderInv, HeardInv, Heard
<1>14. m >= LastHeard /\ (Twice => m > LastHeard)
  <2>1. Past(h) + 1 >= LastHeard /\ (Twice => Past(h) >= LastHeard)
    BY <1>0, <1>3 DEF ReaderInv, HeardInv, Ready
  <2>2. LastHeard \in Nat
    BY <1>13 DEF LastHeard
  <2> QED  BY <1>8, <1>9, <2>1, <2>2
<1>15. Ordered(Heard)' /\ LastHeard' = m
  <2>1. handled # <<>> => LastHeard = handled[Len(handled)]
    BY <1>13 DEF LastHeard
  <2>2. Len(handled) > 1 /\ handled[Len(handled) - 1] = handled[Len(handled)] => Twice
    BY <1>13, <2>1 DEF Twice
  <2>3. handled # <<>> => handled[Len(handled)] <= m /\ handled[Len(handled)] \in Nat
    BY <1>13, <1>14, <1>8, <2>1
  <2>4. Len(handled) > 1 /\ handled[Len(handled) - 1] = handled[Len(handled)]
            => m # handled[Len(handled)]
    BY <1>8, <1>13, <1>14, <2>1, <2>2, <2>3
  <2>5. Ordered(Append(handled, m))
    BY <1>8, <1>13, <2>3, <2>4, AppendOrdered
  <2>6. Append(handled, m) # <<>> /\ Append(handled, m)[Len(Append(handled, m))] = m
    BY <1>8, <1>13
  <2> QED  BY <1>13, <2>5, <2>6 DEF Ordered, LastHeard
<1>16. Twice' => LastHeard = m
  BY <1>8, <1>13, <1>15 DEF Twice, LastHeard
<1>17. slot # 0 /\ slot \notin dead => Past(slot)' + 1 >= m /\ (Twice' => Past(slot)' >= m)
  <2>1. slot # 0 => slot \in DOMAIN queue /\ slot \in DOMAIN queue'
    BY <1>3, <1>4, OpenIs DEF Rereferenced
  <2>2. CASE slot = h
    <3>1. queue'[h] = Tail(s)
      BY <1>2, <1>3, <1>5, <1>7, <2>1, <2>2 DEF Rereferenced
    <3>2. Past(h)' = sent - Len(Tail(s))
      BY <1>3, <3>1 DEF Past
    <3>3. ASSUME NEW a \in Nat, NEW b \in Nat PROVE a - (b - 1) = a - b + 1
      OBVIOUS
    <3>4. Past(h)' = m
      BY <1>4, <1>8, <3>2, <3>3
    <3> QED  BY <1>3, <1>8, <2>2, <3>4 DEF Past
  <2>3. CASE slot # h /\ slot # 0 /\ slot \notin dead
    <3>1. queue'[slot] = queue[slot]
      BY <1>2, <1>3, <1>5, <2>1, <2>3 DEF Rereferenced
    <3>2. Past(slot)' = Past(slot)
      BY <1>3, <3>1 DEF Past
    <3>3. Past(slot) >= LastHeard /\ Past(slot) >= Past(h)
      BY <1>0, <1>3, <2>3 DEF ReaderInv, HeardInv
    <3>4. Past(slot) \in Int
      BY <1>4, <2>1, <2>3 DEF Past, ReaderInv, QueueInv
    <3> QED  BY <1>8, <1>9, <1>16, <3>2, <3>3, <3>4
  <2> QED  BY <2>2, <2>3
<1>18. HeardInv'
  BY <1>3, <1>8, <1>10, <1>13, <1>15, <1>17 DEF HeardInv, Ready
<1> QED  BY <1>11, <1>12, <1>18 DEF ReaderInv

(* A report of the board waits on every open handle: what is past on each  *)
(* stays past.                                                             *)
LEMMA BoardSendsKeepsReader ==
    ASSUME ReaderInv, BoardSends
    PROVE  ReaderInv'
<1>1. /\ sent' = sent + 1
      /\ queue' = [h \in DOMAIN queue |-> IF h \in dead THEN queue[h]
                                           ELSE Append(queue[h], sent + 1)]
      /\ UNCHANGED <<opened, dead, slot, th, handled, flusher>>
  BY DEF BoardSends
<1>2. /\ sent \in Nat /\ DOMAIN queue = OpenHandles(slot, th) /\ DOMAIN queue' = DOMAIN queue
      /\ \A x \in Threads : th[x].pc = "op" <=> th[x].handle # 0
      /\ slot \in Nat /\ th \in [Threads -> Thread]
  BY <1>1 DEF ReaderInv, HandleInv
<1>3. HandleInv'
  BY <1>1, <1>2 DEF ReaderInv, HandleInv, OpenHandles
<1>4. ASSUME NEW h \in DOMAIN queue \ dead
      PROVE  /\ queue'[h] \in Seq(Nat) /\ Len(queue'[h]) = Len(queue[h]) + 1
             /\ Len(queue[h]) \in Nat /\ Len(queue[h]) <= sent
             /\ \A i \in 1..Len(queue'[h]) : queue'[h][i] = sent + 1 - Len(queue'[h]) + i
  <2>1. PICK s : s = queue[h]
    OBVIOUS
  <2>2. /\ s \in Seq(Nat) /\ Len(s) <= sent /\ Len(s) \in Nat
        /\ \A i \in 1..Len(s) : s[i] = sent - Len(s) + i
    BY <2>1 DEF ReaderInv, QueueInv
  <2>3. queue'[h] = Append(s, sent + 1)
    BY <1>1, <2>1
  <2>4. PICK t : t = Append(s, sent + 1)
    OBVIOUS
  <2>5. /\ t \in Seq(Nat) /\ Len(t) = Len(s) + 1 /\ t[Len(s) + 1] = sent + 1
        /\ \A i \in 1..Len(s) : t[i] = s[i]
    BY <1>2, <2>2, <2>4
  <2>6. PICK n \in Nat : n = Len(s)
    BY <2>2
  <2>7. ASSUME NEW i \in 1..(n + 1)
        PROVE  t[i] = sent + 1 - (n + 1) + i
    <3>1. CASE i = n + 1
      BY <1>2, <2>5, <2>6, <3>1
    <3>2. CASE i # n + 1
      <4>1. i \in 1..Len(s)
        BY <2>6, <3>2
      <4>2. t[i] = sent - Len(s) + i
        BY <2>2, <2>5, <4>1
      <4> QED  BY <1>2, <2>6, <4>1, <4>2
    <3> QED  BY <3>1, <3>2
  <2> QED  BY <2>1, <2>2, <2>3, <2>4, <2>5, <2>6, <2>7
<1>5. QueueInv'
  <2>1. ASSUME NEW h \in DOMAIN queue \ dead PROVE Len(queue'[h]) <= sent + 1
    BY <1>2, <1>4
  <2> QED  BY <1>1, <1>2, <1>4, <2>1 DEF QueueInv
<1>6. \A h \in DOMAIN queue \ dead : Past(h)' = Past(h)
  BY <1>1, <1>2, <1>4 DEF Past
<1>7. Heard' = Heard
  BY <1>1 DEF Heard
<1>8. LastHeard' = LastHeard /\ Twice' = Twice /\ Ordered(Heard)'
  BY <1>7 DEF LastHeard, Twice, Ordered, ReaderInv, HeardInv
<1>9. LastHeard <= sent' /\ handled' \in Seq(Nat)
  <2>1. LastHeard <= sent /\ handled \in Seq(Nat) /\ Heard \in Seq(Nat)
    BY <1>2 DEF ReaderInv, HeardInv, Heard, Threads, Thread
  <2>2. LastHeard \in Nat
    BY <2>1 DEF LastHeard
  <2> QED  BY <1>1, <1>2, <2>1, <2>2
<1>10. ASSUME NEW h \in DOMAIN queue, Ready(h) PROVE Ready(h)'
  BY <1>1, <1>6, <1>8, <1>10 DEF Ready
<1>11. /\ slot # 0 => slot \in DOMAIN queue
       /\ th["reader"].pc = "op" => th["reader"].handle \in DOMAIN queue
  BY <1>2, OpenIs DEF Threads
<1>12. HeardInv'
  BY <1>1, <1>6, <1>8, <1>9, <1>10, <1>11 DEF ReaderInv, HeardInv
<1> QED  BY <1>3, <1>5, <1>12 DEF ReaderInv

(* A thread lets go of its handle, the slot may be emptied.                *)
LEMMA LetsGo ==
    ASSUME ReaderInv, NEW x \in Threads, NEW q, NEW s \in {0, slot},
           Rereferenced(s, th', q),
           \E d \in Thread : /\ th' = [th EXCEPT ![x] = d]
                             /\ d.handle = 0 /\ d.pc \in {"take", "failed", "idle"},
           th[x].pc \notin {"lock", "flush"},
           UNCHANGED <<sent, dead, opened, handled, flusher>>, DOMAIN q = DOMAIN queue,
           \A h \in DOMAIN queue \ dead :
               q[h] = queue[h] \/ (queue[h] # <<>> /\ q[h] = Tail(queue[h])),
           q = queue \/ (x = "reader" /\ s = 0)
    PROVE  ReaderInv'
<1>1. /\ opened \in Nat /\ sent \in Nat /\ dead \subseteq 1..opened /\ slot \in {0, opened}
      /\ th \in [Threads -> Thread]
      /\ \A y \in Threads : th[y].handle <= opened /\ (th[y].pc = "op" <=> th[y].handle # 0)
      /\ DOMAIN queue = OpenHandles(slot, th)
      /\ flusher = "reader" => th["reader"].pc = "flush"
  BY DEF ReaderInv, HandleInv
<1>2. slot' = s
  BY DEF Rereferenced
<1>3. /\ th' \in [Threads -> Thread] /\ th'[x].handle = 0
      /\ th'[x].pc \in {"take", "failed", "idle"}
      /\ \A y \in Threads : y # x => th'[y] = th[y]
  BY <1>1
<1>4. HandleInv'
  BY <1>1, <1>2, <1>3 DEF HandleInv, Rereferenced, Threads
<1>5. QueueInv'
  BY QueuesKept
<1>6. Heard' = Heard /\ handled' \in Seq(Nat)
  BY <1>3 DEF Heard, Threads, ReaderInv, HeardInv
<1>7. th'["reader"].pc = "op" => x # "reader" /\ th'["reader"] = th["reader"]
  BY <1>3 DEF Threads
<1>8. ASSUME NEW h, h # 0, h = slot' \/ h = th'["reader"].handle, h \in DOMAIN queue
      PROVE  queue'[h] = queue[h]
  <2>1. h \in DOMAIN queue' /\ (h # slot' => th'["reader"].pc = "op")
    BY <1>4, <1>8, OpenIs DEF HandleInv, Threads
  <2>2. queue'[h] = q[h]
    BY <1>8, <2>1 DEF Rereferenced
  <2>3. q = queue
    BY <1>2, <1>7, <1>8, <2>1
  <2> QED  BY <2>2, <2>3
<1>9. HeardInv'
  BY <1>2, <1>4, <1>6, <1>7, <1>8, HeardKept
<1> QED  BY <1>4, <1>5, <1>9 DEF ReaderInv

(* A step that leaves the handles and their reports alone.                 *)
LEMMA LinkKept ==
    ASSUME ReaderInv, UNCHANGED <<queue, slot, opened, sent>>, dead \subseteq dead',
           dead' \subseteq 1..opened, th' \in [Threads -> Thread],
           \A x \in Threads : th'[x].handle = th[x].handle /\ (th'[x].pc = "op" <=> th[x].pc = "op"),
           th'["reader"].pc = "op" => th'["reader"] = th["reader"],
           Heard' = Heard, handled' \in Seq(Nat),
           flusher' = "reader" => th'["reader"].pc = "flush"
    PROVE  ReaderInv'
<1>1. OpenHandles(slot, th)' = OpenHandles(slot, th)
  BY DEF OpenHandles
<1>2. HandleInv'
  BY <1>1 DEF ReaderInv, HandleInv
<1>3. QueueInv'
  BY DEF ReaderInv, QueueInv
<1>4. HeardInv'
  BY <1>2, HeardKept
<1> QED  BY <1>2, <1>3, <1>4 DEF ReaderInv

LEMMA FailuresKeepReader ==
    ASSUME ReaderInv, NEW x \in Threads, NEW q, OpErr(x, q), th[x].pc = "op",
           UNCHANGED <<sent, dead, opened, handled, flusher>>, DOMAIN q = DOMAIN queue,
           \A h \in DOMAIN queue \ dead :
               q[h] = queue[h] \/ (queue[h] # <<>> /\ q[h] = Tail(queue[h])),
           q = queue \/ x = "reader"
    PROVE  ReaderInv'
<1>1. th \in [Threads -> Thread]
  BY DEF ReaderInv, HandleInv
<1>2. PICK d : d = [th[x] EXCEPT !.handle = 0, !.attempt = 1,
                                 !.pc = IF th[x].attempt = 0 THEN "take" ELSE "failed"]
  OBVIOUS
<1>3. d \in Thread /\ d.handle = 0 /\ d.pc \in {"take", "failed", "idle"}
  BY <1>1, <1>2 DEF Thread
<1>4. th' = [th EXCEPT ![x] = d] /\ Rereferenced(0, th', q)
  BY <1>1, <1>2 DEF OpErr, Rereferenced, Thread
<1> QED  BY <1>3, <1>4, LetsGo

LEMMA DecodesKeepsReader ==
    ASSUME ReaderInv, ReaderDecodes \/ ReaderFails \/ FrameFails
    PROVE  ReaderInv'
<1>1. CASE ReaderDecodes
  <2>1. PICK h : h = th["reader"].handle
    OBVIOUS
  <2>2. PICK q : q = [queue EXCEPT ![h] = Tail(@)]
    OBVIOUS
  <2>3. /\ th["reader"].pc = "op" /\ queue[h] # <<>> /\ OpErr("reader", q)
        /\ UNCHANGED <<sent, dead, opened, handled, flusher>>
    BY <1>1, <2>1, <2>2 DEF ReaderDecodes, board
  <2>4. DOMAIN q = DOMAIN queue /\ \A g \in DOMAIN queue :
            q[g] = queue[g] \/ (queue[g] # <<>> /\ q[g] = Tail(queue[g]))
    BY <2>2, <2>3
  <2> QED  BY <2>3, <2>4, FailuresKeepReader DEF Threads
<1>2. CASE ReaderFails
  <2>1. /\ th["reader"].pc = "op" /\ OpErr("reader", queue)
        /\ UNCHANGED <<sent, dead, opened, handled, flusher>>
    BY <1>2 DEF ReaderFails, board
  <2> QED  BY <2>1, FailuresKeepReader DEF Threads
<1>3. CASE FrameFails
  <2>1. /\ th["flusher"].pc = "op" /\ OpErr("flusher", queue)
        /\ UNCHANGED <<sent, dead, opened, handled, flusher>>
    BY <1>3 DEF FrameFails
  <2> QED  BY <2>1, FailuresKeepReader DEF Threads
<1> QED  BY <1>1, <1>2, <1>3

LEMMA GivesUpKeepsReader ==
    ASSUME ReaderInv, ReaderGivesUp \/ FrameSent
    PROVE  ReaderInv'
<1>1. Idle \in Thread /\ [Idle EXCEPT !.pc = "take"] \in Thread
  BY DEF Idle, Thread
<1>2. /\ Idle.handle = 0 /\ [Idle EXCEPT !.pc = "take"].handle = 0
      /\ Idle.pc = "idle" /\ [Idle EXCEPT !.pc = "take"].pc = "take"
  BY DEF Idle
<1>3. CASE ReaderGivesUp
  <2>1. /\ th["reader"].pc = "failed" /\ Rereferenced(0, th', queue)
        /\ th' = [th EXCEPT !["reader"] = [Idle EXCEPT !.pc = "take"]]
        /\ UNCHANGED <<sent, dead, opened, handled, flusher>>
    BY <1>3 DEF ReaderGivesUp, Starting, Rereferenced, board
  <2> QED  BY <1>1, <1>2, <2>1, LetsGo DEF Threads
<1>4. CASE FrameSent
  <2>1. /\ th["flusher"].pc = "op" /\ Rereferenced(slot, th', queue)
        /\ \/ th' = [th EXCEPT !["flusher"] = Idle]
           \/ th' = [th EXCEPT !["flusher"] = [Idle EXCEPT !.pc = "take"]]
        /\ UNCHANGED <<sent, dead, opened, handled, flusher>>
    BY <1>4 DEF FrameSent, Starting, Rereferenced
  <2> QED  BY <1>1, <1>2, <2>1, LetsGo DEF Threads
<1> QED  BY <1>3, <1>4

LEMMA OthersKeepReader ==
    ASSUME ReaderInv, FrameInv,
           \/ \E x \in Threads : OpenFails(x)
           \/ ReaderHandles \/ Queues \/ FlushStarts \/ FlushNext \/ FlushDone \/ FlushFails
           \/ Unplugged \/ Plugged \/ UNCHANGED hidVars
    PROVE  ReaderInv'
<1>1. /\ th \in [Threads -> Thread] /\ dead \subseteq 1..opened
      /\ \A y \in Threads : th[y].handle \in Nat /\ th[y].handle <= opened
                            /\ (th[y].pc = "op" <=> th[y].handle # 0)
      /\ opened \in Nat /\ slot \in {0, opened} /\ DOMAIN queue = OpenHandles(slot, th)
      /\ flusher = "reader" => th["reader"].pc = "flush"
      /\ handled \in Seq(Nat)
  BY DEF ReaderInv, HandleInv, HeardInv, Thread
<1>2. PICK idle, take : idle = Idle /\ take = [Idle EXCEPT !.pc = "take"]
  OBVIOUS
<1>3. /\ idle \in Thread /\ take \in Thread /\ idle.handle = 0 /\ take.handle = 0
      /\ idle.pc = "idle" /\ take.pc = "take"
  BY <1>2 DEF Idle, Thread
<1>4. ASSUME UNCHANGED <<queue, slot, opened, sent, dead, handled>>,
             flusher' = "none" \/ flusher' = flusher,
             NEW t \in [Threads -> Thread],
             t["reader"] = th["reader"],
             \A x \in Threads : t[x].handle = th[x].handle /\ (t[x].pc = "op" <=> th[x].pc = "op"),
             \/ th' = t
             \/ th["reader"].pc = "flush" /\ flusher' = "none" /\ th' = [t EXCEPT !["reader"] = take]
      PROVE  ReaderInv'
  <2>1. CASE th' = t
    <3>1. Heard' = Heard
      BY <1>4, <2>1 DEF Heard
    <3> QED  BY <1>1, <1>4, <2>1, <3>1, LinkKept
  <2>2. CASE th["reader"].pc = "flush" /\ flusher' = "none" /\ th' = [t EXCEPT !["reader"] = take]
    <3>1. th' \in [Threads -> Thread] /\ th'["reader"] = take /\ th'["flusher"] = t["flusher"]
      BY <1>3, <1>4, <2>2 DEF Threads
    <3>2. th["reader"].handle = 0
      BY <1>1, <2>2 DEF Threads
    <3>3. Heard' = Heard
      BY <1>3, <1>4, <2>2, <3>1 DEF Heard
    <3> QED  BY <1>1, <1>3, <1>4, <2>2, <3>1, <3>2, <3>3, LinkKept DEF Threads
  <2> QED  BY <1>4, <2>1, <2>2
<1>5. ASSUME NEW x \in Threads, OpenFails(x) PROVE ReaderInv'
  <2>1. /\ th' = [th EXCEPT ![x].pc = "failed"] /\ th[x].pc = "take"
        /\ UNCHANGED <<queue, slot, opened, sent, dead, handled, flusher>>
    BY <1>5 DEF OpenFails, board
  <2>2. th' \in [Threads -> Thread]
        /\ th'[x].pc = "failed" /\ th'[x].handle = th[x].handle
        /\ \A y \in Threads : y # x => th'[y] = th[y]
    BY <1>1, <2>1 DEF Thread
  <2>3. Heard' = Heard
    BY <2>1, <2>2 DEF Heard, Threads
  <2>4. \A y \in Threads : th'[y].handle = th[y].handle /\ (th'[y].pc = "op" <=> th[y].pc = "op")
    BY <2>1, <2>2
  <2>5. (th'["reader"].pc = "op" => th'["reader"] = th["reader"])
        /\ (flusher' = "reader" => th'["reader"].pc = "flush")
    BY <1>1, <2>1, <2>2 DEF Threads
  <2> QED  BY <1>1, <2>1, <2>2, <2>3, <2>4, <2>5, LinkKept
<1>6. CASE ReaderHandles
  <2>1. /\ th["reader"].pc = "lock" /\ handled' = Append(handled, th["reader"].got)
        /\ UNCHANGED <<queue, slot, opened, sent, dead>>
        /\ \/ flusher' = "reader" /\ th' = [th EXCEPT !["reader"].pc = "flush"]
           \/ flusher' = "none" /\ th' = [th EXCEPT !["reader"] = take]
    BY <1>2, <1>6 DEF ReaderHandles, Starting, board
  <2>2. /\ th' \in [Threads -> Thread] /\ th'["flusher"] = th["flusher"]
        /\ th'["reader"].handle = 0 /\ th["reader"].handle = 0
        /\ th'["reader"].pc \in {"flush", "take"}
        /\ flusher' = "reader" => th'["reader"].pc = "flush"
    <3>1. "reader" \in Threads /\ "flusher" \in Threads /\ th["reader"].handle = 0
      BY <1>1, <2>1 DEF Threads
    <3>2. PICK r : r = [th["reader"] EXCEPT !.pc = "flush"]
      OBVIOUS
    <3>3. r \in Thread /\ r.pc = "flush" /\ r.handle = 0
      BY <1>1, <3>1, <3>2 DEF Thread
    <3>4. CASE flusher' = "reader" /\ th' = [th EXCEPT !["reader"] = r]
      BY <1>1, <3>1, <3>3, <3>4
    <3>5. CASE flusher' = "none" /\ th' = [th EXCEPT !["reader"] = take]
      BY <1>1, <1>3, <3>1, <3>5
    <3> QED  BY <2>1, <3>2, <3>4, <3>5
  <2>3. handled' \in Seq(Nat)
    BY <1>1, <2>1 DEF Threads, Thread
  <2>4. Heard' = Heard
    BY <2>1, <2>2 DEF Heard
  <2> QED  BY <1>1, <2>1, <2>2, <2>3, <2>4, LinkKept DEF Threads
<1>7. CASE FlushStarts
  <2>1. UNCHANGED <<queue, slot, opened, sent, dead, handled, th>> /\ flusher' = "other"
    BY <1>7 DEF FlushStarts, board
  <2>2. Heard' = Heard
    BY <2>1 DEF Heard
  <2> QED  BY <1>1, <2>1, <2>2, LinkKept
<1>8. CASE FlushNext
  <2>1. th["flusher"].pc = "idle"
    BY <1>8 DEF FlushNext, FrameInv, FlusherInv
  <2>2. th["flusher"].handle = 0
    BY <1>1, <2>1 DEF Threads
  <2>3. /\ UNCHANGED <<queue, slot, opened, sent, dead, handled, flusher>>
        /\ th' = [th EXCEPT !["flusher"] = take]
    BY <1>2, <1>8 DEF FlushNext, Starting, board
  <2>4. /\ th' \in [Threads -> Thread] /\ th'["reader"] = th["reader"]
        /\ th'["flusher"].handle = 0 /\ th'["flusher"].pc = "take"
    BY <1>1, <1>3, <2>3 DEF Threads
  <2> QED  BY <1>4, <2>1, <2>2, <2>3, <2>4 DEF Threads
<1>9. CASE FlushDone
  <2>1. /\ UNCHANGED <<queue, slot, opened, sent, dead, handled>> /\ flusher' = "none"
        /\ th' = IF flusher = "reader" THEN [th EXCEPT !["reader"] = take] ELSE th
    BY <1>2, <1>9 DEF FlushDone, FlushOver, Starting, board
  <2> QED  BY <1>1, <1>4, <2>1
<1>10. CASE FlushFails
  <2>1. PICK t : t = [th EXCEPT !["flusher"] = idle]
    OBVIOUS
  <2>2. /\ UNCHANGED <<queue, slot, opened, sent, dead, handled>> /\ flusher' = "none"
        /\ th["flusher"].pc = "failed"
        /\ th' = IF flusher = "reader" THEN [t EXCEPT !["reader"] = take] ELSE t
    BY <1>2, <1>10, <2>1 DEF FlushFails, FlushOver, Starting, board
  <2>3. /\ t \in [Threads -> Thread] /\ t["reader"] = th["reader"] /\ t["flusher"] = idle
        /\ th["flusher"].handle = 0
    BY <1>1, <1>3, <2>1, <2>2 DEF Threads
  <2> QED  BY <1>1, <1>3, <1>4, <2>2, <2>3 DEF Threads
<1>11. CASE Unplugged
  <2>1. UNCHANGED <<queue, slot, opened, sent, handled, th, flusher>> /\ dead' = dead \union DOMAIN queue
    BY <1>11 DEF Unplugged
  <2>2. DOMAIN queue \subseteq 1..opened
    BY <1>1, OpenIs DEF Threads
  <2>3. Heard' = Heard
    BY <2>1 DEF Heard
  <2> QED  BY <1>1, <2>1, <2>2, <2>3, LinkKept
<1>12. CASE Queues \/ Plugged \/ UNCHANGED hidVars
  <2>1. UNCHANGED <<queue, slot, opened, sent, dead, handled, th, flusher>>
    BY <1>12 DEF Queues, Plugged, hidVars, board
  <2> QED  BY <1>1, <1>4, <2>1
<1> QED  BY <1>5, <1>6, <1>7, <1>8, <1>9, <1>10, <1>11, <1>12

LEMMA ReaderStep == ReaderInv /\ FrameInv /\ [HidNext]_hidVars => ReaderInv'
<1> SUFFICES ASSUME ReaderInv, FrameInv, [HidNext]_hidVars PROVE ReaderInv'
  OBVIOUS
<1> QED  BY TakesKeepsReader, ReceivesKeepsReader, BoardSendsKeepsReader, DecodesKeepsReader,
            GivesUpKeepsReader, OthersKeepReader DEF HidNext

(* What was handled is the beginning of what was heard.                    *)
LEMMA HeardInOrder == ReaderInv => HandledInOrder
<1> SUFFICES ASSUME ReaderInv PROVE HandledInOrder
  OBVIOUS
<1>1. handled \in Seq(Nat) /\ Ordered(Heard)
  BY DEF ReaderInv, HeardInv
<1>2. Len(handled) <= Len(Heard) /\ \A i \in 1..Len(handled) : Heard[i] = handled[i]
  <2>1. th["reader"].got \in Nat
    BY DEF ReaderInv, HandleInv, Threads, Thread
  <2> QED  BY <1>1, <2>1 DEF Heard
<1>3. PICK H : H = Heard
  OBVIOUS
<1>4. PICK n \in Nat : n = Len(handled) /\ DOMAIN handled = 1..n
  BY <1>1
<1>5. PICK k \in Nat : k = Len(H) /\ n <= k
  BY <1>1, <1>2, <1>3, <1>4 DEF Heard
<1>6. /\ \A i, j \in 1..k : i < j => H[i] <= H[j]
      /\ \A i \in 1..(k - 2) : H[i] # H[i + 2]
      /\ \A i \in 1..n : H[i] = handled[i]
  BY <1>1, <1>2, <1>3, <1>4, <1>5 DEF Ordered
<1>7. \A i, j \in 1..n : i < j => handled[i] <= handled[j]
  BY <1>5, <1>6
<1>8. \A i \in 1..(n - 2) : handled[i] # handled[i + 2]
  BY <1>5, <1>6
<1> QED  BY <1>4, <1>7, <1>8 DEF HandledInOrder

(* The daemon handles the board's messages in the order of their sending,  *)
(* and none a third time, whatever handles are opened and closed.          *)
THEOREM MessagesHandledInOrder == HidSpec => []HandledInOrder
<1>1. HidInit => ReaderInv /\ FrameInv
  BY ReaderInit, FrameInit
<1>2. ReaderInv /\ FrameInv /\ [HidNext]_hidVars => (ReaderInv /\ FrameInv)'
  BY ReaderStep, FrameStep
<1>3. ReaderInv => HandledInOrder
  BY HeardInOrder
<1> QED  BY <1>1, <1>2, <1>3, PTL DEF HidSpec
=============================================================================
