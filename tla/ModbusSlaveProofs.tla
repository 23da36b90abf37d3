-------------------------- MODULE ModbusSlaveProofs --------------------------
(***************************************************************************)
(* What the Modbus slave promises, for every sequence of frames on the bus,*)
(* every size of RxBuf, every byte the line loses and every moment a byte  *)
(* or the timer interrupts MODS_Poll.                                      *)
(*                                                                         *)
(* Three facts carry it.  What is in RxBuf is past on the bus and not      *)
(* lost; RxBuf is only emptied when the frame on the bus is over, or its   *)
(* bytes so far are lost, or it counts as disturbed; and from the CRC to   *)
(* the answer the request stays where it is, because bytes that come       *)
(* meanwhile are appended after it.                                        *)
(***************************************************************************)
EXTENDS ModbusSlave, SequenceTheorems, TLAPS

(* The bytes of the bus, and which of them are past.                       *)
Bytes == {b \in [f : 1 .. Len(Frames), i : Nat \ {0}] : b.i <= Len(Frames[b.f])}

Here(b) == b.f < frame \/ (b.f = frame /\ b.i <= pos)

Past(f) == f < frame \/ (f = frame /\ pos = Len(Frames[f]))

Answers == [to : 1 .. Len(Frames), function : Nat, code : Nat, value : Nat]

BusInv ==
  /\ frame \in Nat \ {0} /\ pos \in Nat
  /\ frame <= Len(Frames) \/ (frame = 1 /\ pos = 0)
  /\ frame <= Len(Frames) => pos <= Len(Frames[frame])
  /\ RxBuf \in Seq(Bytes) /\ lost \subseteq Bytes
  /\ P01 \in Nat /\ replies \in Seq(Answers)
  /\ \A b \in lost : Here(b)
  /\ \A k \in 1 .. RxCount : Here(RxBuf[k]) /\ RxBuf[k] \notin lost

(* The next byte starts a frame, or its frame cannot be put together.      *)
FrameGone ==
  \/ pos = 0 \/ Past(frame)
  \/ frame \in disturbed
  \/ \A i \in 1 .. pos : [f |-> frame, i |-> i] \in lost

SyncInv ==
  /\ RxBuf = <<>> \/ g_mods_timeout \/ pc # "idle" => FrameGone
  /\ FrameSync

(* RxBuf starts with the whole of frame f, a request to this slave.        *)
Requested(f) ==
  /\ 4 <= Len(Frames[f]) /\ Len(Frames[f]) <= RxCount
  /\ \A k \in 1 .. Len(Frames[f]) : RxBuf[k] = [f |-> f, i |-> k]
  /\ Frames[f][1] = g_ID
  /\ f \in disturbed \/ RxCount = Len(Frames[f])

RequestInv ==
  /\ pc = "crc" => RxCount >= 4
  /\ pc = "analyze" => \E f \in 1 .. Len(Frames) : Requested(f)

(* What was answered is over, and what RxBuf holds comes after it.         *)
AnswerInv ==
  /\ AnswersAreOwn /\ GoodWriteAccepted
  /\ \A r \in 1 .. Len(replies) : Past(replies[r].to)
  /\ pc # "reset" /\ RxBuf # <<>> =>
       \A r \in 1 .. Len(replies) : replies[r].to < RxBuf[1].f

IInv == BusInv /\ SyncInv /\ RequestInv /\ AnswerInv

-----------------------------------------------------------------------------
(* The bus.                                                                *)

(* A frame has at least one byte.                                          *)
LEMMA FrameIsSeq ==
  ASSUME NEW f \in 1 .. Len(Frames)
  PROVE  /\ Frames[f] \in Seq(0 .. 255) /\ Len(Frames[f]) \in Nat \ {0}
         /\ \A i \in 1 .. Len(Frames[f]) : Frames[f][i] \in 0 .. 255
<1>1. Frames \in Seq(Seq(0 .. 255) \ {<<>>})
  BY ModbusAssumption
<1>2. Frames[f] \in Seq(0 .. 255) /\ Frames[f] # <<>>
  BY <1>1, ElementOfSeq
<1>3. Len(Frames[f]) \in Nat /\ Len(Frames[f]) # 0
  BY <1>2, LenProperties, EmptySeq
<1>4. ASSUME NEW i \in 1 .. Len(Frames[f]) PROVE Frames[f][i] \in 0 .. 255
  BY <1>2, <1>4, ElementOfSeq
<1> QED BY <1>2, <1>3, <1>4

LEMMA FramesLen == Len(Frames) \in Nat
BY ModbusAssumption, LenProperties

(* The byte that comes next is new, and every frame that was past stays so.*)
LEMMA NextIsNew ==
  ASSUME BusInv, CanSend, frame' = NextByte.f, pos' = NextByte.i
  PROVE  /\ NextByte \in Bytes /\ ~Here(NextByte)
         /\ frame' \in Nat \ {0} /\ pos' \in Nat
         /\ frame' <= Len(Frames) /\ pos' <= Len(Frames[frame'])
         /\ \A b \in Bytes : Here(b) \/ b = NextByte => Here(b)'
         /\ \A f \in Nat : Past(f) => Past(f)' /\ f < NextByte.f
<1>1. CASE frame <= Len(Frames) /\ pos = Len(Frames[frame])
  <2>1. NextByte = [f |-> frame + 1, i |-> 1]
    BY <1>1 DEF NextByte
  <2>2. frame' = frame + 1 /\ pos' = 1
    BY <2>1
  <2>3. frame + 1 \in 1 .. Len(Frames) /\ frame \in Nat /\ pos \in Nat
    BY <2>1, FramesLen DEF CanSend, BusInv
  <2>4. Len(Frames[frame + 1]) \in Nat \ {0}
    BY <2>3, FrameIsSeq
  <2>5. NextByte \in Bytes
    BY <2>1, <2>3, <2>4 DEF Bytes
  <2>6. ~Here(NextByte)
    BY <2>1, <2>2, <2>3 DEF Here
  <2>7. \A b \in Bytes : Here(b) \/ b = NextByte => Here(b)'
    BY <2>1, <2>2, <2>3, FramesLen DEF Here, Bytes
  <2>8. \A f \in Nat : Past(f) => Past(f)' /\ f < NextByte.f
    BY <2>1, <2>2, <2>3 DEF Past
  <2> QED BY <2>2, <2>3, <2>4, <2>5, <2>6, <2>7, <2>8
<1>2. CASE ~(frame <= Len(Frames) /\ pos = Len(Frames[frame]))
  <2>1. NextByte = [f |-> frame, i |-> pos + 1]
    BY <1>2 DEF NextByte
  <2>2. frame' = frame /\ pos' = pos + 1
    BY <2>1
  <2>3. frame \in 1 .. Len(Frames) /\ pos \in Nat
    BY <2>1, FramesLen DEF CanSend, BusInv
  <2>4. Len(Frames[frame]) \in Nat \ {0}
    BY <2>3, FrameIsSeq
  <2>5. pos + 1 <= Len(Frames[frame]) /\ pos # Len(Frames[frame])
    BY <1>2, <2>3, <2>4 DEF BusInv
  <2>6. NextByte \in Bytes
    BY <2>1, <2>3, <2>4, <2>5 DEF Bytes
  <2>7. ~Here(NextByte)
    BY <2>1, <2>2, <2>3 DEF Here
  <2>8. \A b \in Bytes : Here(b) \/ b = NextByte => Here(b)'
    BY <2>1, <2>2, <2>3, FramesLen DEF Here, Bytes
  <2>9. \A f \in Nat : Past(f) => Past(f)' /\ f < NextByte.f
    BY <2>1, <2>2, <2>3, <2>5 DEF Past
  <2> QED BY <2>2, <2>3, <2>5, <2>6, <2>7, <2>8, <2>9
<1> QED BY <1>1, <1>2

(* A byte is stored behind those that are there, or not at all.            *)
LEMMA StoredBehind ==
  ASSUME BusInv, NextByte \in Bytes
  PROVE  /\ Stored \in Seq(Bytes) /\ RxCount \in Nat
         /\ Len(Stored) >= RxCount /\ Stored # <<>>
         /\ \A k \in 1 .. RxCount : Stored[k] = RxBuf[k]
         /\ \A k \in 1 .. Len(Stored) : k \notin 1 .. RxCount =>
                                          Stored[k] = NextByte
<1>1. RxBuf \in Seq(Bytes) /\ RxCount \in Nat
  BY LenProperties DEF BusInv, RxCount
<1>2. CASE RxCount < S_RX_BUF_SIZE
  <2>1. Stored = Append(RxBuf, NextByte)
    BY <1>2 DEF Stored
  <2>2. /\ Append(RxBuf, NextByte) \in Seq(Bytes)
        /\ Append(RxBuf, NextByte) # <<>>
        /\ Len(Append(RxBuf, NextByte)) = RxCount + 1
        /\ \A k \in 1 .. RxCount : Append(RxBuf, NextByte)[k] = RxBuf[k]
        /\ Append(RxBuf, NextByte)[RxCount + 1] = NextByte
    BY <1>1, AppendProperties DEF RxCount
  <2> QED BY <1>1, <2>1, <2>2
<1>3. CASE ~(RxCount < S_RX_BUF_SIZE)
  <2>1. Stored = RxBuf
    BY <1>3 DEF Stored
  <2>2. RxBuf # <<>>
    BY <1>1, <1>3, EmptySeq, ModbusAssumption DEF RxCount
  <2> QED BY <1>1, <2>1, <2>2 DEF RxCount
<1> QED BY <1>2, <1>3

-----------------------------------------------------------------------------
(* The request.                                                            *)

LEMMA BytesRead ==
  ASSUME BusInv, NEW k \in 1 .. RxCount
  PROVE  /\ RxBuf[k] \in Bytes /\ Byte(k) \in 0 .. 255
<1>1. RxBuf[k] \in Bytes
  BY ElementOfSeq DEF BusInv, RxCount
<1>2. RxBuf[k].f \in 1 .. Len(Frames) /\ RxBuf[k].i \in 1 .. Len(Frames[RxBuf[k].f])
  BY <1>1, FrameIsSeq DEF Bytes
<1> QED BY <1>1, <1>2, FrameIsSeq DEF Byte

LEMMA RequestRead ==
  ASSUME BusInv, NEW f \in 1 .. Len(Frames), Requested(f)
  PROVE  /\ RxCount \in Nat /\ RxCount >= 4 /\ RxBuf[1].f = f
         /\ \A k \in 1 .. Len(Frames[f]) : Byte(k) = Frames[f][k]
<1>1. RxCount \in Nat
  BY LenProperties DEF BusInv, RxCount
<1>2. Len(Frames[f]) \in Nat /\ 4 <= Len(Frames[f]) /\ Len(Frames[f]) <= RxCount
  BY FrameIsSeq DEF Requested
<1>3. ASSUME NEW k \in 1 .. Len(Frames[f])
      PROVE  RxBuf[k].f = f /\ Byte(k) = Frames[f][k]
  <2>1. RxBuf[k] = [f |-> f, i |-> k]
    BY DEF Requested
  <2> QED BY <2>1 DEF Byte
<1> QED BY <1>1, <1>2, <1>3

(* The answer to a request: what it says and what it does to the register. *)
LEMMA AnswerGiven ==
  ASSUME BusInv, RequestInv, MODS_AnalyzeApp
  PROVE  \E f \in 1 .. Len(Frames), code \in Nat, value \in Nat :
           /\ Requested(f)
           /\ replies' = Append(replies, [to |-> f, function |-> Frames[f][2],
                                          code |-> code, value |-> value])
           /\ P01' \in Nat
           /\ P01' # P01 => /\ Frames[f][2] = 6 /\ RxCount = 8
                            /\ P01' = Word(5)
           /\ Frames[f][2] = 6 /\ RxCount = 8 /\ Word(5) <= 5
                /\ Word(3) = SLAVE_REG_P01 => code = RSP_OK
<1>1. PICK f \in 1 .. Len(Frames) : Requested(f)
  BY DEF RequestInv, MODS_AnalyzeApp, Goto
<1>2. /\ RxCount \in Nat /\ RxCount >= 4 /\ RxBuf[1].f = f
      /\ Byte(2) = Frames[f][2]
  BY <1>1, RequestRead, FrameIsSeq DEF Requested
<1>3. ASSUME RxCount = 8 PROVE Word(5) \in Nat
  <2>1. 5 \in 1 .. RxCount /\ 6 \in 1 .. RxCount
    BY <1>3
  <2>2. Byte(5) \in 0 .. 255 /\ Byte(6) \in 0 .. 255
    BY <2>1, BytesRead
  <2>3. Word(5) = 256 * Byte(5) + Byte(6)
    <3>1. 5 + 1 = 6
      OBVIOUS
    <3> QED BY <3>1 DEF Word
  <2>4. \A x, y \in 0 .. 255 : 256 * x + y \in Nat
    OBVIOUS
  <2>5. 256 * Byte(5) + Byte(6) \in Nat
    BY <2>2, <2>4, Zenon
  <2> QED BY <2>3, <2>5, Zenon
<1>4. P01 \in Nat
  BY DEF BusInv
<1>5. CASE MODS_03H
  <2>1. PICK code \in Nat, value \in Nat : Reply(code, value)
    BY <1>4, <1>5 DEF MODS_03H, RSP_OK, RSP_ERR_REG_ADDR, RSP_ERR_VALUE
  <2>2. Frames[f][2] = 3 /\ P01' = P01
    BY <1>2, <1>5 DEF MODS_03H
  <2>3. replies' = Append(replies, [to |-> f, function |-> Frames[f][2],
                                    code |-> code, value |-> value])
    BY <1>2, <2>1, Zenon DEF Reply
  <2>4. P01' \in Nat /\ Frames[f][2] # 6
    BY <1>4, <2>2
  <2> QED BY <1>1, <2>2, <2>3, <2>4, Zenon
<1>6. CASE UnknownFunction
  <2>1. Reply(RSP_ERR_CMD, 0) /\ Frames[f][2] # 6 /\ P01' = P01
    BY <1>2, <1>6 DEF UnknownFunction
  <2>2. replies' = Append(replies, [to |-> f, function |-> Frames[f][2],
                                    code |-> RSP_ERR_CMD, value |-> 0])
    BY <1>2, <2>1, Zenon DEF Reply
  <2>3. P01' \in Nat /\ RSP_ERR_CMD \in Nat /\ 0 \in Nat
    BY <1>4, <2>1 DEF RSP_ERR_CMD
  <2> QED BY <1>1, <2>1, <2>2, <2>3, Zenon
<1>7. CASE MODS_06H
  <2> DEFINE c == IF ~RequestIsEight THEN RSP_ERR_VALUE
                  ELSE IF TooLarge(Word(5)) THEN RSP_ERR_WRITE
                  ELSE IF ~RegExists(Word(3)) THEN RSP_ERR_REG_ADDR
                  ELSE RSP_OK
             v == IF c = RSP_OK THEN Word(5) ELSE 0
  <2>1. P01' = (IF c = RSP_OK THEN Word(5) ELSE P01) /\ Reply(c, v)
    BY <1>7 DEF MODS_06H
  <2>2. /\ c \in Nat
        /\ c = RSP_OK => RxCount = 8
        /\ RxCount = 8 /\ Word(5) <= 5 /\ Word(3) = SLAVE_REG_P01 => c = RSP_OK
    <3>1. RxCount = 8 => ~(Word(5) <= 5 /\ Word(5) > 5)
      BY <1>3
    <3> QED BY <3>1 DEF RequestIsEight, TooLarge, RegExists, RSP_OK, RSP_ERR_VALUE,
                        RSP_ERR_WRITE, RSP_ERR_REG_ADDR
  <2> HIDE DEF c
  <2>3. c = RSP_OK => Word(5) \in Nat
    BY <1>3, <2>2
  <2>4. v \in Nat /\ P01' \in Nat
    BY <1>4, <2>1, <2>3
  <2>5. Frames[f][2] = 6
    BY <1>2, <1>7 DEF MODS_06H
  <2> HIDE DEF v
  <2>6. replies' = Append(replies, [to |-> f, function |-> Frames[f][2],
                                    code |-> c, value |-> v])
    BY <1>2, <2>1 DEF Reply
  <2>7. P01' # P01 => RxCount = 8 /\ P01' = Word(5)
    BY <2>1, <2>2
  <2> QED BY <1>1, <2>2, <2>4, <2>5, <2>6, <2>7
<1> QED BY <1>5, <1>6, <1>7 DEF MODS_AnalyzeApp

-----------------------------------------------------------------------------
(* What most steps of MODS_Poll leave alone.                               *)
Looks ==
  \/ Timer1Handler \/ PollSeesTimeout \/ PollClearsTimeout
  \/ PollChecksLength \/ PollChecksFrame \/ UNCHANGED vars

LEMMA LooksOnly ==
  Looks => UNCHANGED <<frame, pos, RxBuf, P01, replies, lost, disturbed>>
BY DEF Looks, Timer1Handler, PollSeesTimeout, PollClearsTimeout,
       PollChecksLength, PollChecksFrame, vars

LEMMA Steps ==
  [Next]_vars <=> \/ MODS_ReciveNew \/ LoseByte \/ Looks
                  \/ MODS_AnalyzeApp \/ PollResetsCount
BY DEF Next, MODS_Poll, Looks

LEMMA BusStep ==
  ASSUME BusInv, RequestInv, [Next]_vars PROVE BusInv'
<1>1. CASE MODS_ReciveNew
  <2>1. /\ CanSend /\ frame' = NextByte.f /\ pos' = NextByte.i
        /\ RxBuf' = Stored /\ P01' = P01 /\ replies' = replies /\ lost' = lost
    BY <1>1 DEF MODS_ReciveNew
  <2>2. /\ NextByte \in Bytes /\ ~Here(NextByte)
        /\ frame' \in Nat \ {0} /\ pos' \in Nat
        /\ frame' <= Len(Frames) /\ pos' <= Len(Frames[frame'])
        /\ \A b \in Bytes : Here(b) \/ b = NextByte => Here(b)'
    BY <2>1, NextIsNew
  <2> DEFINE n == NextByte
  <2>3. n \in Bytes /\ n \notin lost
    BY <2>2 DEF BusInv
  <2>4. /\ RxBuf' \in Seq(Bytes)
        /\ \A k \in 1 .. Len(RxBuf') :
             RxBuf'[k] = n \/ (k \in 1 .. RxCount /\ RxBuf'[k] = RxBuf[k])
    BY <2>1, <2>2, StoredBehind
  <2>5. \A k \in 1 .. Len(RxBuf') : RxBuf'[k] \in Bytes
    BY <2>4, ElementOfSeq
  <2>6. \A b \in Bytes : Here(b) \/ b = n => Here(b)'
    BY <2>2
  <2> HIDE DEF n
  <2>7. \A k \in 1 .. Len(RxBuf') : RxBuf'[k] \notin lost'
    BY <2>1, <2>3, <2>4 DEF BusInv
  <2>8. \A k \in 1 .. Len(RxBuf') : Here(RxBuf[k])'
    BY <2>4, <2>5, <2>6 DEF BusInv
  <2>9. \A b \in lost' : Here(b)'
    BY <2>1, <2>6 DEF BusInv
  <2> QED BY <2>1, <2>2, <2>4, <2>7, <2>8, <2>9 DEF BusInv, RxCount
<1>2. CASE LoseByte
  <2>1. /\ CanSend /\ frame' = NextByte.f /\ pos' = NextByte.i
        /\ RxBuf' = RxBuf /\ P01' = P01 /\ replies' = replies
        /\ lost' = lost \cup {NextByte}
    BY <1>2 DEF LoseByte
  <2>2. /\ NextByte \in Bytes /\ ~Here(NextByte)
        /\ frame' \in Nat \ {0} /\ pos' \in Nat
        /\ frame' <= Len(Frames) /\ pos' <= Len(Frames[frame'])
        /\ \A b \in Bytes : Here(b) \/ b = NextByte => Here(b)'
    BY <2>1, NextIsNew
  <2>3. \A k \in 1 .. RxCount : RxBuf[k] \in Bytes /\ RxBuf[k] \notin lost'
    BY <2>1, <2>2, BytesRead DEF BusInv
  <2>4. \A k \in 1 .. Len(RxBuf') : Here(RxBuf[k])' /\ RxBuf'[k] \notin lost'
    <3>1. \A k \in 1 .. RxCount : \A b \in Bytes : b = RxBuf[k] => Here(b)'
      BY <2>2 DEF BusInv
    <3> QED BY <2>1, <2>3, <3>1 DEF RxCount
  <2>5. \A b \in lost' : b \in Bytes /\ Here(b)'
    BY <2>1, <2>2 DEF BusInv
  <2> QED BY <2>1, <2>2, <2>4, <2>5 DEF BusInv, RxCount
<1>3. CASE Looks
  BY <1>3, LooksOnly DEF BusInv, RxCount, Here
<1>4. CASE MODS_AnalyzeApp
  <2>1. UNCHANGED <<frame, pos, RxBuf, lost>>
    BY <1>4 DEF MODS_AnalyzeApp
  <2>2. P01' \in Nat /\ replies' \in Seq(Answers)
    <3>1. PICK f \in 1 .. Len(Frames), code \in Nat, value \in Nat :
            /\ Requested(f) /\ P01' \in Nat
            /\ replies' = Append(replies, [to |-> f, function |-> Frames[f][2],
                                           code |-> code, value |-> value])
      BY <1>4, AnswerGiven
    <3>2. Frames[f][2] \in Nat
      <4>1. \A i \in 1 .. Len(Frames[f]) : Frames[f][i] \in 0 .. 255
        BY FrameIsSeq
      <4>2. 2 \in 1 .. Len(Frames[f])
        BY <3>1, FrameIsSeq DEF Requested
      <4>3. Frames[f][2] \in 0 .. 255
        BY <4>1, <4>2
      <4>4. 0 .. 255 \subseteq Nat
        OBVIOUS
      <4> QED BY <4>3, <4>4
    <3>3. [to |-> f, function |-> Frames[f][2], code |-> code, value |-> value]
            \in Answers
      BY <3>2 DEF Answers
    <3> QED BY <3>1, <3>3, AppendProperties DEF BusInv
  <2> QED BY <2>1, <2>2 DEF BusInv, RxCount, Here
<1>5. CASE PollResetsCount
  <2>1. UNCHANGED <<frame, pos, lost, P01, replies>> /\ RxBuf' = <<>>
    BY <1>5 DEF PollResetsCount, Emptied
  <2>2. <<>> \in Seq(Bytes) /\ Len(<<>>) = 0
    BY EmptySeq
  <2> QED BY <2>1, <2>2 DEF BusInv, RxCount, Here
<1> QED BY <1>1, <1>2, <1>3, <1>4, <1>5, Steps

-----------------------------------------------------------------------------
(* The frames.                                                             *)

LEMMA SyncStep ==
  ASSUME BusInv, SyncInv, [Next]_vars PROVE SyncInv'
<1>1. CASE MODS_ReciveNew
  <2>1. /\ CanSend /\ frame' = NextByte.f /\ pos' = NextByte.i
        /\ RxBuf' = Stored /\ g_mods_timeout' = FALSE /\ pc' = pc /\ lost' = lost
        /\ disturbed \subseteq disturbed'
        /\ pc # "idle" => frame' \in disturbed'
    BY <1>1 DEF MODS_ReciveNew, TooEarly
  <2>2. NextByte \in Bytes /\ frame' <= Len(Frames)
    BY <2>1, NextIsNew
  <2>3. RxBuf' # <<>>
    BY <2>1, <2>2, StoredBehind
  <2>4. FrameSync'
    <3>1. CASE RxBuf = <<>>
      <4>1. RxBuf'[1] = NextByte
        <5>1. Len(Stored) \in Nat /\ Len(Stored) # 0 /\ RxCount = 0
          BY <2>1, <2>2, <2>3, <3>1, StoredBehind, EmptySeq, LenProperties DEF RxCount
        <5> QED BY <2>1, <2>2, <5>1, StoredBehind
      <4>2. FrameGone
        BY <3>1 DEF SyncInv
      <4>3. CASE frame <= Len(Frames) /\ pos = Len(Frames[frame])
        <5>1. NextByte.i = 1
          BY <4>3 DEF NextByte
        <5> QED BY <4>1, <5>1 DEF FrameSync
      <4>4. CASE ~(frame <= Len(Frames) /\ pos = Len(Frames[frame]))
        <5>1. NextByte = [f |-> frame, i |-> pos + 1]
          BY <4>4 DEF NextByte
        <5>2. frame' = frame /\ frame <= Len(Frames) /\ frame \in Nat /\ pos \in Nat
          BY <2>1, <2>2, <5>1 DEF BusInv
        <5>3. RxBuf'[1].f = frame /\ RxBuf'[1].i = pos + 1
          BY <4>1, <5>1
        <5>4. pos = 0 \/ frame \in disturbed
              \/ \A i \in 1 .. pos : [f |-> frame, i |-> i] \in lost
          BY <4>2, <4>4, <5>2 DEF FrameGone, Past
        <5>5. (pos + 1) - 1 = pos
          BY <5>2
        <5> QED BY <2>1, <5>2, <5>3, <5>4, <5>5 DEF FrameSync
      <4> QED BY <4>3, <4>4
    <3>2. CASE RxBuf # <<>>
      <4>1. 1 \in 1 .. RxCount
        BY <3>2, EmptySeq, LenProperties DEF BusInv, RxCount
      <4>2. RxBuf'[1] = RxBuf[1]
        BY <2>1, <2>2, <4>1, StoredBehind
      <4> QED BY <2>1, <3>2, <4>2 DEF SyncInv, FrameSync
    <3> QED BY <3>1, <3>2
  <2> QED BY <2>1, <2>3, <2>4 DEF SyncInv, FrameGone
<1>2. CASE LoseByte
  <2>1. /\ CanSend /\ frame' = NextByte.f /\ pos' = NextByte.i
        /\ UNCHANGED <<RxBuf, g_mods_timeout, pc, disturbed>>
        /\ lost' = lost \cup {NextByte}
    BY <1>2 DEF LoseByte
  <2>2. FrameGone => FrameGone'
    <3> SUFFICES ASSUME FrameGone PROVE FrameGone'
      OBVIOUS
    <3>1. frame' <= Len(Frames)
      BY <2>1, NextIsNew
    <3>2. CASE pos = 0 \/ (frame <= Len(Frames) /\ pos = Len(Frames[frame]))
      <4>1. pos' = 1 /\ NextByte = [f |-> frame', i |-> 1]
        BY <2>1, <3>2 DEF NextByte
      <4>2. \A i \in 1 .. 1 : i = 1
        OBVIOUS
      <4>3. \A i \in 1 .. pos' : [f |-> frame', i |-> i] \in lost'
        BY <2>1, <4>1, <4>2
      <4> QED BY <4>3 DEF FrameGone
    <3>3. CASE ~(pos = 0 \/ (frame <= Len(Frames) /\ pos = Len(Frames[frame])))
      <4>1. NextByte = [f |-> frame, i |-> pos + 1]
        BY <3>3 DEF NextByte
      <4>2. frame' = frame /\ pos' = pos + 1 /\ frame \in Nat /\ pos \in Nat
        BY <2>1, <4>1 DEF BusInv
      <4>3. frame \in disturbed \/ \A i \in 1 .. pos : [f |-> frame, i |-> i] \in lost
        BY <3>1, <3>3, <4>2 DEF FrameGone, Past
      <4>4. CASE frame \in disturbed
        BY <2>1, <4>2, <4>4 DEF FrameGone
      <4>5. CASE \A i \in 1 .. pos : [f |-> frame, i |-> i] \in lost
        <5>1. \A i \in 1 .. pos' : i \in 1 .. pos \/ i = pos + 1
          BY <4>2
        <5>2. \A i \in 1 .. pos' : [f |-> frame', i |-> i] \in lost'
          BY <2>1, <4>1, <4>2, <4>5, <5>1
        <5> QED BY <5>2 DEF FrameGone
      <4> QED BY <4>3, <4>4, <4>5
    <3> QED BY <3>2, <3>3
  <2>3. FrameSync'
    BY <2>1 DEF SyncInv, FrameSync
  <2> QED BY <2>1, <2>2, <2>3 DEF SyncInv
<1>3. CASE Looks
  <2>1. UNCHANGED <<frame, pos, RxBuf, lost, disturbed>>
    BY <1>3, LooksOnly
  <2>2. (FrameGone <=> FrameGone') /\ (FrameSync <=> FrameSync')
    BY <2>1 DEF FrameGone, Past, FrameSync
  <2>3. CASE Timer1Handler
    <3>1. FrameGone
      BY <2>3, FramesLen DEF Timer1Handler, MidFrame, BusInv, FrameGone, Past
    <3> QED BY <2>2, <3>1 DEF SyncInv
  <2>4. g_mods_timeout' \/ pc' # "idle" => g_mods_timeout \/ pc # "idle" \/ Timer1Handler
    BY <1>3 DEF Looks, PollSeesTimeout, PollClearsTimeout, PollChecksLength,
                PollChecksFrame, Goto, vars
  <2> QED BY <2>1, <2>2, <2>3, <2>4 DEF SyncInv
<1>4. CASE MODS_AnalyzeApp
  <2>1. UNCHANGED <<frame, pos, RxBuf, lost, disturbed>> /\ pc # "idle"
    BY <1>4 DEF MODS_AnalyzeApp, Goto
  <2> QED BY <2>1 DEF SyncInv, FrameGone, Past, FrameSync
<1>5. CASE PollResetsCount
  <2>1. UNCHANGED <<frame, pos, lost, disturbed>> /\ pc # "idle" /\ RxBuf' = <<>>
    BY <1>5 DEF PollResetsCount, Goto, Emptied
  <2> QED BY <2>1 DEF SyncInv, FrameGone, Past, FrameSync
<1> QED BY <1>1, <1>2, <1>3, <1>4, <1>5, Steps

(* The request stays where it is while the slave reads it.                 *)
LEMMA RequestStep ==
  ASSUME BusInv, RequestInv, [Next]_vars PROVE RequestInv'
<1>1. RxCount \in Nat /\ RxBuf \in Seq(Bytes)
  BY LenProperties DEF BusInv, RxCount
<1>2. CASE MODS_ReciveNew
  <2>1. /\ CanSend /\ frame' = NextByte.f /\ pos' = NextByte.i
        /\ RxBuf' = Stored /\ pc' = pc
        /\ disturbed \subseteq disturbed'
        /\ pc # "idle" => FramesInRxBuf \subseteq disturbed'
    BY <1>2 DEF MODS_ReciveNew, TooEarly
  <2>2. NextByte \in Bytes
    BY <2>1, NextIsNew
  <2>3. /\ Len(RxBuf') \in Nat /\ Len(RxBuf') >= RxCount
        /\ \A k \in 1 .. RxCount : RxBuf'[k] = RxBuf[k]
    BY <2>1, <2>2, StoredBehind, LenProperties
  <2>4. ASSUME NEW f \in 1 .. Len(Frames), Requested(f), pc = "analyze"
        PROVE  Requested(f)'
    <3>1. Len(Frames[f]) \in Nat /\ 4 <= Len(Frames[f]) /\ Len(Frames[f]) <= RxCount
      BY <2>4, FrameIsSeq DEF Requested
    <3>2. 1 \in 1 .. RxCount /\ RxBuf[1].f = f
      BY <1>1, <2>4, <3>1, RequestRead
    <3>3. f \in disturbed'
      BY <2>1, <2>4, <3>2 DEF FramesInRxBuf
    <3>4. \A k \in 1 .. Len(Frames[f]) : RxBuf'[k] = [f |-> f, i |-> k]
      BY <1>1, <2>3, <2>4, <3>1 DEF Requested
    <3>5. Len(Frames[f]) <= Len(RxBuf')
      BY <1>1, <2>3, <3>1
    <3> QED BY <2>4, <3>3, <3>4, <3>5 DEF Requested, RxCount
  <2>5. pc' = "crc" => RxCount' >= 4
    BY <1>1, <2>1, <2>3 DEF RequestInv, RxCount
  <2> QED BY <2>1, <2>4, <2>5 DEF RequestInv
<1>3. CASE LoseByte
  BY <1>3 DEF LoseByte, RequestInv, Requested, RxCount
<1>4. CASE Looks
  <2>1. UNCHANGED <<RxBuf, disturbed>>
    BY <1>4, LooksOnly
  <2>2. \A f \in 1 .. Len(Frames) : Requested(f) => Requested(f)'
    BY <2>1 DEF Requested, RxCount
  <2>3. pc' = "crc" => RxCount' >= 4
    BY <1>1, <1>4, <2>1
    DEF Looks, Timer1Handler, PollSeesTimeout, PollClearsTimeout,
        PollChecksLength, PollChecksFrame, Goto, vars, RequestInv, RxCount
  <2>4. CASE PollChecksFrame
    <3>1. ASSUME CrcIsZero /\ AddressedToMe
          PROVE  \E f \in 1 .. Len(Frames) : Requested(f)
      <4>1. PICK f \in 1 .. Len(Frames) :
              RxBuf = [k \in 1 .. Len(Frames[f]) |-> [f |-> f, i |-> k]]
        BY <3>1 DEF CrcIsZero
      <4>2. Len(Frames[f]) \in Nat
        BY FrameIsSeq
      <4>3. RxCount = Len(Frames[f])
        BY <1>1, <4>1, <4>2, LenProperties DEF RxCount
      <4>4. RxCount >= 4
        BY <2>4 DEF PollChecksFrame, RequestInv
      <4>5. RxBuf[1] = [f |-> f, i |-> 1]
        BY <1>1, <4>1, <4>3, <4>4
      <4>6. Frames[f][1] = g_ID
        BY <3>1, <4>5 DEF AddressedToMe, Byte
      <4>7. \A k \in 1 .. Len(Frames[f]) : RxBuf[k] = [f |-> f, i |-> k]
        BY <4>1
      <4>8. 4 <= Len(Frames[f]) /\ Len(Frames[f]) <= RxCount
        BY <1>1, <4>3, <4>4
      <4> QED BY <4>3, <4>6, <4>7, <4>8 DEF Requested
    <3>2. pc' = "analyze" => CrcIsZero /\ AddressedToMe
      BY <2>4 DEF PollChecksFrame
    <3> QED BY <2>2, <2>3, <3>1, <3>2 DEF RequestInv
  <2>5. CASE ~PollChecksFrame
    <3>1. pc' = "analyze" => pc = "analyze"
      BY <1>4, <2>5 DEF Looks, Timer1Handler, PollSeesTimeout, PollClearsTimeout,
                        PollChecksLength, Goto, vars
    <3> QED BY <2>2, <2>3, <3>1 DEF RequestInv
  <2> QED BY <2>4, <2>5
<1>5. CASE MODS_AnalyzeApp \/ PollResetsCount
  <2>1. pc' \in {"reset", "idle"}
    BY <1>5 DEF MODS_AnalyzeApp, PollResetsCount, Goto
  <2> QED BY <2>1 DEF RequestInv
<1> QED BY <1>2, <1>3, <1>4, <1>5, Steps

-----------------------------------------------------------------------------
(* The answers.                                                            *)

(* A request that RxBuf holds is over on the bus, and all of it arrived.   *)
LEMMA RequestIsPast ==
  ASSUME BusInv, NEW f \in 1 .. Len(Frames), Requested(f)
  PROVE  Past(f) /\ f \in 1 .. frame /\ \A b \in lost : b.f # f
<1>1. Len(Frames[f]) \in Nat /\ 4 <= Len(Frames[f]) /\ Len(Frames[f]) <= RxCount
  BY FrameIsSeq DEF Requested
<1>2. RxCount \in Nat
  BY LenProperties DEF BusInv, RxCount
<1> DEFINE last == Len(Frames[f])
<1>3. last \in 1 .. RxCount /\ RxBuf[last] = [f |-> f, i |-> last]
  BY <1>1, <1>2 DEF Requested
<1>4. Here([f |-> f, i |-> last])
  BY <1>3 DEF BusInv
<1>5. f < frame \/ (f = frame /\ last <= pos)
  BY <1>4 DEF Here
<1>6. Past(f) /\ f \in 1 .. frame
  BY <1>1, <1>5, FramesLen DEF BusInv, Past
<1>7. ASSUME NEW b \in lost, b.f = f PROVE FALSE
  <2>1. b \in [f : 1 .. Len(Frames), i : Nat \ {0}] /\ b.i <= Len(Frames[b.f])
    BY DEF BusInv, Bytes
  <2>2. b = [f |-> f, i |-> b.i] /\ b.i \in 1 .. Len(Frames[f])
    BY <1>1, <1>7, <2>1
  <2>3. RxBuf[b.i] = b /\ b.i \in 1 .. RxCount
    BY <1>1, <1>2, <2>2 DEF Requested
  <2> QED BY <2>3 DEF BusInv
<1> QED BY <1>6, <1>7

LEMMA RequestWords ==
  ASSUME BusInv, NEW f \in 1 .. Len(Frames), Requested(f), Len(Frames[f]) >= 6
  PROVE  /\ Word(3) = 256 * Frames[f][3] + Frames[f][4]
         /\ Word(5) = 256 * Frames[f][5] + Frames[f][6]
<1>1. \A k \in {3, 4, 5, 6} : k \in 1 .. Len(Frames[f])
  BY FrameIsSeq
<1>2. \A k \in {3, 4, 5, 6} : Byte(k) = Frames[f][k]
  BY <1>1, RequestRead
<1>3. 3 + 1 = 4 /\ 5 + 1 = 6
  OBVIOUS
<1> QED BY <1>2, <1>3 DEF Word

(* The last of a longer list of answers.                                   *)
LEMMA OneMore ==
  ASSUME NEW s \in Seq(Answers), NEW a \in Answers
  PROVE  /\ Append(s, a) \in Seq(Answers)
         /\ Len(s) \in Nat /\ Len(Append(s, a)) = Len(s) + 1
         /\ Append(s, a)[Len(s) + 1] = a
         /\ \A r \in 1 .. Len(s) : Append(s, a)[r] = s[r]
BY AppendProperties, LenProperties

(* What holds of the answers stays so while the bus goes on.               *)
LEMMA AnswersStay ==
  ASSUME AnswersAreOwn, GoodWriteAccepted, UNCHANGED replies,
         disturbed \subseteq disturbed',
         \A r \in 1 .. Len(replies) : \A b \in lost' : b.f # replies[r].to
  PROVE  AnswersAreOwn' /\ GoodWriteAccepted'
BY DEF AnswersAreOwn, GoodWriteAccepted

LEMMA AnswerStep ==
  ASSUME BusInv, RequestInv, AnswerInv, [Next]_vars PROVE AnswerInv'
<1>1. RxCount \in Nat /\ RxBuf \in Seq(Bytes)
  BY LenProperties DEF BusInv, RxCount
<1>2. \A r \in 1 .. Len(replies) : replies[r] \in Answers /\ replies[r].to \in Nat
  <2> SUFFICES ASSUME NEW r \in 1 .. Len(replies)
               PROVE  replies[r] \in Answers /\ replies[r].to \in Nat
    OBVIOUS
  <2>1. replies[r] \in Answers
    BY ElementOfSeq DEF BusInv
  <2>2. replies[r].to \in 1 .. Len(Frames)
    BY <2>1 DEF Answers
  <2> QED BY <2>1, <2>2, FramesLen
<1>3. CASE MODS_ReciveNew
  <2>1. /\ CanSend /\ frame' = NextByte.f /\ pos' = NextByte.i
        /\ RxBuf' = Stored /\ UNCHANGED <<pc, replies, lost>>
        /\ disturbed \subseteq disturbed'
    BY <1>3 DEF MODS_ReciveNew
  <2>2. /\ NextByte \in Bytes
        /\ \A f \in Nat : Past(f) => Past(f)' /\ f < NextByte.f
    BY <2>1, NextIsNew
  <2>3. AnswersAreOwn' /\ GoodWriteAccepted'
    BY <2>1, AnswersStay DEF AnswerInv, AnswersAreOwn
  <2> DEFINE n == NextByte
  <2>4. \A r \in 1 .. Len(replies) : Past(replies[r].to)' /\ replies[r].to < n.f
    BY <1>2, <2>1, <2>2 DEF AnswerInv, Past
  <2>5. RxBuf = <<>> => RxBuf'[1] = n
    <3> SUFFICES ASSUME RxBuf = <<>> PROVE RxBuf'[1] = n
      OBVIOUS
    <3>1. Len(Stored) \in Nat /\ Len(Stored) # 0 /\ RxCount = 0
      BY <2>2, StoredBehind, EmptySeq, LenProperties DEF RxCount
    <3> QED BY <2>1, <2>2, <3>1, StoredBehind
  <2>6. RxBuf # <<>> => RxBuf'[1] = RxBuf[1]
    <3> SUFFICES ASSUME RxBuf # <<>> PROVE RxBuf'[1] = RxBuf[1]
      OBVIOUS
    <3>1. 1 \in 1 .. RxCount
      BY <1>1, EmptySeq, LenProperties DEF RxCount
    <3> QED BY <2>1, <2>2, <3>1, StoredBehind
  <2> HIDE DEF n
  <2> QED BY <2>1, <2>3, <2>4, <2>5, <2>6 DEF AnswerInv
<1>4. CASE LoseByte
  <2>1. /\ CanSend /\ frame' = NextByte.f /\ pos' = NextByte.i
        /\ lost' = lost \cup {NextByte}
        /\ UNCHANGED <<pc, replies, disturbed, RxBuf>>
    BY <1>4 DEF LoseByte
  <2>2. \A f \in Nat : Past(f) => Past(f)' /\ f < NextByte.f
    BY <2>1, NextIsNew
  <2>3. NextByte.f \in Nat
    BY <2>1, NextIsNew, FramesLen DEF Bytes
  <2> DEFINE n == NextByte
  <2>4. \A r \in 1 .. Len(replies) : Past(replies[r].to)' /\ n.f # replies[r].to
    BY <1>2, <2>1, <2>2, <2>3 DEF AnswerInv, Past
  <2> HIDE DEF n
  <2>5. \A r \in 1 .. Len(replies) : \A b \in lost' : b.f # replies[r].to
    BY <2>1, <2>4 DEF AnswerInv, AnswersAreOwn, n
  <2>6. AnswersAreOwn' /\ GoodWriteAccepted'
    BY <2>1, <2>5, AnswersStay DEF AnswerInv
  <2> QED BY <2>1, <2>4, <2>6 DEF AnswerInv
<1>5. CASE Looks
  <2>1. UNCHANGED <<frame, pos, RxBuf, replies, lost, disturbed>>
    BY <1>5, LooksOnly
  <2>2. AnswersAreOwn' /\ GoodWriteAccepted'
    BY <2>1, AnswersStay DEF AnswerInv, AnswersAreOwn
  <2>3. pc' # "reset" => pc # "reset"
    BY <1>5 DEF Looks, Timer1Handler, PollSeesTimeout, PollClearsTimeout,
                PollChecksLength, PollChecksFrame, Goto, vars
  <2> QED BY <2>1, <2>2, <2>3 DEF AnswerInv, Past
<1>6. CASE MODS_AnalyzeApp
  <2>1. UNCHANGED <<frame, pos, RxBuf, lost, disturbed>> /\ pc = "analyze"
        /\ pc' = "reset"
    BY <1>6 DEF MODS_AnalyzeApp, Goto
  <2>2. PICK f \in 1 .. Len(Frames), code \in Nat, value \in Nat :
          /\ Requested(f)
          /\ replies' = Append(replies, [to |-> f, function |-> Frames[f][2],
                                         code |-> code, value |-> value])
          /\ Frames[f][2] = 6 /\ RxCount = 8 /\ Word(5) <= 5
               /\ Word(3) = SLAVE_REG_P01 => code = RSP_OK
    BY <1>6, AnswerGiven
  <2> DEFINE a == [to |-> f, function |-> Frames[f][2],
                   code |-> code, value |-> value]
             n == Len(replies)
  <2>3. Frames[f][2] \in Nat /\ Len(Frames[f]) \in Nat /\ 4 <= Len(Frames[f])
    <3>1. \A i \in 1 .. Len(Frames[f]) : Frames[f][i] \in 0 .. 255
      BY FrameIsSeq
    <3>2. Len(Frames[f]) \in Nat /\ 4 <= Len(Frames[f])
      BY <2>2, FrameIsSeq DEF Requested
    <3>3. Frames[f][2] \in 0 .. 255 /\ 0 .. 255 \subseteq Nat
      BY <3>1, <3>2
    <3> QED BY <3>2, <3>3
  <2>4. a \in Answers /\ replies \in Seq(Answers)
    BY <2>3 DEF Answers, BusInv
  <2>5. a.to = f /\ a.function = Frames[f][2] /\ a.code = code
    OBVIOUS
  <2>6. /\ n \in Nat /\ Len(replies') = n + 1 /\ replies'[n + 1] = a
        /\ \A r \in 1 .. n : replies'[r] = replies[r]
    BY <2>2, <2>4, OneMore
  <2>7. Past(f) /\ \A b \in lost : b.f # f
    BY <2>2, RequestIsPast
  <2>8. Frames[f][1] = g_ID
    BY <2>2 DEF Requested
  <2>9. \A r \in 1 .. n : replies[r].to < f
    <3>1. RxBuf # <<>> /\ RxBuf[1].f = f
      BY <2>2, RequestRead, EmptySeq DEF RxCount
    <3> QED BY <2>1, <3>1 DEF AnswerInv
  <2>10. IsWrite(f) /\ 256 * Frames[f][3] + Frames[f][4] = SLAVE_REG_P01
           /\ 256 * Frames[f][5] + Frames[f][6] <= 5 /\ f \notin disturbed
         => code = RSP_OK
    <3> SUFFICES ASSUME IsWrite(f), f \notin disturbed,
                        256 * Frames[f][3] + Frames[f][4] = SLAVE_REG_P01,
                        256 * Frames[f][5] + Frames[f][6] <= 5
                 PROVE  code = RSP_OK
      OBVIOUS
    <3>1. Len(Frames[f]) = 8 /\ Frames[f][2] = 6
      BY DEF IsWrite
    <3>2. RxCount = 8
      BY <2>2, <3>1 DEF Requested
    <3>3. Word(3) = SLAVE_REG_P01 /\ Word(5) <= 5
      BY <2>2, <3>1, RequestWords
    <3> QED BY <2>2, <3>1, <3>2, <3>3
  <2> HIDE DEF a, n
  <2>11. \A r \in 1 .. Len(replies') : r = n + 1 \/ r \in 1 .. n
    BY <2>6
  <2>12. AnswersAreOwn'
    <3>1. ASSUME NEW r \in 1 .. Len(replies')
          PROVE  /\ Frames[replies'[r].to][1] = g_ID
                 /\ replies'[r].function = Frames[replies'[r].to][2]
                 /\ \A b \in lost' : b.f # replies'[r].to
      <4>1. CASE r = n + 1
        BY <2>1, <2>5, <2>6, <2>7, <2>8, <4>1
      <4>2. CASE r \in 1 .. n
        BY <2>1, <2>6, <4>2 DEF AnswerInv, AnswersAreOwn, n
      <4> QED BY <2>11, <4>1, <4>2
    <3>2. ASSUME NEW r \in 1 .. Len(replies'), NEW q \in 1 .. Len(replies'), r < q
          PROVE  replies'[r].to < replies'[q].to
      <4>1. r \in 1 .. n
        BY <2>6, <3>2
      <4>2. CASE q = n + 1
        BY <2>5, <2>6, <2>9, <4>1, <4>2
      <4>3. CASE q \in 1 .. n
        BY <2>6, <3>2, <4>1, <4>3 DEF AnswerInv, AnswersAreOwn, n
      <4> QED BY <2>11, <4>2, <4>3
    <3> QED BY <3>1, <3>2 DEF AnswersAreOwn
  <2>13. GoodWriteAccepted'
    <3>1. ASSUME NEW r \in 1 .. Len(replies')
          PROVE  LET g == replies'[r].to IN
                 IsWrite(g) /\ 256 * Frames[g][3] + Frames[g][4] = SLAVE_REG_P01
                   /\ 256 * Frames[g][5] + Frames[g][6] <= 5 /\ g \notin disturbed'
                 => replies'[r].code = RSP_OK
      <4>1. CASE r = n + 1
        BY <2>1, <2>5, <2>6, <2>10, <4>1
      <4>2. CASE r \in 1 .. n
        BY <2>1, <2>6, <4>2 DEF AnswerInv, GoodWriteAccepted, n
      <4> QED BY <2>11, <4>1, <4>2
    <3> QED BY <3>1 DEF GoodWriteAccepted
  <2>14. \A r \in 1 .. Len(replies') : Past(replies[r].to)'
    <3>1. ASSUME NEW r \in 1 .. Len(replies') PROVE Past(replies'[r].to)
      <4>1. CASE r = n + 1
        BY <2>5, <2>6, <2>7, <4>1
      <4>2. CASE r \in 1 .. n
        BY <2>6, <4>2 DEF AnswerInv, n
      <4> QED BY <2>11, <4>1, <4>2
    <3> QED BY <2>1, <3>1 DEF Past
  <2> QED BY <2>1, <2>12, <2>13, <2>14 DEF AnswerInv
<1>7. CASE PollResetsCount
  <2>1. UNCHANGED <<frame, pos, lost, disturbed, replies>> /\ RxBuf' = <<>>
    BY <1>7 DEF PollResetsCount, Emptied
  <2>2. AnswersAreOwn' /\ GoodWriteAccepted'
    BY <2>1, AnswersStay DEF AnswerInv, AnswersAreOwn
  <2> QED BY <2>1, <2>2 DEF AnswerInv, Past
<1> QED BY <1>3, <1>4, <1>5, <1>6, <1>7, Steps

-----------------------------------------------------------------------------
LEMMA InvInit == Init => IInv
<1> SUFFICES ASSUME Init PROVE IInv
  OBVIOUS
<1>1. Len(<<>>) = 0 /\ <<>> \in Seq(Bytes) /\ <<>> \in Seq(Answers)
  BY EmptySeq
<1>2. Len(Frames) >= 1 => Len(Frames[1]) \in Nat
  BY FrameIsSeq, FramesLen
<1>3. BusInv
  BY <1>1, <1>2, FramesLen DEF Init, BusInv, RxCount
<1>4. SyncInv /\ RequestInv
  BY DEF Init, SyncInv, FrameSync, FrameGone, RequestInv
<1>5. AnswerInv
  BY <1>1 DEF Init, AnswerInv, AnswersAreOwn, GoodWriteAccepted
<1> QED BY <1>3, <1>4, <1>5 DEF IInv

LEMMA InvAlways == Spec => []IInv
<1>1. IInv /\ [Next]_vars => IInv'
  BY BusStep, SyncStep, RequestStep, AnswerStep DEF IInv
<1> QED BY InvInit, <1>1, PTL DEF Spec

(* Only a whole frame that carries this slave's address is answered, with  *)
(* its own function code, and none twice: MODS_Poll reads the request from *)
(* a buffer the receive handler goes on filling, but only behind it.       *)
THEOREM EachAnswerHasItsFrame == Spec => []AnswersAreOwn
<1>1. IInv => AnswersAreOwn
  BY DEF IInv, AnswerInv
<1> QED BY <1>1, InvAlways, PTL

(* MODS_06H takes the length from RxCount a second time: as long as no     *)
(* byte came since the CRC that is still the frame's.                      *)
THEOREM GoodWritesAreAccepted == Spec => []GoodWriteAccepted
<1>1. IInv => GoodWriteAccepted
  BY DEF IInv, AnswerInv
<1> QED BY <1>1, InvAlways, PTL

(* After g_tModS.RxCount = 0 the slave is in step with the bus again.      *)
THEOREM RxBufIsInSync == Spec => []FrameSync
<1>1. IInv => FrameSync
  BY DEF IInv, SyncInv
<1> QED BY <1>1, InvAlways, PTL

(* Every master's write is a frame of eight bytes, as the protocol has it. *)
(* Of a shorter one MODS_06H would read on into bytes that came after it.  *)
NoShortWrite ==
  \A f \in 1 .. Len(Frames) :
    Frames[f][1] = g_ID /\ Frames[f][2] = 6 => Len(Frames[f]) >= 8

(* Unless the bus carries writes that are too short, the register changes  *)
(* only to the value of a write to this slave all of whose bytes arrived.  *)
THEOREM OnlyWritesWrite ==
  ASSUME NoShortWrite PROVE Spec => WriteWasRequested
<1>1. ASSUME IInv, [Next]_vars, P01' # P01
      PROVE  \E f \in 1 .. frame :
               /\ IsWrite(f) /\ \A b \in lost : b.f # f
               /\ 256 * Frames[f][5] + Frames[f][6] = P01'
  <2>1. MODS_AnalyzeApp
    <3>1. CASE MODS_ReciveNew
      BY <1>1, <3>1 DEF MODS_ReciveNew
    <3>2. CASE LoseByte
      BY <1>1, <3>2 DEF LoseByte
    <3>3. CASE Looks
      BY <1>1, <3>3, LooksOnly
    <3>4. CASE PollResetsCount
      BY <1>1, <3>4 DEF PollResetsCount
    <3> QED BY <1>1, <3>1, <3>2, <3>3, <3>4, Steps
  <2>2. BusInv /\ RequestInv
    BY <1>1 DEF IInv
  <2>3. PICK f \in 1 .. Len(Frames) :
          /\ Requested(f) /\ Frames[f][2] = 6 /\ RxCount = 8 /\ P01' = Word(5)
    BY <1>1, <2>1, <2>2, AnswerGiven
  <2>4. Frames[f][1] = g_ID /\ Len(Frames[f]) = 8
    <3>1. Frames[f][1] = g_ID /\ Len(Frames[f]) <= 8
      BY <2>3 DEF Requested
    <3>2. Len(Frames[f]) >= 8
      BY <2>3, <3>1 DEF NoShortWrite
    <3>3. Len(Frames[f]) \in Nat
      BY FrameIsSeq
    <3>4. \A n \in Nat : n <= 8 /\ n >= 8 => n = 8
      OBVIOUS
    <3> QED BY <3>1, <3>2, <3>3, <3>4, Zenon
  <2>5. f \in 1 .. frame /\ \A b \in lost : b.f # f
    BY <2>2, <2>3, RequestIsPast
  <2>6. 256 * Frames[f][5] + Frames[f][6] = P01'
    BY <2>2, <2>3, <2>4, RequestWords
  <2> QED BY <2>3, <2>4, <2>5, <2>6 DEF IsWrite
<1>2. IInv /\ [Next]_vars => [P01' # P01 =>
        \E f \in 1 .. frame :
          /\ IsWrite(f) /\ \A b \in lost : b.f # f
          /\ 256 * Frames[f][5] + Frames[f][6] = P01']_vars
  BY <1>1
<1> QED BY <1>2, InvAlways, PTL DEF Spec, WriteWasRequested

=============================================================================
