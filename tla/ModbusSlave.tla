---------------------------- MODULE ModbusSlave ----------------------------
(***************************************************************************)
(* modbus_slave.c: the RTU slave on the RS-485 bus.  The receive handler   *)
(* (MODS_ReciveNew) appends each byte to RxBuf and restarts the 3.5        *)
(* character timer; the timer's handler raises g_mods_timeout; MODS_Poll,  *)
(* called from the main loop, decodes RxBuf and empties it.  Both handlers *)
(* run between any two accesses MODS_Poll makes to what they share.        *)
(*                                                                         *)
(* The bus carries Frames one after the other with a silence of at least   *)
(* 3.5 characters between two.  A byte of RxBuf is where it comes from:    *)
(* [f |-> which frame, i |-> which of its bytes].                          *)
(***************************************************************************)
EXTENDS Naturals, Sequences, FiniteSets

CONSTANTS
  Frames,         \* what the bus carries: a sequence of frames, none empty
  g_ID,           \* the slave's address
  S_RX_BUF_SIZE,
  MaxLost         \* bound: how many bytes the line loses

ASSUME ModbusAssumption ==
  /\ Frames \in Seq(Seq(0 .. 255) \ {<<>>})
  /\ g_ID \in 0 .. 255 /\ S_RX_BUF_SIZE \in Nat \ {0} /\ MaxLost \in Nat

SLAVE_REG_P01 == 1
RSP_OK == 0
RSP_ERR_CMD == 1
RSP_ERR_REG_ADDR == 2
RSP_ERR_VALUE == 3
RSP_ERR_WRITE == 4

VARIABLES
  frame, pos,      \* the bus: the frame it carries, how many bytes are past
  timerOn,         \* the 3.5 character timer counts
  g_mods_timeout,
  RxBuf,           \* the first RxCount bytes of g_tModS.RxBuf
  P01,             \* g_tVar.P01
  pc,              \* where MODS_Poll is
  replies,         \* history: what was sent, [to, code, value]
  lost,            \* history: the bytes the line lost
  disturbed        \* history: frames of bytes that came too early, or that they met

vars == <<frame, pos, timerOn, g_mods_timeout, RxBuf, P01, pc, replies, lost,
          disturbed>>

Byte(k) == Frames[RxBuf[k].f][RxBuf[k].i]

Word(k) == 256 * Byte(k) + Byte(k + 1)

RxCount == Len(RxBuf)

Init ==
  /\ frame = 1 /\ pos = 0
  /\ timerOn = FALSE /\ g_mods_timeout = FALSE
  /\ RxBuf = <<>> /\ P01 = 0
  /\ pc = "idle" /\ replies = <<>> /\ lost = {} /\ disturbed = {}

-----------------------------------------------------------------------------
(* The bus.                                                                *)

MidFrame == pos > 0 /\ frame <= Len(Frames) /\ pos < Len(Frames[frame])

(* Where the next byte comes from: within a frame the bytes follow at once *)
(* and the first byte of the next frame waits for the timer to expire.     *)
NextByte ==
  IF frame <= Len(Frames) /\ pos = Len(Frames[frame])
  THEN [f |-> frame + 1, i |-> 1] ELSE [f |-> frame, i |-> pos + 1]

CanSend == NextByte.f <= Len(Frames) /\ (MidFrame \/ ~timerOn)

(* The byte comes while MODS_Poll is at work, or before it has begun with  *)
(* the frame whose silence was over.                                       *)
TooEarly == pc # "idle" \/ g_mods_timeout

FramesInRxBuf == {RxBuf[k].f : k \in 1 .. RxCount}

BugDropsOldest ==
  IF RxCount < S_RX_BUF_SIZE THEN Append(RxBuf, NextByte)
  ELSE Append(Tail(RxBuf), NextByte)
Stored ==
  IF RxCount < S_RX_BUF_SIZE THEN Append(RxBuf, NextByte) ELSE RxBuf

(* The receive handler's part in this module: MODS_ReciveNew.              *)
MODS_ReciveNew ==
  /\ CanSend
  /\ frame' = NextByte.f /\ pos' = NextByte.i
  /\ g_mods_timeout' = FALSE
  /\ timerOn' = TRUE
  /\ RxBuf' = Stored
  /\ disturbed' = IF TooEarly THEN disturbed \cup FramesInRxBuf \cup {NextByte.f}
                   ELSE disturbed
  /\ UNCHANGED <<P01, pc, replies, lost>>

(* The line loses a byte.                                                  *)
LoseByte ==
  /\ CanSend
  /\ Cardinality(lost) < MaxLost
  /\ frame' = NextByte.f /\ pos' = NextByte.i
  /\ lost' = lost \cup {NextByte}
  /\ UNCHANGED <<timerOn, g_mods_timeout, RxBuf, P01, pc, replies, disturbed>>

(* The timer's handler: 3.5 characters of silence.                         *)
Timer1Handler ==
  /\ timerOn /\ ~MidFrame
  /\ g_mods_timeout' = TRUE
  /\ timerOn' = FALSE
  /\ UNCHANGED <<frame, pos, RxBuf, P01, pc, replies, lost, disturbed>>

-----------------------------------------------------------------------------
(* MODS_Poll, one step for each access to g_mods_timeout or RxCount.       *)

Goto(from, to) == pc = from /\ pc' = to

PollSeesTimeout ==
  /\ Goto("idle", "clear")
  /\ g_mods_timeout
  /\ UNCHANGED <<frame, pos, timerOn, g_mods_timeout, RxBuf, P01, replies,
                 lost, disturbed>>

PollClearsTimeout ==
  /\ Goto("clear", "length")
  /\ g_mods_timeout' = FALSE
  /\ UNCHANGED <<frame, pos, timerOn, RxBuf, P01, replies, lost, disturbed>>

PollChecksLength ==
  /\ pc = "length"
  /\ pc' = IF RxCount < 4 THEN "reset" ELSE "crc"
  /\ UNCHANGED <<frame, pos, timerOn, g_mods_timeout, RxBuf, P01, replies,
                 lost, disturbed>>

(* CRC16_Modbus over RxBuf is 0: it is one whole frame, each byte of it.   *)
(* (Two frames together never pass: the register starts at 0xFFFF once.    *)
(* That a damaged frame passes by chance, 1 in 2^16, is left out.)         *)
BugNoCrc == TRUE
CrcIsZero ==
  \E f \in 1 .. Len(Frames) :
    RxBuf = [k \in 1 .. Len(Frames[f]) |-> [f |-> f, i |-> k]]

BugAnyAddress == TRUE
AddressedToMe == Byte(1) = g_ID

(* The CRC is over the RxCount of the call.  The bytes it covered stay     *)
(* until the reset, so the address is as good as read with them.           *)
PollChecksFrame ==
  /\ pc = "crc"
  /\ pc' = IF CrcIsZero /\ AddressedToMe THEN "analyze" ELSE "reset"
  /\ UNCHANGED <<frame, pos, timerOn, g_mods_timeout, RxBuf, P01, replies,
                 lost, disturbed>>

(* MODS_SendAckOk, MODS_SendAckErr, the good answer of MODS_03H: what goes *)
(* to RS485_SendBuf, its address and function code taken from RxBuf.       *)
Reply(code, value) ==
  replies' = Append(replies, [to |-> RxBuf[1].f, function |-> Byte(2),
                              code |-> code, value |-> value])

BugSixBytes == RxCount = 6
RequestIsEight == RxCount = 8

(* MODS_ReadRegValue and MODS_WriteRegValue know one register.             *)
RegExists(reg) == reg = SLAVE_REG_P01

MODS_03H ==
  LET code == IF ~RequestIsEight THEN RSP_ERR_VALUE
              ELSE IF Word(5) # 1 \/ ~RegExists(Word(3)) THEN RSP_ERR_REG_ADDR
              ELSE RSP_OK
  IN  /\ Byte(2) = 3
      /\ Reply(code, IF code = RSP_OK THEN P01 ELSE 0)
      /\ UNCHANGED P01

TooLarge(v) == v > 5

MODS_06H ==
  LET code == IF ~RequestIsEight THEN RSP_ERR_VALUE
              ELSE IF TooLarge(Word(5)) THEN RSP_ERR_WRITE
              ELSE IF ~RegExists(Word(3)) THEN RSP_ERR_REG_ADDR
              ELSE RSP_OK
  IN  /\ Byte(2) = 6
      /\ P01' = IF code = RSP_OK THEN Word(5) ELSE P01
      /\ Reply(code, IF code = RSP_OK THEN Word(5) ELSE 0)

UnknownFunction ==
  /\ Byte(2) \notin {3, 6}
  /\ Reply(RSP_ERR_CMD, 0)
  /\ UNCHANGED P01

(* RxCount is read once, for the length; the registers are the main        *)
(* loop's own and the bytes read stay where they are.                      *)
MODS_AnalyzeApp ==
  /\ Goto("analyze", "reset")
  /\ MODS_03H \/ MODS_06H \/ UnknownFunction
  /\ UNCHANGED <<frame, pos, timerOn, g_mods_timeout, RxBuf, lost, disturbed>>

BugKeepsCount == RxBuf
Emptied == <<>>

PollResetsCount ==
  /\ Goto("reset", "idle")
  /\ RxBuf' = Emptied
  /\ UNCHANGED <<frame, pos, timerOn, g_mods_timeout, P01, replies, lost,
                 disturbed>>

MODS_Poll ==
  \/ PollSeesTimeout \/ PollClearsTimeout \/ PollChecksLength
  \/ PollChecksFrame \/ MODS_AnalyzeApp \/ PollResetsCount

Next == MODS_ReciveNew \/ LoseByte \/ Timer1Handler \/ MODS_Poll

(* The main loop calls MODS_Poll again and again, and a timer that counts  *)
(* expires; the bus owes nothing.                                          *)
Spec == Init /\ [][Next]_vars /\ WF_vars(MODS_Poll) /\ WF_vars(Timer1Handler)

-----------------------------------------------------------------------------
IsWrite(f) ==
  Len(Frames[f]) = 8 /\ Frames[f][1] = g_ID /\ Frames[f][2] = 6

(* The register changes only to the value a write addressed to this slave  *)
(* carries, all of whose bytes arrived: whatever the bus delivers while    *)
(* MODS_Poll runs, no request is put together from parts of two frames.    *)
WriteWasRequested ==
  [][P01' # P01 =>
       \E f \in 1 .. frame :
         /\ IsWrite(f) /\ \A b \in lost : b.f # f
         /\ 256 * Frames[f][5] + Frames[f][6] = P01']_vars

(* Only a whole frame that carries this slave's address is answered, with  *)
(* its own function code, and none twice: bytes of another frame that      *)
(* arrive in the middle of MODS_Poll change neither.                       *)
AnswersAreOwn ==
  /\ \A r \in 1 .. Len(replies) : LET f == replies[r].to IN
       /\ Frames[f][1] = g_ID /\ replies[r].function = Frames[f][2]
       /\ \A b \in lost : b.f # f
  /\ \A r, q \in 1 .. Len(replies) : r < q => replies[r].to < replies[q].to

Whole(f) == /\ frame > f \/ (frame = f /\ pos = Len(Frames[f]))
            /\ \A b \in lost : b.f # f

Answered(f) == \E r \in 1 .. Len(replies) : replies[r].to = f

IsForMe(f) ==
  Frames[f][1] = g_ID /\ Len(Frames[f]) \in 4 .. S_RX_BUF_SIZE

(* A frame of at least four bytes for this slave that arrives whole is     *)
(* answered, unless bytes came too early for it: the raised flag is never  *)
(* missed, and neither a frame that was cut short nor one longer than      *)
(* RxBuf spoils a later one.                                               *)
AnsweredUnlessDisturbed ==
  \A f \in 1 .. Len(Frames) :
    IsForMe(f) => (Whole(f) ~> (Answered(f) \/ f \in disturbed))

(* A write of eight bytes to the register, with a value up to 5, is        *)
(* accepted if it is answered, unless a byte came while MODS_Poll was at   *)
(* work: MODS_06H takes the length from RxCount anew.                      *)
GoodWriteAccepted ==
  \A r \in 1 .. Len(replies) : LET f == replies[r].to IN
    IsWrite(f) /\ 256 * Frames[f][3] + Frames[f][4] = SLAVE_REG_P01
      /\ 256 * Frames[f][5] + Frames[f][6] <= 5 /\ f \notin disturbed
    => replies[r].code = RSP_OK

(* "The counter must be cleared, for the synchronisation of the next       *)
(* frame": RxBuf starts with the first byte of a frame, unless the line    *)
(* lost that byte or MODS_Poll cleared it away with the frame before.      *)
FrameSync ==
  RxBuf # <<>> =>
    \/ RxBuf[1].i = 1
    \/ RxBuf[1].f \in disturbed
    \/ \A i \in 1 .. RxBuf[1].i - 1 : [f |-> RxBuf[1].f, i |-> i] \in lost

=============================================================================
