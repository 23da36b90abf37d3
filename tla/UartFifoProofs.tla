--------------------------- MODULE UartFifoProofs ---------------------------
(***************************************************************************)
(* What holds of the two rings of uartlite_fifo.c: of the transmit FIFO    *)
(* for every ring size, every set of message lengths and any number of     *)
(* messages, and of the receive FIFO, which implements ByteFifo, for every *)
(* ring size and however many bytes arrive.                                *)
(***************************************************************************)
EXTENDS UartTxFifo, UartRxFifo, Integers, SequenceTheorems, TLAPS

-----------------------------------------------------------------------------
(* Transmit.                                                               *)

(* Room found by the masked read is still there when the byte is stored    *)
(* and counted: between the two only the handler runs, and it removes.     *)
RoomKept ==
  /\ pc \in {"store", "count"} => usTxCount < TxBufSize
  /\ pc \in {"wait", "store", "count"} => todo > 0

CountInv == TypeOK /\ RoomKept

LEMMA WrapStays == \A i \in Index \cup {TxBufSize} : Wrap(i) \in Index
  BY TxBufAssumption DEF Index, Wrap

LEMMA CountInit == Init => CountInv
<1> SUFFICES ASSUME Init PROVE CountInv
  OBVIOUS
<1>1. pTxBuf \in [Index -> Nat] /\ 0 \in Index
  BY TxBufAssumption DEF Init, Index, Foreign
<1>2. fifo \in Seq(Nat) /\ wire \in Seq(Nat) /\ starts \in Seq(Nat)
  BY EmptySeq DEF Init
<1>3. usTxRead # TxBufSize /\ usTxCount \in 0 .. TxBufSize
  BY TxBufAssumption DEF Init
<1>4. TypeOK
  BY <1>1, <1>2, <1>3 DEF Init, TypeOK
<1> QED BY <1>4 DEF Init, CountInv, RoomKept

(* Each step of the main loop, of the handler and of the UART keeps every  *)
(* index inside the ring and the count within its size.                    *)
LEMMA CountStep == CountInv /\ [Next]_vars => CountInv'
<1> SUFFICES ASSUME CountInv, [Next]_vars PROVE CountInv'
  OBVIOUS
<1> USE TxBufAssumption, WrapStays DEF CountInv, TypeOK, RoomKept, ring, hw, past
<1>1. ASSUME NEW n \in Lens, ComSendBuf(n) PROVE CountInv'
  BY <1>1 DEF ComSendBuf, MainRuns
<1>2. CASE FindRoom
  BY <1>2 DEF FindRoom, HasRoom, MainRuns
<1>3. CASE StoreByte
  <2>1. pTxBuf' \in [Index -> Nat]
    BY <1>3 DEF StoreByte
  <2>2. QED BY <1>3, <2>1 DEF StoreByte, MainRuns
<1>4. CASE CountByte
  BY <1>4 DEF CountByte, MainRuns
<1>5. CASE Kick
  BY <1>5 DEF Kick, MainRuns
<1>6. CASE Bump
  <2>1. usTxRead' = reg + 1 /\ reg + 1 \in 1 .. TxBufSize
        /\ pc' = IF reg + 1 = TxBufSize THEN "wrap" ELSE "idle"
    <3>1. /\ usTxRead' = reg + 1
          /\ pc' = IF reg + 1 >= TxBufSize THEN "wrap" ELSE "idle"
      BY <1>6 DEF Bump
    <3>2. reg \in 0 .. TxBufSize - 1
      BY DEF Index
    <3>3. reg + 1 \in 1 .. TxBufSize /\ (reg + 1 >= TxBufSize <=> reg + 1 = TxBufSize)
      BY <3>2, TxBufAssumption
    <3> QED BY <3>1, <3>3
  <2>2. usTxRead' \in Index \cup {TxBufSize} /\ (usTxRead' = TxBufSize => pc' = "wrap")
    BY <2>1 DEF Index
  <2> QED BY <1>6, <2>1, <2>2 DEF Bump, MainRuns
<1>7. CASE TxIrq
  <2>1. usTxCount' \in 0 .. TxBufSize /\ usTxCount' <= usTxCount
    BY <1>7 DEF TxIrq, CountAtEntry
  <2>2. requested' \in BOOLEAN /\ txIrq' \in BOOLEAN
    BY <1>7 DEF TxIrq
  <2>3. isr' \in {"off", "loop", "sleep"}
    BY <1>7 DEF TxIrq
  <2>4. QED BY <1>7, <2>1, <2>2, <2>3 DEF TxIrq
<1>8. CASE IsrSendNext
  <2>1. ByteAt(usTxRead) \in Nat
    BY DEF ByteAt, Foreign
  <2>2. fifo' \in Seq(Nat)
    BY <1>8, <2>1 DEF IsrSendNext, AfterByte, XUartLite_Send
  <2>3. usTxCount' \in 0 .. TxBufSize /\ usTxCount' <= usTxCount
    BY <1>8 DEF IsrSendNext, AfterByte
  <2>4. usTxRead' \in Index /\ usTxRead' # TxBufSize
    <3>1. usTxRead' = Wrap(usTxRead)
      BY <1>8 DEF IsrSendNext
    <3>2. \A i \in Index : i # TxBufSize
      BY DEF Index
    <3> QED BY <3>1, <3>2
  <2>5. torn' \in Nat
    BY <1>8, LenProperties DEF IsrSendNext
  <2>6. QED BY <1>8, <2>2, <2>3, <2>4, <2>5 DEF IsrSendNext, AfterByte, XUartLite_Send
<1>9. CASE IsrSleep
  BY <1>9 DEF IsrSleep
<1>10. CASE IsrSendOver
  BY <1>10 DEF IsrSendOver, SendOver
<1>11. CASE LoadShift
  <2>1. Head(fifo) \in Nat /\ Tail(fifo) \in Seq(Nat)
    BY <1>11 DEF LoadShift
  <2>2. QED BY <1>11, <2>1 DEF LoadShift
<1>12. CASE ShiftOut
  BY <1>12 DEF ShiftOut, NoByte
<1>13. CASE UNCHANGED vars
  BY <1>13 DEF vars
<1>14. CASE SendFirst
  <2>1. pTxBuf[reg] \in Nat
    OBVIOUS
  <2>2. fifo' \in Seq(Nat)
    BY <1>14, <2>1 DEF SendFirst, XUartLite_Send
  <2>3. QED BY <1>14, <2>2 DEF SendFirst, XUartLite_Send, MainRuns
<1>15. CASE LoadRead
  BY <1>15 DEF LoadRead, MainRuns
<1>16. CASE BumpToStart
  <2>1. usTxRead' = 0 /\ usTxRead' \in Index /\ usTxRead' # TxBufSize
    BY <1>16 DEF BumpToStart, Index
  <2> QED BY <1>16, <2>1 DEF BumpToStart, MainRuns
<1> HIDE DEF CountInv, TypeOK, RoomKept, ring, hw, past
<1>17. QED
  BY <1>1, <1>2, <1>3, <1>4, <1>5, <1>6, <1>7, <1>8, <1>9, <1>10, <1>11,
     <1>12, <1>13, <1>14, <1>15, <1>16 DEF Next, Main, Isr, Uart

(* Whatever the handler interrupts, usTxCount never exceeds the ring's     *)
(* size and usTxRead and usTxWrite index the ring; the one moment at which *)
(* usTxRead stands behind it is between the last two stores of a kick.     *)
THEOREM TypeCorrect == Spec => []TypeOK
<1>1. CountInv => TypeOK
  BY DEF CountInv
<1>2. QED
  BY <1>1, CountInit, CountStep, PTL DEF Spec

-----------------------------------------------------------------------------
(* The rest is about messages that do not overlap.  Three invariants carry *)
(* it.  Where says which of the main loop, the handler and the UART can be *)
(* busy at once: while comSendBuf fills the ring nothing else is, a byte   *)
(* in the FIFO or a pending interrupt is always a request of the driver's, *)
(* and with no handler running a non-empty count means that the interrupt  *)
(* of the kick is still to come.                                           *)
Where ==
  /\ Filling => isr = "off" /\ ~requested
  /\ requested => txIrq \/ fifo # <<>>
  /\ txIrq \/ fifo # <<>> => requested
  /\ isr = "off" /\ txIrq => fifo = <<>>
  /\ isr = "off" /\ ~Filling => (usTxCount # 0 => requested)
  /\ isr = "off" /\ fifo # <<>> => usTxCount # 0
  /\ pc \in {"kick", "send"} => usTxCount # 0

(* The bus is driven while bytes are on their way through the ring, and    *)
(* released when the handler has found the ring empty.                     *)
Driven ==
  Filling \/ usTxCount # 0 \/ fifo # <<>> => dir = "out"

BusInv ==
  /\ Driven
  /\ isr = "off" /\ ~Filling /\ usTxCount = 0 => dir = "in"

(* The first message in which the handler advances usTxRead between the    *)
(* load and the last store of UartSend: its handler does not stop before   *)
(* the ring is empty, and only then UartSend stores the stale index.       *)
Tearing ==
  /\ torn <= Len(starts)
  /\ pc # "idle" => Len(starts) > 0
  /\ torn # 0 /\ torn = Len(starts) => ~Filling /\ (isr = "off" => usTxCount = 0)

(* Until then the copy of usTxRead that UartSend holds is up to date, and  *)
(* between its last two stores usTxRead stands behind the ring's end.      *)
Copy ==
  torn = 0 => /\ pc \in {"send", "bump"} => reg = usTxRead
              /\ pc = "wrap" => usTxRead = TxBufSize

(* usTxRead is where it should be for as long as no stale index has been   *)
(* stored: the handler that makes the copy stale still reads on in order.  *)
Coherent == torn = 0 \/ (torn = Len(starts) /\ isr # "off" /\ usTxCount # 0)

Place == IF usTxRead = TxBufSize THEN 0 ELSE usTxRead

(* The handler runs before UartSend has stepped over the kick's byte, or   *)
(* has read behind the ring's end where it should have read at its start.  *)
Late == pc \in {"load", "bump"} \/ (pc = "wrap" /\ usTxRead # TxBufSize)

(* How far usTxRead + usTxCount is from usTxWrite: the kick's byte leaves  *)
(* usTxRead behind when the handler has counted it before UartSend steps   *)
(* over it, and puts usTxRead ahead when UartSend comes first.             *)
Behind ==
  IF Late
  THEN IF pc # "wrap" /\ isr = "off" /\ usTxCount # 0 THEN 0 ELSE 1
  ELSE IF pc \in {"idle", "wrap"} /\ isr = "off" /\ usTxCount # 0 THEN -1 ELSE 0

InPlace ==
  /\ usTxCount + Behind <= TxBufSize
  /\ \/ Place + usTxCount + Behind = usTxWrite
     \/ Place + usTxCount + Behind = usTxWrite + TxBufSize

Aligned == Coherent => InPlace

QuietInv == CountInv /\ Where /\ BusInv /\ Tearing /\ Copy /\ Aligned

(* The FIFO empties exactly when its only byte moves on.                   *)
LEMMA TailEmpty ==
  ASSUME NEW s \in Seq(Nat), s # <<>> PROVE Tail(s) = <<>> <=> Len(s) = 1
<1>1. Tail(s) \in Seq(Nat) /\ Len(Tail(s)) = Len(s) - 1
  BY HeadTailProperties
<1>2. Tail(s) = <<>> <=> Len(Tail(s)) = 0
  BY <1>1, EmptySeq
<1>3. Len(s) \in Nat
  BY LenProperties
<1>4. QED BY <1>1, <1>2, <1>3

LEMMA QuietInit == Init => QuietInv
<1> SUFFICES ASSUME Init PROVE QuietInv
  OBVIOUS
<1>1. CountInv
  BY CountInit
<1>2. Where
  BY DEF Init, Where, Filling
<1>3. BusInv
  BY DEF Init, BusInv, Driven, Filling
<1>4. Aligned
  BY TxBufAssumption DEF Init, Aligned, InPlace, Behind, Late, Place
<1>5. Tearing /\ Copy
  BY EmptySeq DEF Init, Tearing, Copy
<1>6. QED BY <1>1, <1>2, <1>3, <1>4, <1>5 DEF QuietInv

(* Main loop, handler and UART stay out of each other's way.              *)
LEMMA WhereStep ==
  ASSUME QuietInv, [Next]_vars, ~overlapped' PROVE Where'
<1> USE TxBufAssumption DEF QuietInv, CountInv, TypeOK, RoomKept, Where, Filling, ring, hw, past
<1>1. ASSUME NEW n \in Lens, ComSendBuf(n) PROVE Where'
  BY <1>1 DEF ComSendBuf, MainRuns, Quiet
<1>2. CASE FindRoom
  BY <1>2 DEF FindRoom, MainRuns
<1>3. CASE StoreByte
  BY <1>3 DEF StoreByte, MainRuns
<1>4. CASE CountByte
  BY <1>4 DEF CountByte, MainRuns, Wrap
<1>5. CASE Kick
  BY <1>5 DEF Kick, MainRuns
<1>6. CASE Bump
  BY <1>6 DEF Bump, MainRuns, Wrap
<1>7. CASE TxIrq
  BY <1>7 DEF TxIrq, CountAtEntry
<1>8. CASE IsrSendNext
  BY <1>8 DEF IsrSendNext, AfterByte, XUartLite_Send, Wrap
<1>9. CASE IsrSleep
  BY <1>9 DEF IsrSleep
<1>10. CASE IsrSendOver
  BY <1>10 DEF IsrSendOver, AllHandedOver, SendOver
<1>11. CASE LoadShift
  <2>1. fifo' = <<>> <=> Len(fifo) = 1
    BY <1>11, TailEmpty DEF LoadShift
  <2>2. QED BY <1>11, <2>1 DEF LoadShift
<1>12. CASE ShiftOut
  BY <1>12 DEF ShiftOut
<1>13. CASE UNCHANGED vars
  BY <1>13 DEF vars
<1>14. CASE SendFirst
  BY <1>14 DEF SendFirst, MainRuns, XUartLite_Send
<1>15. CASE LoadRead
  BY <1>15 DEF LoadRead, MainRuns
<1>16. CASE BumpToStart
  BY <1>16 DEF BumpToStart, MainRuns
<1>17. QED
  BY <1>1, <1>2, <1>3, <1>4, <1>5, <1>6, <1>7, <1>8, <1>9, <1>10, <1>11,
     <1>12, <1>13, <1>14, <1>15, <1>16 DEF Next, Main, Isr, Uart

(* No step releases the bus early, and the last one of a message does.    *)
LEMMA BusStep ==
  ASSUME QuietInv, [Next]_vars, ~overlapped' PROVE BusInv'
<1> USE TxBufAssumption DEF QuietInv, CountInv, TypeOK, RoomKept, Where, BusInv, Driven, Filling, ring, hw, past
<1>1. ASSUME NEW n \in Lens, ComSendBuf(n) PROVE BusInv'
  BY <1>1 DEF ComSendBuf, MainRuns, Quiet
<1>2. CASE FindRoom
  BY <1>2 DEF FindRoom, MainRuns
<1>3. CASE StoreByte
  BY <1>3 DEF StoreByte, MainRuns
<1>4. CASE CountByte
  BY <1>4 DEF CountByte, MainRuns, Wrap
<1>5. CASE Kick
  BY <1>5 DEF Kick, MainRuns
<1>6. CASE Bump
  BY <1>6 DEF Bump, MainRuns, Wrap
<1>7. CASE TxIrq
  BY <1>7 DEF TxIrq, CountAtEntry
<1>8. CASE IsrSendNext
  BY <1>8 DEF IsrSendNext, AfterByte, XUartLite_Send, Wrap
<1>9. CASE IsrSleep
  BY <1>9 DEF IsrSleep
<1>10. CASE IsrSendOver
  BY <1>10 DEF IsrSendOver, AllHandedOver, SendOver
<1>11. CASE LoadShift
  BY <1>11 DEF LoadShift
<1>12. CASE ShiftOut
  BY <1>12 DEF ShiftOut
<1>13. CASE UNCHANGED vars
  BY <1>13 DEF vars
<1>14. CASE SendFirst
  BY <1>14 DEF SendFirst, MainRuns, XUartLite_Send
<1>15. CASE LoadRead
  BY <1>15 DEF LoadRead, MainRuns
<1>16. CASE BumpToStart
  BY <1>16 DEF BumpToStart, MainRuns
<1>17. QED
  BY <1>1, <1>2, <1>3, <1>4, <1>5, <1>6, <1>7, <1>8, <1>9, <1>10, <1>11,
     <1>12, <1>13, <1>14, <1>15, <1>16 DEF Next, Main, Isr, Uart

(* A message only tears while its own kick is under way.                   *)
LEMMA TearingStep ==
  ASSUME QuietInv, [Next]_vars, ~overlapped' PROVE Tearing'
<1> USE DEF QuietInv, CountInv, TypeOK, Where, Tearing, Filling, ring, hw, past
<1>0. Len(starts) \in Nat
  BY LenProperties
<1>1. ASSUME NEW n \in Lens, ComSendBuf(n) PROVE Tearing'
  <2>1. Len(starts') = Len(starts) + 1
    BY <1>1, AppendProperties DEF ComSendBuf
  <2>2. torn' = torn /\ torn \in Nat /\ torn <= Len(starts)
    BY <1>1 DEF ComSendBuf
  <2>3. torn' # Len(starts') /\ torn' <= Len(starts') /\ Len(starts') > 0
    BY <1>0, <2>1, <2>2
  <2> QED BY <2>3
<1>2. CASE FindRoom \/ StoreByte \/ CountByte \/ Kick \/ SendFirst
  BY <1>2 DEF FindRoom, StoreByte, CountByte, Kick, SendFirst, MainRuns
<1>3. CASE LoadRead \/ Bump \/ BumpToStart
  BY <1>3 DEF LoadRead, Bump, BumpToStart, MainRuns
<1>4. CASE TxIrq
  BY <1>4 DEF TxIrq, CountAtEntry
<1>5. CASE IsrSendNext
  <2>1. /\ isr = "loop" /\ isr' = "sleep" /\ UNCHANGED <<starts, pc>>
        /\ torn' = IF pc \in {"bump", "wrap"} /\ torn = 0 THEN Len(starts) ELSE torn
    BY <1>5 DEF IsrSendNext, AfterByte
  <2>2. torn' <= Len(starts') /\ ~Filling'
    BY <1>0, <2>1
  <2> QED BY <2>1, <2>2
<1>6. CASE IsrSleep \/ IsrSendOver
  BY <1>6 DEF IsrSleep, IsrSendOver, AllHandedOver
<1>7. CASE Uart
  BY <1>7 DEF Uart, LoadShift, ShiftOut
<1>8. CASE UNCHANGED vars
  BY <1>8 DEF vars
<1> QED
  BY <1>1, <1>2, <1>3, <1>4, <1>5, <1>6, <1>7, <1>8 DEF Next, Main, Isr

(* What advances usTxRead behind UartSend's back is a tear.                *)
LEMMA CopyStep ==
  ASSUME QuietInv, [Next]_vars, ~overlapped' PROVE Copy'
<1> USE DEF QuietInv, CountInv, TypeOK, Where, Tearing, Copy, Filling, ring, hw, past
<1>1. ASSUME NEW n \in Lens, ComSendBuf(n) PROVE Copy'
  BY <1>1 DEF ComSendBuf
<1>2. CASE FindRoom \/ StoreByte \/ CountByte \/ SendFirst
  BY <1>2 DEF FindRoom, StoreByte, CountByte, SendFirst
<1>3. CASE Kick \/ LoadRead
  BY <1>3 DEF Kick, LoadRead
<1>4. CASE Bump \/ BumpToStart
  <2>1. reg + 1 >= TxBufSize => reg + 1 = TxBufSize
    BY TxBufAssumption DEF Index
  <2> QED BY <1>4, <2>1 DEF Bump, BumpToStart
<1>5. CASE TxIrq
  BY <1>5 DEF TxIrq
<1>6. CASE IsrSendNext
  <2>1. pc' = pc /\ pc # "send" /\ Len(starts) \in Nat
    BY <1>6, LenProperties DEF IsrSendNext
  <2>2. pc \in {"bump", "wrap"} => torn' # 0
    BY <1>6, <2>1 DEF IsrSendNext
  <2> QED BY <2>1, <2>2
<1>7. CASE IsrSleep \/ IsrSendOver
  BY <1>7 DEF IsrSleep, IsrSendOver
<1>8. CASE Uart
  BY <1>8 DEF Uart, LoadShift, ShiftOut
<1>9. CASE UNCHANGED vars
  BY <1>9 DEF vars
<1> QED
  BY <1>1, <1>2, <1>3, <1>4, <1>5, <1>6, <1>7, <1>8, <1>9 DEF Next, Main, Isr

(* While no handler runs, no stale index was stored before the first tear. *)
LEMMA CoherentIdle ==
  ASSUME Coherent', isr' = "off", torn' = torn PROVE torn = 0 /\ Coherent
BY DEF Coherent

(* A step that moves neither the indices nor the count nor Behind.         *)
LEMMA SameInPlace ==
  ASSUME QuietInv, Coherent, Behind' = Behind,
         UNCHANGED <<usTxCount, usTxWrite, usTxRead>>
  PROVE  InPlace'
<1>1. Place' = Place
  BY DEF Place
<1>2. InPlace
  BY DEF QuietInv, Aligned
<1> QED BY <1>1, <1>2 DEF InPlace

(* Every advance of an index is matched by the count or by Behind.        *)
LEMMA AlignedStep ==
  ASSUME QuietInv, [Next]_vars, ~overlapped' PROVE Aligned'
<1> SUFFICES ASSUME Coherent' PROVE InPlace'
  BY DEF Aligned
<1>0. /\ TxBufSize \in Nat \ {0} /\ usTxCount \in 0 .. TxBufSize
      /\ usTxWrite \in 0 .. TxBufSize - 1 /\ reg \in 0 .. TxBufSize - 1
      /\ usTxRead \in 0 .. TxBufSize /\ (usTxRead = TxBufSize => pc = "wrap")
      /\ Place \in 0 .. TxBufSize - 1 /\ Behind \in {-1, 0, 1}
  BY TxBufAssumption DEF QuietInv, CountInv, TypeOK, Index, Place, Behind
<1>1. ASSUME NEW n \in Lens, ComSendBuf(n) PROVE InPlace'
  <2>1. Quiet /\ usTxCount = 0
    BY <1>1 DEF ComSendBuf, Quiet, MainRuns, QuietInv, Where, Filling
  <2>2. Coherent /\ Behind' = Behind
    BY <1>1, <2>1, CoherentIdle DEF ComSendBuf, Behind, Late, MainRuns, ring, Quiet
  <2> QED BY <1>1, <2>2, SameInPlace DEF ComSendBuf, ring
<1>2. CASE FindRoom \/ StoreByte \/ Kick
  <2>1. Coherent /\ Behind' = Behind
    BY <1>2, CoherentIdle
    DEF FindRoom, StoreByte, Kick, Behind, Late, MainRuns, ring, past
  <2> QED BY <1>2, <2>1, SameInPlace DEF FindRoom, StoreByte, Kick, ring
<1>3. CASE CountByte
  <2>1. /\ Behind = 0 /\ Behind' = 0 /\ Coherent /\ Place' = Place
        /\ usTxWrite' = Wrap(usTxWrite) /\ usTxCount' = usTxCount + 1
    BY <1>3, CoherentIdle DEF CountByte, Behind, Late, MainRuns, Place, past
  <2>2. usTxCount < TxBufSize
    BY <1>3 DEF CountByte, QuietInv, CountInv, RoomKept
  <2>3. \/ Place + usTxCount = usTxWrite
        \/ Place + usTxCount = usTxWrite + TxBufSize
    BY <1>0, <2>1 DEF QuietInv, Aligned, InPlace
  <2> QED BY <1>0, <2>1, <2>2, <2>3 DEF Wrap, InPlace
<1>4. CASE SendFirst
  <2>1. Coherent /\ Behind' = Behind
    BY <1>4, CoherentIdle
    DEF SendFirst, Behind, Late, MainRuns, ring, past, QuietInv, Where
  <2> QED BY <1>4, <2>1, SameInPlace DEF SendFirst, ring
<1>5. CASE LoadRead
  <2>1. Coherent /\ Behind' = Behind
    BY <1>5, CoherentIdle DEF LoadRead, Behind, Late, MainRuns, ring, past
  <2> QED BY <1>5, <2>1, SameInPlace DEF LoadRead, ring
<1>6. CASE Bump
  <2>1. /\ torn = 0 /\ Coherent /\ isr = "off" /\ isr' = "off" /\ pc = "bump"
        /\ UNCHANGED <<usTxCount, usTxWrite>>
    BY <1>6, CoherentIdle DEF Bump, MainRuns, past
  <2>2. reg = usTxRead /\ usTxRead < TxBufSize /\ Place = usTxRead
    BY <1>0, <2>1 DEF QuietInv, Copy, Place
  <2>3. /\ usTxRead' = usTxRead + 1
        /\ pc' = IF usTxRead + 1 = TxBufSize THEN "wrap" ELSE "idle"
    BY <1>0, <1>6, <2>2 DEF Bump
  <2>4. Place' = IF Place + 1 = TxBufSize THEN 0 ELSE Place + 1
    BY <2>2, <2>3 DEF Place
  <2>5. /\ ~Late' /\ Late /\ Behind \in {0, 1}
        /\ Behind = 1 \/ usTxCount >= 1
    BY <1>0, <2>1, <2>3 DEF Late, Behind
  <2>6. Behind' = Behind - 1
    BY <2>1, <2>3, <2>5 DEF Behind
  <2> QED BY <1>0, <2>1, <2>4, <2>5, <2>6 DEF QuietInv, Aligned, InPlace
<1>7. CASE BumpToStart
  <2>1. /\ torn = 0 /\ Coherent /\ isr = "off" /\ isr' = "off" /\ pc = "wrap"
        /\ pc' = "idle" /\ usTxRead' = 0 /\ UNCHANGED <<usTxCount, usTxWrite>>
    BY <1>7, CoherentIdle DEF BumpToStart, MainRuns, past
  <2>2. usTxRead = TxBufSize
    BY <2>1 DEF QuietInv, Copy
  <2>3. Place' = Place /\ Behind' = Behind
    BY <1>0, <2>1, <2>2 DEF Place, Behind, Late
  <2> QED BY <2>1, <2>3 DEF QuietInv, Aligned, InPlace
<1>8. CASE TxIrq
  <2>1. /\ requested /\ fifo = <<>> /\ isr = "off" /\ isr' = "loop"
        /\ usTxCount' = CountAtEntry /\ UNCHANGED <<usTxRead, usTxWrite, pc, torn, starts>>
    BY <1>8 DEF TxIrq, past, QuietInv, Where
  <2>2. Place' = Place /\ Late' = Late
    BY <2>1 DEF Place, Late
  <2>3. CASE usTxCount = 0
    <3>1. Behind' = Behind /\ usTxCount' = 0
      BY <2>1, <2>2, <2>3 DEF CountAtEntry, Behind
    <3>2. Coherent
      BY <2>1, <3>1 DEF Coherent
    <3> QED BY <2>1, <2>3, <3>1, <3>2, SameInPlace
  <2>4. CASE usTxCount # 0
    <3>1. torn = 0 /\ Coherent
      BY <2>1, <2>4 DEF Coherent, QuietInv, Tearing
    <3>2. usTxCount' = usTxCount - 1
      BY <2>1, <2>4 DEF CountAtEntry
    <3>3. pc = "wrap" => ~Late
      BY <3>1 DEF QuietInv, Copy, Late
    <3>4. pc \in {"idle", "load", "bump", "wrap"}
      BY <2>1 DEF QuietInv, Where, Filling, CountInv, TypeOK
    <3>5. Behind' = Behind + 1
      BY <2>1, <2>2, <2>4, <3>3, <3>4 DEF Behind, Late
    <3> QED BY <1>0, <2>2, <2>1, <3>1, <3>2, <3>5 DEF QuietInv, Aligned, InPlace
  <2> QED BY <2>3, <2>4
<1>9. CASE IsrSendNext
  <2>1. /\ isr = "loop" /\ isr' = "sleep" /\ usTxCount # 0
        /\ usTxCount' = usTxCount - 1 /\ usTxRead' = Wrap(usTxRead)
        /\ UNCHANGED <<usTxWrite, pc, starts>>
        /\ torn' = IF pc \in {"bump", "wrap"} /\ torn = 0 THEN Len(starts) ELSE torn
    BY <1>9 DEF IsrSendNext, AfterByte
  <2>2. Coherent
    BY <2>1 DEF Coherent
  <2>3. Behind \in {0, 1}
    BY <2>1 DEF Behind
  <2>4. CASE usTxRead = TxBufSize
    <3>1. pc = "wrap" /\ usTxRead' = 0 /\ Place = 0 /\ Place' = 0
      BY <1>0, <2>1, <2>4 DEF Wrap, Place
    <3>2. ~Late /\ Late'
      BY <1>0, <2>1, <2>4, <3>1 DEF Late
    <3>3. Behind = 0 /\ Behind' = 1
      BY <2>1, <3>1, <3>2 DEF Behind
    <3> QED BY <1>0, <2>1, <2>2, <3>1, <3>3 DEF QuietInv, Aligned, InPlace
  <2>5. CASE usTxRead # TxBufSize
    <3>1. usTxRead' \in 0 .. TxBufSize - 1 /\ Place = usTxRead /\ Place' = usTxRead'
      BY <1>0, <2>1, <2>5 DEF Wrap, Place
    <3>2. Late' = Late
      BY <1>0, <2>1, <2>5, <3>1 DEF Late
    <3>3. Behind' = Behind
      BY <2>1, <3>2 DEF Behind
    <3>4. Place' = IF Place + 1 = TxBufSize THEN 0 ELSE Place + 1
      BY <1>0, <2>1, <3>1 DEF Wrap
    <3> QED BY <1>0, <2>1, <2>2, <2>3, <3>3, <3>4 DEF QuietInv, Aligned, InPlace
  <2> QED BY <2>4, <2>5
<1>10. CASE IsrSleep
  <2>1. isr = "sleep" /\ isr' = "loop" /\ UNCHANGED <<ring, pc, torn, starts>>
    BY <1>10 DEF IsrSleep
  <2>2. Coherent /\ Behind' = Behind
    BY <2>1 DEF Coherent, Behind, Late, ring
  <2> QED BY <2>1, <2>2, SameInPlace DEF ring
<1>11. CASE IsrSendOver
  <2>1. /\ isr = "loop" /\ isr' = "off" /\ usTxCount = 0
        /\ UNCHANGED <<ring, pc, torn, starts>>
    BY <1>11 DEF IsrSendOver, AllHandedOver, past
  <2>2. Coherent /\ Behind' = Behind
    BY <2>1 DEF Coherent, Behind, Late, ring
  <2> QED BY <2>1, <2>2, SameInPlace DEF ring
<1>12. CASE Uart \/ UNCHANGED vars
  <2>1. UNCHANGED <<ring, isr, pc, torn, starts>>
    BY <1>12 DEF Uart, LoadShift, ShiftOut, vars, ring, past
  <2>2. Coherent /\ Behind' = Behind
    BY <2>1 DEF Coherent, Behind, Late, ring
  <2> QED BY <2>1, <2>2, SameInPlace DEF ring
<1> QED
  BY <1>1, <1>2, <1>3, <1>4, <1>5, <1>6, <1>7, <1>8, <1>9, <1>10, <1>11, <1>12
  DEF Next, Main, Isr

(* The four invariants are kept together, as long as no message overlaps.  *)
RestInv == CountInv /\ (~overlapped => QuietInv)

LEMMA RestInit == Init => RestInv
  BY CountInit, QuietInit DEF RestInv

LEMMA RestStep == RestInv /\ [Next]_vars => RestInv'
<1> SUFFICES ASSUME RestInv, [Next]_vars PROVE RestInv'
  OBVIOUS
<1>1. CountInv'
  BY CountStep DEF RestInv
<1>2. ASSUME ~overlapped' PROVE QuietInv'
  <2>1. ~overlapped
    <3>1. ASSUME NEW n \in Lens, ComSendBuf(n) PROVE overlapped => overlapped'
      BY <3>1 DEF ComSendBuf
    <3>2. CASE Main
      BY <1>2, <3>2
      DEF Main, FindRoom, StoreByte, CountByte, Kick, SendFirst, LoadRead, Bump,
          BumpToStart, past
    <3>3. CASE Isr
      BY <1>2, <3>3 DEF Isr, TxIrq, IsrSendNext, IsrSleep, IsrSendOver, past
    <3>4. CASE Uart
      BY <1>2, <3>4 DEF Uart, LoadShift, ShiftOut, past
    <3>5. CASE UNCHANGED vars
      BY <1>2, <3>5 DEF vars
    <3>6. QED BY <1>2, <3>1, <3>2, <3>3, <3>4, <3>5 DEF Next
  <2>2. QuietInv
    BY <2>1 DEF RestInv
  <2>3. QED BY <1>1, <1>2, <2>2, WhereStep, BusStep, TearingStep, CopyStep,
                  AlignedStep
           DEF QuietInv
<1>3. QED BY <1>1, <1>2 DEF RestInv

(* When messages do not overlap, every exchange ends with an empty ring    *)
(* and the bus released, and, until the first one in which the handler     *)
(* advances usTxRead while UartSend holds a copy of it, with the indices   *)
(* together, whatever the ring's size and the lengths of the messages.     *)
THEOREM QuietIsAligned == Spec => []AlignedWhenQuiet
<1>1. RestInv => AlignedWhenQuiet
  <2> SUFFICES ASSUME QuietInv, Quiet
               PROVE  /\ usTxCount = 0 /\ dir = "in"
                      /\ torn = 0 => usTxRead = usTxWrite
    BY DEF AlignedWhenQuiet, RestInv
  <2>1. usTxCount = 0 /\ dir = "in"
    BY DEF QuietInv, Where, BusInv, Filling, Quiet, MainRuns
  <2>2. ASSUME torn = 0 PROVE usTxRead = usTxWrite
    <3>1. Behind = 0 /\ Place = usTxRead /\ Coherent
      BY <2>1, <2>2 DEF Behind, Late, Quiet, Coherent, Place, QuietInv, CountInv, TypeOK
    <3> QED
      BY <2>1, <3>1, TxBufAssumption
      DEF QuietInv, CountInv, TypeOK, Aligned, InPlace, Index, Quiet
  <2>3. QED
    BY <2>1, <2>2
<1>2. QED
  BY <1>1, RestInit, RestStep, PTL DEF Spec

(* The transceiver never turns to input while a byte is in the ring or in  *)
(* the FIFO of the UART, nor while comSendBuf is still filling the ring.   *)
THEOREM BusIsDriven == Spec => []DrivenWhileQueued
<1>1. RestInv => DrivenWhileQueued
  BY DEF RestInv, QuietInv, BusInv, Driven, DrivenWhileQueued
<1>2. QED
  BY <1>1, RestInit, RestStep, PTL DEF Spec

-----------------------------------------------------------------------------
(* The end of a message.  The bus is given back with the line idle because *)
(* the handler counts no byte but the first one at its entry: unless that  *)
(* was the whole message, it has slept after the last byte it sent.        *)
Long == starts[Len(starts)] # next - 1

EndInv ==
  /\ pc # "idle" \/ usTxCount # 0 => starts # <<>>
  /\ pc \in {"wait", "store", "kick", "send"}
       => starts[Len(starts)] = next - usTxCount
  /\ pc = "count" => starts[Len(starts)] = next - 1 - usTxCount
  /\ isr = "off" /\ ~Filling /\ usTxCount # 0
       => starts[Len(starts)] = next - usTxCount
  /\ isr = "loop" /\ usTxCount = 0 /\ Long /\ ~rushed
       => fifo = <<>> /\ shift = NoByte
  /\ shift # NoByte /\ Long /\ ~rushed => dir = "out"

-----------------------------------------------------------------------------
(* What the line carries.  A byte's slot in the ring is its number's       *)
(* remainder, so that the read index tells which byte is sent next: with   *)
(* Behind it is the one after the last sent or, when the handler came      *)
(* before UartSend stepped over the kick's byte, that one again.           *)
Slot(b) == (b - 1) % TxBufSize

RingInv ==
  /\ usTxWrite = Slot(IF pc = "count" THEN next - 1 ELSE next)
  /\ pc = "count" => next # 1
  /\ \A b \in Nat \ {0} :
       next - TxBufSize <= b /\ b < next => pTxBuf[Slot(b)] = b

(* All bytes that ever entered the UART.                                   *)
Held == IF shift = NoByte THEN <<>> ELSE <<shift>>
Stream == (wire \o Held) \o fifo

InOrder(f, l)    == \A k \in f .. l : Stream[k] = k
FirstTwice(f, l) ==
  \A k \in f .. l : IF k = f THEN Stream[k] = f
                    ELSE \/ Stream[k] = k - 1
                         \/ k = f + 1 /\ Stream[k] = Foreign

Sent == Len(Stream)

Whole(f, l) == InOrder(f, l) \/ FirstTwice(f, l)

(* How many bytes have entered the UART.                                   *)
SentSoFar ==
  /\ \A m \in 1 .. Len(starts) : starts[m] \in 1 .. Sent + 1
  /\ Sent = IF Filling THEN starts[Len(starts)] - 1
            ELSE IF isr = "off" /\ usTxCount # 0 THEN starts[Len(starts)]
            ELSE next - 1 - usTxCount
  /\ isr # "off" /\ usTxCount # 0 => starts[Len(starts)] <= Sent
  /\ isr # "off" /\ usTxCount # 0 /\ usTxRead = TxBufSize
       => starts[Len(starts)] = Sent

(* What became of the messages before the last, and of the last one, up to *)
(* the first that tears.                                                   *)
OldMessages ==
  \A m \in 1 .. Len(starts) - 1 :
    torn = 0 \/ m <= torn => Whole(starts[m], starts[m + 1] - 1)

LastMessage ==
  starts # <<>> /\ (torn = 0 \/ torn = Len(starts)) =>
    LET S == starts[Len(starts)] IN
    IF isr # "off" /\ usTxCount # 0
    THEN IF Late THEN FirstTwice(S, Sent) ELSE InOrder(S, Sent)
    ELSE Whole(S, Sent)

StreamInv == SentSoFar /\ OldMessages /\ LastMessage

LineInv == RingInv /\ (~overlapped => EndInv /\ StreamInv)

(* Before a step that messages do not overlap in, none had overlapped.     *)
LEMMA OverlapStays ==
  ASSUME [Next]_vars, ~overlapped', CountInv PROVE ~overlapped
<1>1. ASSUME NEW n \in Lens, ComSendBuf(n) PROVE overlapped => overlapped'
  BY <1>1 DEF ComSendBuf
<1>2. CASE Main
  BY <1>2
  DEF Main, FindRoom, StoreByte, CountByte, Kick, SendFirst, LoadRead, Bump,
      BumpToStart, past
<1>3. CASE Isr
  BY <1>3 DEF Isr, TxIrq, IsrSendNext, IsrSleep, IsrSendOver, past
<1>4. CASE Uart
  BY <1>4 DEF Uart, LoadShift, ShiftOut, past
<1>5. CASE UNCHANGED vars
  BY <1>5 DEF vars
<1>6. QED BY <1>1, <1>2, <1>3, <1>4, <1>5 DEF Next

LEMMA LastAppended ==
  ASSUME NEW s \in Seq(Nat), NEW x \in Nat
  PROVE  /\ Append(s, x) # <<>> /\ Append(s, x) \in Seq(Nat)
         /\ Len(Append(s, x)) = Len(s) + 1 /\ Len(s) \in Nat
         /\ Append(s, x)[Len(Append(s, x))] = x
         /\ \A m \in 1 .. Len(s) : Append(s, x)[m] = s[m]
BY AppendProperties, LenProperties

LEMMA EndStep ==
  ASSUME QuietInv, EndInv, [Next]_vars, ~overlapped' PROVE EndInv'
<1> USE TxBufAssumption DEF QuietInv, CountInv, TypeOK, RoomKept, Where, BusInv,
      Driven, EndInv, Long, Filling, ring, hw, past
<1>1. ASSUME NEW n \in Lens, ComSendBuf(n) PROVE EndInv'
  <2>1. starts'[Len(starts')] = next /\ starts' # <<>>
    BY <1>1, LastAppended DEF ComSendBuf
  <2>2. Quiet /\ usTxCount = 0
    BY <1>1 DEF ComSendBuf, MainRuns, Quiet
  <2>3. QED BY <1>1, <2>1, <2>2 DEF ComSendBuf, Quiet, MainRuns
<1>2. CASE FindRoom
  BY <1>2 DEF FindRoom, MainRuns
<1>3. CASE StoreByte
  BY <1>3 DEF StoreByte, MainRuns
<1>4. CASE CountByte
  BY <1>4 DEF CountByte, MainRuns
<1>5. CASE Kick
  BY <1>5 DEF Kick, MainRuns
<1>6. CASE Bump
  BY <1>6 DEF Bump, MainRuns
<1>7. CASE TxIrq
  BY <1>7 DEF TxIrq, CountAtEntry
<1>8. CASE IsrSendNext
  BY <1>8 DEF IsrSendNext, AfterByte, XUartLite_Send
<1>9. CASE IsrSleep
  BY <1>9 DEF IsrSleep
<1>10. CASE IsrSendOver
  BY <1>10 DEF IsrSendOver, AllHandedOver, SendOver
<1>11. CASE LoadShift
  <2>1. fifo # <<>> /\ dir = "out"
    BY <1>11 DEF LoadShift
  <2>2. QED BY <1>11, <2>1 DEF LoadShift
<1>12. CASE ShiftOut
  BY <1>12 DEF ShiftOut
<1>13. CASE UNCHANGED vars
  BY <1>13 DEF vars
<1>14. CASE SendFirst
  BY <1>14 DEF SendFirst, MainRuns, XUartLite_Send
<1>15. CASE LoadRead
  BY <1>15 DEF LoadRead, MainRuns
<1>16. CASE BumpToStart
  BY <1>16 DEF BumpToStart, MainRuns
<1>17. QED
  BY <1>1, <1>2, <1>3, <1>4, <1>5, <1>6, <1>7, <1>8, <1>9, <1>10, <1>11,
     <1>12, <1>13, <1>14, <1>15, <1>16 DEF Next, Main, Isr, Uart

(* Quotients and remainders.                                               *)
LEMMA DivMod ==
  ASSUME NEW n \in Nat, NEW P \in Nat \ {0}
  PROVE  /\ n \div P \in Nat /\ n % P \in Nat /\ n % P < P
         /\ n = (n \div P) * P + (n % P)
OBVIOUS

LEMMA OneQuotient ==
  ASSUME NEW P \in Nat \ {0}, NEW q \in Nat, NEW r \in Nat, NEW a \in Nat,
         NEW b \in Nat, r < P, b < P, q * P + r = a * P + b
  PROVE  q = a /\ r = b
<1>1. CASE q < a
  <2>1. a * P >= (q + 1) * P BY <1>1
  <2> QED BY <2>1
<1>2. CASE a < q
  <2>1. q * P >= (a + 1) * P BY <1>2
  <2> QED BY <2>1
<1> QED BY <1>1, <1>2

LEMMA Parts ==
  ASSUME NEW P \in Nat \ {0}, NEW q \in Nat, NEW r \in Nat, r < P
  PROVE  (q * P + r) \div P = q /\ (q * P + r) % P = r
<1> DEFINE n == q * P + r
<1>1. n \in Nat OBVIOUS
<1>2. n = q * P + r OBVIOUS
<1> HIDE DEF n
<1>3. /\ n \div P \in Nat /\ n % P \in Nat /\ n % P < P
      /\ n = (n \div P) * P + (n % P)
  BY <1>1, DivMod
<1>4. n \div P = q /\ n % P = r
  BY <1>2, <1>3, OneQuotient
<1> QED BY <1>2, <1>4

(* Remainders: where the ring wraps, and that the last bytes have slots of *)
(* their own.                                                              *)
LEMMA SlotNext ==
  ASSUME NEW b \in Nat \ {0}
  PROVE  /\ Slot(b) \in Index
         /\ Slot(b + 1) = Wrap(Slot(b))
<1> DEFINE P == TxBufSize   q == (b - 1) \div P   r == (b - 1) % P
<1>1. P \in Nat \ {0} /\ b - 1 \in Nat
  BY TxBufAssumption
<1>2. q \in Nat /\ r \in Nat /\ r < P /\ b - 1 = q * P + r
  BY <1>1, DivMod
<1>3. Slot(b) = r /\ Slot(b + 1) = b % P
  BY <1>1 DEF Slot
<1> HIDE DEF P, q, r
<1>4. CASE r + 1 < P
  <2>1. b = q * P + (r + 1)
    BY <1>1, <1>2
  <2>2. b % P = r + 1
    BY <1>1, <1>2, <1>4, <2>1, Parts
  <2> QED BY <1>1, <1>2, <1>3, <1>4, <2>2 DEF Wrap, Index, P
<1>5. CASE r + 1 = P
  <2>1. b = (q + 1) * P + 0
    BY <1>1, <1>2, <1>5
  <2>2. b % P = 0
    BY <1>1, <1>2, <2>1, Parts
  <2> QED BY <1>1, <1>2, <1>3, <1>5, <2>2 DEF Wrap, Index, P
<1> QED BY <1>1, <1>2, <1>4, <1>5

LEMMA SlotsApart ==
  ASSUME NEW b \in Nat \ {0}, NEW n \in Nat, b < n, n - TxBufSize < b
  PROVE  Slot(b) # Slot(n)
<1> DEFINE P == TxBufSize   q == (b - 1) \div P   r == (b - 1) % P
           e == (n - 1) \div P
<1> SUFFICES ASSUME Slot(b) = Slot(n) PROVE FALSE
  OBVIOUS
<1>1. P \in Nat \ {0} /\ b - 1 \in Nat /\ n - 1 \in Nat
  BY TxBufAssumption
<1>2. q \in Nat /\ r \in Nat /\ b - 1 = q * P + r
  BY <1>1, DivMod
<1>3. e \in Nat /\ n - 1 = e * P + r
  BY <1>1, DivMod DEF Slot
<1>4. n - b < P /\ 0 < n - b
  BY <1>1
<1> HIDE DEF P, q, r, e
<1>5. n - b = e * P - q * P
  BY <1>1, <1>2, <1>3
<1>6. CASE e <= q
  <2>1. e * P <= q * P BY <1>1, <1>2, <1>3, <1>6
  <2>2. e * P \in Nat /\ q * P \in Nat BY <1>1, <1>2, <1>3
  <2> QED BY <1>4, <1>5, <2>1, <2>2
<1>7. CASE q < e
  <2>1. e * P >= (q + 1) * P BY <1>1, <1>2, <1>3, <1>7
  <2>2. (q + 1) * P = q * P + P BY <1>1, <1>2
  <2>3. e * P \in Nat /\ q * P \in Nat BY <1>1, <1>2, <1>3
  <2> QED BY <1>1, <1>4, <1>5, <2>1, <2>2, <2>3
<1> QED BY <1>2, <1>3, <1>6, <1>7

LEMMA RingInit == Init => RingInv
<1> SUFFICES ASSUME Init PROVE RingInv
  OBVIOUS
<1>1. Slot(1) = 0
  <2>1. 0 * TxBufSize + 0 = 0 /\ TxBufSize \in Nat \ {0} BY TxBufAssumption
  <2>2. (0 * TxBufSize + 0) % TxBufSize = 0 BY <2>1, Parts
  <2> QED BY <2>1, <2>2 DEF Slot
<1>2. ~\E b \in Nat \ {0} : b < next
  BY DEF Init
<1> QED BY <1>1, <1>2 DEF Init, RingInv

(* Only StoreByte writes the ring, in the slot of the number it stores.    *)
LEMMA RingStep ==
  ASSUME CountInv, RingInv, [Next]_vars PROVE RingInv'
<1> USE TxBufAssumption DEF CountInv, TypeOK
<1>1. CASE StoreByte
  <2>1. /\ usTxWrite = Slot(next) /\ usTxWrite' = usTxWrite
        /\ next' = next + 1 /\ pc' = "count" /\ next \in Nat \ {0}
        /\ pTxBuf' = [pTxBuf EXCEPT ![Slot(next)] = next]
    BY <1>1 DEF StoreByte, RingInv
  <2>2. usTxWrite' = Slot(next' - 1)
    BY <2>1
  <2>3. ASSUME NEW b \in Nat \ {0}, next' - TxBufSize <= b, b < next'
        PROVE  pTxBuf'[Slot(b)] = b
    <3>1. CASE b = next
      <4>1. Slot(next) \in DOMAIN pTxBuf BY <2>1, SlotNext
      <4> QED BY <2>1, <3>1, <4>1
    <3>2. CASE b < next
      <4>1. Slot(b) # Slot(next)
        BY <2>1, <2>3, <3>2, SlotsApart
      <4>2. pTxBuf[Slot(b)] = b
        BY <2>1, <2>3, <3>2 DEF RingInv
      <4> QED BY <2>1, <4>1, <4>2
    <3> QED BY <2>1, <2>3, <3>1, <3>2
  <2> QED BY <2>1, <2>2, <2>3 DEF RingInv
<1>2. CASE CountByte
  <2>1. /\ next' = next /\ pTxBuf' = pTxBuf /\ pc' # "count"
        /\ usTxWrite' = Wrap(Slot(next - 1))
    BY <1>2 DEF CountByte, RingInv
  <2>2. pc = "count" /\ next # 1
    BY <1>2 DEF CountByte, RingInv
  <2>3. next - 1 \in Nat \ {0} /\ (next - 1) + 1 = next
    BY <2>2
  <2>4. usTxWrite' = Slot(next)
    BY <2>1, <2>3, SlotNext
  <2> QED BY <2>1, <2>4 DEF RingInv
<1>3. ASSUME UNCHANGED <<pTxBuf, usTxWrite, next>>, (pc' = "count") <=> (pc = "count")
      PROVE  RingInv'
  BY <1>3 DEF RingInv
<1>4. CASE FindRoom \/ Kick \/ SendFirst \/ LoadRead \/ Bump \/ BumpToStart
  BY <1>3, <1>4 DEF FindRoom, Kick, SendFirst, LoadRead, Bump, BumpToStart, ring
<1>5. CASE Isr
  BY <1>3, <1>5 DEF Isr, TxIrq, IsrSendNext, IsrSleep, IsrSendOver, ring
<1>6. CASE Uart
  BY <1>3, <1>6 DEF Uart, LoadShift, ShiftOut, ring
<1>7. CASE UNCHANGED vars
  BY <1>3, <1>7 DEF vars
<1>8. ASSUME NEW n \in Lens, ComSendBuf(n) PROVE RingInv'
  BY <1>3, <1>8 DEF ComSendBuf, ring
<1> QED
  BY <1>1, <1>2, <1>4, <1>5, <1>6, <1>7, <1>8 DEF Next, Main

-----------------------------------------------------------------------------
(* The byte that the read index is at.                                     *)
LEMMA NextByte ==
  ASSUME QuietInv, RingInv, usTxCount # 0, pc # "count",
         Coherent, Behind \in {0, 1}, NEW b \in Nat \ {0},
         b = next - usTxCount - Behind
  PROVE  pTxBuf[Place] = b
<1> DEFINE P == TxBufSize   n == usTxCount + Behind   w == usTxWrite
           r == Place   q == (next - 1) \div P
<1>1. /\ P \in Nat \ {0} /\ n \in Nat /\ n <= P /\ r \in Nat /\ r < P
      /\ r + n = w \/ r + n = w + P
      /\ next \in Nat \ {0} /\ b = next - n /\ w \in Nat /\ w < P
  BY TxBufAssumption DEF QuietInv, CountInv, TypeOK, Aligned, InPlace, Place, Index
<1>2. q \in Nat /\ next - 1 = q * P + w
  <2>1. next - 1 \in Nat BY <1>1
  <2>2. w = (next - 1) % P BY DEF RingInv, Slot
  <2> QED BY <1>1, <2>1, <2>2, DivMod
<1>3. pTxBuf[Slot(b)] = b
  <2>1. next - P <= b /\ b < next
    <3>1. n # 0 BY <1>1 DEF QuietInv, CountInv, TypeOK
    <3> HIDE DEF n, P
    <3> QED BY <1>1, <3>1
  <2> QED BY <2>1 DEF RingInv
<1> HIDE DEF P, n, w, r, q
<1>4. r = (b - 1) % P
  <2>0. q * P \in Nat BY <1>1, <1>2
  <2>1. CASE r + n = w
    <3>1. b - 1 = q * P + r
      <4> DEFINE t == q * P
      <4>1. t \in Nat /\ next - 1 = t + w BY <1>2, <2>0
      <4> HIDE DEF t
      <4>2. n = w - r /\ next = t + w + 1 BY <1>1, <2>1, <4>1
      <4>3. b = (t + w + 1) - (w - r) BY <1>1, <4>2
      <4>4. b - 1 = t + r BY <1>1, <4>1, <4>3
      <4> QED BY <4>4 DEF t
    <3>2. (q * P + r) % P = r BY <1>1, <1>2, Parts
    <3> QED BY <3>1, <3>2
  <2>2. CASE r + n = w + P
    <3>1. q # 0
      <4>1. q = 0 => q * P = 0 BY <1>1
      <4> QED BY <1>1, <1>2, <2>2, <4>1
    <3>2. q - 1 \in Nat /\ (q - 1) * P = q * P - P
      BY <1>1, <1>2, <3>1
    <3>3. b - 1 = (q - 1) * P + r BY <1>1, <1>2, <2>0, <2>2, <3>2
    <3>4. ((q - 1) * P + r) % P = r BY <1>1, <3>2, Parts
    <3> QED BY <3>3, <3>4
  <2> QED BY <1>1, <2>1, <2>2
<1> QED BY <1>3, <1>4 DEF Slot, P, r

(* What leaves the FIFO goes to the shift register and on to the wire; what*)
(* enters it comes last.                                                   *)
StreamTyped ==
  /\ fifo \in Seq(Nat) /\ wire \in Seq(Nat) /\ shift \in Nat \cup {NoByte}

LEMMA StreamIsSeq ==
  ASSUME StreamTyped
  PROVE  /\ Held \in Seq(Nat) /\ fifo \in Seq(Nat)
         /\ wire \o Held \in Seq(Nat) /\ Stream \in Seq(Nat) /\ Sent \in Nat
<1>1. Held \in Seq(Nat)
  BY EmptySeq DEF Held, StreamTyped
<1>2. fifo \in Seq(Nat)
  BY SeqMonotonic DEF StreamTyped
<1>3. wire \o Held \in Seq(Nat)
  BY <1>1, ConcatProperties DEF StreamTyped
<1>4. Stream \in Seq(Nat)
  BY <1>2, <1>3, ConcatProperties DEF Stream
<1> QED BY <1>1, <1>2, <1>3, <1>4, LenProperties DEF Sent

LEMMA Sending ==
  ASSUME StreamTyped, NEW b \in Nat, fifo' = Append(fifo, b),
         UNCHANGED <<wire, shift>>
  PROVE  Stream' = Append(Stream, b) /\ fifo' \in Seq(Nat)
<1> DEFINE w == wire \o Held
<1>1. w \in Seq(Nat) /\ fifo \in Seq(Nat) /\ w \o fifo \in Seq(Nat)
  BY StreamIsSeq DEF Stream
<1>2. <<b>> \in Seq(Nat)
  OBVIOUS
<1>3. fifo' = fifo \o <<b>>
  BY <1>1, AppendIsConcat
<1>4. Stream' = w \o (fifo \o <<b>>)
  BY <1>3 DEF Stream, Held
<1> HIDE DEF w
<1>5. w \o (fifo \o <<b>>) = (w \o fifo) \o <<b>>
  BY <1>1, <1>2, ConcatAssociative
<1>6. (w \o fifo) \o <<b>> = Append(w \o fifo, b)
  BY <1>1, AppendIsConcat
<1>7. fifo' \in Seq(Nat)
  BY AppendProperties DEF StreamTyped
<1> QED BY <1>4, <1>5, <1>6, <1>7 DEF Stream, w

LEMMA Shifting ==
  ASSUME StreamTyped, LoadShift \/ ShiftOut
  PROVE  Stream' = Stream /\ fifo' \in Seq(Nat)
<1>1. CASE LoadShift
  <2>1. /\ fifo # <<>> /\ shift = NoByte /\ shift' = Head(fifo)
        /\ fifo' = Tail(fifo) /\ wire' = wire
    BY <1>1 DEF LoadShift
  <2>2. /\ Head(fifo) \in Nat /\ Tail(fifo) \in Seq(Nat)
        /\ fifo \in Seq(Nat) /\ wire \in Seq(Nat)
    BY <2>1, HeadTailProperties, StreamIsSeq DEF StreamTyped
  <2>3. Tail(fifo) \in Seq(Nat) /\ <<Head(fifo)>> \in Seq(Nat)
    BY <2>2, SeqMonotonic
  <2>4. Held = <<>> /\ Held' = <<Head(fifo)>>
    BY <2>1, <2>2 DEF Held, NoByte
  <2>5. fifo = <<Head(fifo)>> \o Tail(fifo)
    BY <2>1, <2>2, <2>3, SeqEqual, ConcatProperties, HeadTailProperties
  <2>6. Stream = wire \o fifo
    BY <2>2, <2>4, ConcatEmptySeq DEF Stream
  <2>7. Stream' = (wire \o <<Head(fifo)>>) \o Tail(fifo)
    BY <2>1, <2>4 DEF Stream
  <2>8. Stream' = wire \o (<<Head(fifo)>> \o Tail(fifo))
    <3>1. \A u, v, w \in Seq(Nat) : (u \o v) \o w = u \o (v \o w)
      BY ConcatAssociative
    <3>2. wire \in Seq(Nat) /\ <<Head(fifo)>> \in Seq(Nat) /\ Tail(fifo) \in Seq(Nat)
      BY <2>2, <2>3
    <3> QED BY <2>7, <3>1, <3>2, Zenon
  <2> QED BY <2>1, <2>2, <2>5, <2>6, <2>8
<1>2. CASE ShiftOut
  <2>1. shift # NoByte /\ wire' = Append(wire, shift) /\ shift' = NoByte
        /\ fifo' = fifo
    BY <1>2 DEF ShiftOut, hw
  <2>2. Held = <<shift>> /\ Held' = <<>>
    BY <2>1 DEF Held
  <2>3. wire' = wire \o <<shift>> /\ wire \o <<shift>> \in Seq(Nat)
    BY <2>1, AppendIsConcat, ConcatProperties DEF StreamTyped
  <2>4. wire' \o <<>> = wire \o <<shift>>
    BY <2>3, ConcatEmptySeq
  <2> QED BY <2>1, <2>2, <2>4 DEF Stream, StreamTyped
<1> QED BY <1>1, <1>2

-----------------------------------------------------------------------------
Line == QuietInv /\ EndInv /\ RingInv /\ StreamInv

LEMMA LineTypes ==
  ASSUME Line
  PROVE  /\ StreamTyped /\ Stream \in Seq(Nat) /\ Sent \in Nat
         /\ starts \in Seq(Nat) /\ Len(starts) \in Nat
         /\ starts # <<>> =>
              Len(starts) \in 1 .. Len(starts)
              /\ starts[Len(starts)] \in Nat \ {0}
              /\ starts[Len(starts)] <= Sent + 1
<1>1. StreamTyped /\ starts \in Seq(Nat)
  BY DEF Line, StreamInv, QuietInv, CountInv, TypeOK, StreamTyped
<1>2. Stream \in Seq(Nat) /\ Sent \in Nat
  BY <1>1, StreamIsSeq
<1>3. starts # <<>> => Len(starts) \in 1 .. Len(starts)
  BY <1>1, EmptySeq, LenProperties
<1>4. \A m \in 1 .. Len(starts) : starts[m] \in 1 .. Sent + 1
  BY DEF Line, StreamInv, SentSoFar
<1>5. starts # <<>> => starts[Len(starts)] \in Nat \ {0}
                       /\ starts[Len(starts)] <= Sent + 1
  BY <1>2, <1>3, <1>4
<1> QED BY <1>1, <1>2, <1>3, <1>5, LenProperties

(* Nothing enters the UART.                                                *)
LEMMA SameStream ==
  ASSUME Stream' = Stream, UNCHANGED <<starts, torn>>
  PROVE  /\ Sent' = Sent /\ OldMessages' = OldMessages
         /\ \A f, l : /\ InOrder(f, l)' = InOrder(f, l)
                      /\ FirstTwice(f, l)' = FirstTwice(f, l)
                      /\ Whole(f, l)' = Whole(f, l)
<1>1. Sent' = Sent
  BY DEF Sent
<1>2. \A f, l : /\ InOrder(f, l)' = InOrder(f, l)
               /\ FirstTwice(f, l)' = FirstTwice(f, l)
               /\ Whole(f, l)' = Whole(f, l)
  BY DEF InOrder, FirstTwice, Whole
<1>3. OldMessages' = OldMessages
  BY DEF OldMessages, InOrder, FirstTwice, Whole
<1> QED BY <1>1, <1>2, <1>3

(* A byte enters the UART: what was sent before stays as it was.           *)
LEMMA LongerStream ==
  ASSUME Line, NEW b \in Nat, fifo' = Append(fifo, b),
         UNCHANGED <<wire, shift, starts>>, torn' = torn \/ torn = 0
  PROVE  /\ Sent' = Sent + 1 /\ Stream'[Sent + 1] = b
         /\ fifo' \in Seq(Nat) /\ OldMessages'
         /\ \A k \in 1 .. Sent : Stream'[k] = Stream[k]
<1>1. Stream' = Append(Stream, b) /\ fifo' \in Seq(Nat)
  BY LineTypes, Sending
<1>2. /\ Sent' = Sent + 1 /\ Stream'[Sent + 1] = b
      /\ \A k \in 1 .. Sent : Stream'[k] = Stream[k]
  BY <1>1, LineTypes, LastAppended DEF Sent
<1>3. ASSUME NEW m \in 1 .. Len(starts) - 1,
             torn' = 0 \/ m <= torn'
      PROVE  Whole(starts[m], starts[m + 1] - 1)'
  <2>1. m \in 1 .. Len(starts) /\ m + 1 \in 1 .. Len(starts)
    BY LineTypes
  <2>2. starts[m] \in 1 .. Sent + 1 /\ starts[m + 1] \in 1 .. Sent + 1
    BY <2>1 DEF Line, StreamInv, SentSoFar
  <2>3. \A k \in starts[m] .. starts[m + 1] - 1 : Stream'[k] = Stream[k]
    <3> DEFINE f == starts[m]   g == starts[m + 1]
    <3>1. f \in 1 .. Sent + 1 /\ g \in 1 .. Sent + 1 /\ Sent \in Nat
      BY <2>2, LineTypes
    <3> HIDE DEF f, g
    <3>2. \A k \in f .. g - 1 : k \in 1 .. Sent
      BY <3>1
    <3>3. \A k \in f .. g - 1 : Stream'[k] = Stream[k]
      BY <1>2, <3>2
    <3> QED BY <3>3 DEF f, g
  <2>4. Whole(starts[m], starts[m + 1] - 1)
    BY <1>3 DEF Line, StreamInv, OldMessages
  <2> QED BY <2>3, <2>4 DEF Whole, InOrder, FirstTwice
<1>4. OldMessages'
  BY <1>3 DEF OldMessages
<1> QED BY <1>1, <1>2, <1>4

(* The steps that send nothing, by what they leave as it was.              *)
LEMMA SilentStep ==
  ASSUME Line, Stream' = Stream, fifo' \in Seq(Nat), UNCHANGED <<starts, torn>>,
         \/ Filling /\ Filling' /\ isr = "off" /\ isr' = "off"
         \/ ~Filling /\ ~Filling' /\ isr # "off" /\ isr' # "off"
            /\ UNCHANGED <<pc, usTxRead, usTxCount, next>>
         \/ ~Filling /\ ~Filling' /\ isr = "off" /\ isr' = "off"
            /\ UNCHANGED <<usTxCount, next>>
         \/ ~Filling /\ ~Filling' /\ isr # "off" /\ isr' = "off"
            /\ usTxCount = 0 /\ UNCHANGED <<usTxCount, next>>
  PROVE  StreamInv'
<1>1. SentSoFar'
  BY SameStream DEF Line, StreamInv, SentSoFar
<1>2. LastMessage'
  <2> SUFFICES ASSUME starts # <<>>, torn = 0 \/ torn = Len(starts)
      PROVE  LET S == starts[Len(starts)] IN
             IF isr' # "off" /\ usTxCount' # 0
             THEN IF Late' THEN FirstTwice(S, Sent)' ELSE InOrder(S, Sent)'
             ELSE Whole(S, Sent)'
    BY DEF LastMessage
  <2>1. Sent' = Sent
    BY SameStream
  <2> DEFINE S == starts[Len(starts)]
  <2>2. /\ FirstTwice(S, Sent)' = FirstTwice(S, Sent)
        /\ InOrder(S, Sent)' = InOrder(S, Sent)
        /\ Whole(S, Sent)' = Whole(S, Sent)
    BY <2>1 DEF FirstTwice, InOrder, Whole
  <2>3. UNCHANGED <<pc, usTxRead>> => Late' = Late
    BY DEF Late
  <2> QED BY <2>2, <2>3 DEF Line, StreamInv, LastMessage, Whole
<1> QED BY <1>1, <1>2, SameStream DEF Line, StreamInv

(* The kick sends the first byte, unless an earlier one has torn the index.*)
LEMMA KickStream ==
  ASSUME Line, SendFirst PROVE StreamInv'
<1> DEFINE S == starts[Len(starts)]   b == pTxBuf[reg]
<1>1. /\ pc = "send" /\ isr = "off" /\ usTxCount # 0 /\ starts # <<>>
      /\ S = next - usTxCount /\ Sent = S - 1 /\ Behind = 0
  BY DEF SendFirst, MainRuns, Line, QuietInv, Where, EndInv, StreamInv, SentSoFar,
         Filling, Behind, Late
<1>2. S \in Nat \ {0} /\ Sent \in Nat /\ b \in Nat
  BY <1>1, LineTypes DEF Line, QuietInv, CountInv, TypeOK
<1>3. torn = 0 => b = S
  <2> SUFFICES ASSUME torn = 0 PROVE pTxBuf[reg] = S
    OBVIOUS
  <2>1. S = next - usTxCount - Behind
    BY <1>1 DEF Line, QuietInv, CountInv, TypeOK
  <2>2. QuietInv /\ RingInv /\ pc # "count" /\ Behind \in {0, 1} /\ Coherent
    BY <1>1 DEF Line, Coherent
  <2>3. reg = usTxRead /\ Place = usTxRead
    BY <1>1 DEF Line, QuietInv, Copy, CountInv, TypeOK, Place
  <2> HIDE DEF S
  <2> QED BY <1>1, <1>2, <2>1, <2>2, <2>3, NextByte
<1>4. /\ fifo' = Append(fifo, b) /\ pc' = "load"
      /\ UNCHANGED <<wire, shift, starts, torn, isr, usTxCount>>
  BY DEF SendFirst, XUartLite_Send, ring, past
<1>5. S' = S
  BY <1>4
<1> HIDE DEF S, b
<1>6. /\ Sent' = S /\ Stream'[S] = b /\ fifo' \in Seq(Nat) /\ OldMessages'
  BY <1>1, <1>2, <1>4, LongerStream
<1>7. SentSoFar'
  <2>1. \A m \in 1 .. Len(starts) : starts[m] \in 1 .. Sent + 1
    BY DEF Line, StreamInv, SentSoFar
  <2>2. \A m \in 1 .. Len(starts') : starts'[m] \in 1 .. Sent' + 1
    BY <1>1, <1>2, <1>4, <1>6, <2>1
  <2> QED BY <1>1, <1>4, <1>5, <1>6, <2>2 DEF SentSoFar, Filling, S
<1>8. LastMessage'
  <2>1. torn = 0 => InOrder(S, Sent)'
    BY <1>2, <1>3, <1>5, <1>6 DEF InOrder
  <2>2. torn = 0 \/ torn # Len(starts)
    BY <1>1 DEF Line, QuietInv, Tearing, Filling
  <2> QED BY <1>1, <1>4, <2>1, <2>2 DEF LastMessage, Whole, S
<1> QED BY <1>6, <1>7, <1>8 DEF StreamInv

(* The handler sends the next byte, or the first one again, or what lies   *)
(* behind the ring, until a message has torn the index.                    *)
LEMMA IsrStream ==
  ASSUME Line, IsrSendNext PROVE StreamInv'
<1> DEFINE S == starts[Len(starts)]   b == ByteAt(usTxRead)
<1>1. /\ isr = "loop" /\ usTxCount # 0 /\ ~Filling /\ starts # <<>>
      /\ Sent = next - 1 - usTxCount /\ S <= Sent
      /\ (usTxRead = TxBufSize => S = Sent /\ pc = "wrap" /\ ~Late)
      /\ Behind = (IF Late THEN 1 ELSE 0)
      /\ usTxCount \in Nat /\ next \in Nat
  BY DEF IsrSendNext, Line, QuietInv, CountInv, TypeOK, Where, EndInv, StreamInv,
         SentSoFar, Filling, Behind, Late
<1>2. S \in Nat \ {0} /\ Sent \in Nat /\ b \in Nat
  <2>1. b \in Nat
    BY DEF ByteAt, Foreign, Line, QuietInv, CountInv, TypeOK
  <2> QED BY <1>1, <2>1, LineTypes
<1>3. /\ fifo' = Append(fifo, b) /\ isr' = "sleep" /\ usTxCount' = usTxCount - 1
      /\ usTxRead' = Wrap(usTxRead) /\ UNCHANGED <<wire, shift, starts, pc, next>>
      /\ torn' = IF pc \in {"bump", "wrap"} /\ torn = 0 THEN Len(starts) ELSE torn
  BY DEF IsrSendNext, XUartLite_Send, AfterByte
<1>4. usTxRead' # TxBufSize /\ Late' = (Late \/ usTxRead = TxBufSize)
  BY <1>1, <1>3, TxBufAssumption
  DEF Wrap, Late, Line, QuietInv, CountInv, TypeOK, Index
<1>5. S' = S
  BY <1>3
<1>6. Coherent => b = IF usTxRead = TxBufSize THEN Foreign
                      ELSE IF Late THEN Sent ELSE Sent + 1
  <2>1. CASE usTxRead = TxBufSize
    BY <2>1 DEF ByteAt
  <2>2. ASSUME usTxRead # TxBufSize, Coherent
        PROVE  b = IF Late THEN Sent ELSE Sent + 1
    <3> DEFINE n == Sent + 1 - Behind
    <3>1. /\ b = pTxBuf[Place] /\ n = next - usTxCount - Behind
          /\ n = IF Late THEN Sent ELSE Sent + 1
      BY <1>1, <1>2, <2>2 DEF ByteAt, Place
    <3>2. n \in Nat \ {0}
      BY <1>1, <1>2, <3>1
    <3>3. QuietInv /\ RingInv /\ pc # "count" /\ Behind \in {0, 1}
      BY <1>1 DEF Line, Filling
    <3> HIDE DEF n
    <3>4. pTxBuf[Place] = n
      BY <1>1, <2>2, <3>1, <3>2, <3>3, NextByte
    <3> QED BY <3>1, <3>4
  <2> QED BY <2>1, <2>2
<1> HIDE DEF S, b
<1>7. /\ Sent' = Sent + 1 /\ Stream'[Sent + 1] = b /\ OldMessages'
      /\ fifo' \in Seq(Nat)
      /\ \A k \in 1 .. Sent : Stream'[k] = Stream[k]
  BY <1>2, <1>3, LongerStream
<1>8. SentSoFar'
  <2>1. \A m \in 1 .. Len(starts) : starts[m] \in 1 .. Sent + 1
    BY DEF Line, StreamInv, SentSoFar
  <2>2. \A m \in 1 .. Len(starts') : starts'[m] \in 1 .. Sent' + 1
    BY <1>2, <1>3, <1>7, <2>1
  <2>3. ~Filling' /\ isr' # "off" /\ Sent' = next' - 1 - usTxCount' /\ S' <= Sent'
    BY <1>1, <1>2, <1>3, <1>5, <1>7 DEF Filling
  <2> QED BY <1>4, <2>2, <2>3 DEF SentSoFar, S
<1>9. ASSUME torn' = 0 \/ torn' = Len(starts)
      PROVE  IF Late' THEN FirstTwice(S, Sent)' ELSE InOrder(S, Sent)'
  <2>1. torn = 0 \/ torn = Len(starts)
    BY <1>3, <1>9
  <2>2. Coherent
    BY <1>1, <2>1 DEF Coherent
  <2>3. IF Late THEN FirstTwice(S, Sent) ELSE InOrder(S, Sent)
    BY <1>1, <2>1 DEF Line, StreamInv, LastMessage, S
  <2>4. CASE Late'
    <3>1. ASSUME NEW k \in S .. Sent + 1
          PROVE  IF k = S THEN Stream'[k] = S
                 ELSE \/ Stream'[k] = k - 1
                      \/ k = S + 1 /\ Stream'[k] = Foreign
      <4>1. CASE k = Sent + 1
        <5>1. k # S /\ Stream'[k] = b /\ k - 1 = Sent
          BY <1>1, <1>2, <1>7, <4>1 DEF S
        <5>2. CASE usTxRead = TxBufSize
          BY <1>1, <1>6, <2>2, <4>1, <5>1, <5>2 DEF S
        <5>3. CASE usTxRead # TxBufSize
          BY <1>4, <1>6, <2>2, <2>4, <5>1, <5>3
        <5> QED BY <5>2, <5>3
      <4>2. CASE k \in S .. Sent
        <5>1. Stream'[k] = Stream[k]
          BY <1>2, <1>7, <4>2
        <5>2. CASE Late
          BY <2>3, <4>2, <5>1, <5>2 DEF FirstTwice
        <5>3. CASE ~Late
          <6>1. S = Sent
            BY <1>1, <1>4, <2>4, <5>3 DEF S
          <6> QED BY <1>2, <2>3, <4>2, <5>1, <5>3, <6>1 DEF InOrder
        <5> QED BY <5>2, <5>3
      <4> QED BY <1>2, <4>1, <4>2
    <3> QED BY <1>5, <1>7, <2>4, <3>1 DEF FirstTwice
  <2>5. CASE ~Late'
    <3>1. ~Late /\ usTxRead # TxBufSize
      BY <1>4, <2>5
    <3>2. ASSUME NEW k \in S .. Sent + 1 PROVE Stream'[k] = k
      <4>1. CASE k = Sent + 1
        BY <1>6, <1>7, <2>2, <3>1, <4>1
      <4>2. CASE k \in S .. Sent
        BY <1>2, <1>7, <2>3, <3>1, <4>2 DEF InOrder
      <4> QED BY <1>2, <4>1, <4>2
    <3> QED BY <1>5, <1>7, <2>5, <3>2 DEF InOrder
  <2> QED BY <2>4, <2>5
<1>10. LastMessage'
  BY <1>3, <1>9 DEF LastMessage, Whole, S
<1> QED BY <1>7, <1>8, <1>10 DEF StreamInv

(* The interrupt of the kick's byte: from here on it is settled whether    *)
(* that byte is sent again.                                                *)
LEMMA IrqStream ==
  ASSUME Line, TxIrq PROVE StreamInv'
<1> DEFINE S == starts[Len(starts)]
<1>1. /\ txIrq /\ isr = "off" /\ requested /\ fifo = <<>> /\ ~Filling
      /\ usTxCount \in Nat /\ next \in Nat
  BY DEF TxIrq, Line, QuietInv, CountInv, TypeOK, Where
<1>2. /\ isr' = "loop" /\ usTxCount' = CountAtEntry
      /\ UNCHANGED <<fifo, shift, wire, pc, next, starts, torn, usTxRead>>
  BY <1>1 DEF TxIrq, hw, past
<1>3. Stream' = Stream /\ ~Filling' /\ S' = S
  BY <1>1, <1>2 DEF Stream, Held, Filling
<1>4. Sent' = Sent /\ OldMessages'
  BY <1>2, <1>3, SameStream DEF Line, StreamInv
<1>5. \A m \in 1 .. Len(starts') : starts'[m] \in 1 .. Sent' + 1
  BY <1>2, <1>4 DEF Line, StreamInv, SentSoFar
<1>6. starts # <<>> /\ (torn = 0 \/ torn = Len(starts)) => Whole(S, Sent)
  BY <1>1 DEF Line, StreamInv, LastMessage
<1>7. CASE usTxCount = 0
  <2>1. usTxCount' = 0 /\ Sent = next - 1 - usTxCount
    BY <1>1, <1>2, <1>7 DEF CountAtEntry, Line, StreamInv, SentSoFar
  <2>2. SentSoFar'
    BY <1>2, <1>3, <1>4, <1>5, <1>7, <2>1 DEF SentSoFar
  <2>3. LastMessage'
    BY <1>2, <1>3, <1>4, <1>6, <2>1 DEF LastMessage, Whole, InOrder, FirstTwice
  <2> QED BY <1>3, <1>4, <2>2, <2>3 DEF StreamInv
<1>8. CASE usTxCount # 0
  <2>1. /\ usTxCount' = usTxCount - 1 /\ starts # <<>>
        /\ Sent = S /\ S = next - usTxCount /\ S \in Nat
    BY <1>1, <1>2, <1>8, LineTypes
    DEF CountAtEntry, Line, StreamInv, SentSoFar, EndInv, Filling
  <2>2. SentSoFar'
    <3>1. Sent' = next' - 1 - usTxCount' /\ S' <= Sent'
      BY <1>1, <1>2, <1>3, <1>4, <2>1
    <3>2. Sent' = S'
      BY <1>3, <1>4, <2>1
    <3> QED BY <1>2, <1>3, <1>5, <3>1, <3>2 DEF SentSoFar
  <2>3. torn = 0 \/ torn = Len(starts) => Stream[S] = S
    BY <1>6, <2>1 DEF Whole, InOrder, FirstTwice
  <2>4. torn = 0 \/ torn = Len(starts)
          => InOrder(S, Sent)' /\ FirstTwice(S, Sent)'
    BY <1>3, <1>4, <2>1, <2>3 DEF InOrder, FirstTwice
  <2>5. LastMessage'
    BY <1>2, <1>3, <2>4 DEF LastMessage, Whole
  <2> QED BY <1>3, <1>4, <2>2, <2>5 DEF StreamInv
<1> QED BY <1>7, <1>8

(* A new message: the one before it is done.                               *)
LEMMA NewMessage ==
  ASSUME Line, NEW n \in Lens, ComSendBuf(n), ~overlapped' PROVE StreamInv'
<1>1. /\ pc = "idle" /\ isr = "off" /\ fifo = <<>> /\ ~txIrq /\ ~Filling
      /\ pc' = "wait" /\ starts' = Append(starts, next) /\ next \in Nat \ {0}
      /\ UNCHANGED <<fifo, shift, wire, isr, usTxCount, next, torn>>
  BY DEF ComSendBuf, MainRuns, Quiet, ring, hw, Filling, Line, QuietInv, CountInv,
         TypeOK
<1>2. usTxCount = 0
  BY <1>1 DEF Line, QuietInv, Where, Filling
<1>3. Sent = next - 1
  BY <1>1, <1>2 DEF Line, StreamInv, SentSoFar
<1>4. /\ starts' # <<>> /\ Len(starts') = Len(starts) + 1
      /\ starts'[Len(starts')] = next /\ Len(starts) \in Nat
      /\ \A m \in 1 .. Len(starts) : starts'[m] = starts[m]
  BY <1>1, LineTypes, LastAppended
<1>5. Stream' = Stream /\ Sent' = Sent /\ Filling'
  BY <1>1 DEF Stream, Held, Sent, Filling
<1>6. SentSoFar'
  <2>1. ASSUME NEW m \in 1 .. Len(starts') PROVE starts'[m] \in 1 .. Sent' + 1
    <3>1. CASE m \in 1 .. Len(starts)
      BY <1>4, <1>5, <3>1 DEF Line, StreamInv, SentSoFar
    <3>2. CASE m = Len(starts')
      BY <1>1, <1>3, <1>4, <1>5, <3>2
    <3> QED BY <1>4, <3>1, <3>2
  <2> QED BY <1>1, <1>2, <1>3, <1>4, <1>5, <2>1 DEF SentSoFar
<1>7. OldMessages'
  <2>1. ASSUME NEW m \in 1 .. Len(starts') - 1, torn = 0 \/ m <= torn
        PROVE  Whole(starts'[m], starts'[m + 1] - 1)
    <3>1. CASE m \in 1 .. Len(starts) - 1
      <4>1. starts'[m] = starts[m] /\ starts'[m + 1] = starts[m + 1]
        BY <1>4, <3>1
      <4> QED BY <2>1, <3>1, <4>1 DEF Line, StreamInv, OldMessages
    <3>2. CASE m = Len(starts)
      <4>1. starts'[m] = starts[Len(starts)] /\ starts'[m + 1] - 1 = Sent
        BY <1>3, <1>4, <3>2
      <4>2. starts # <<>>
        BY <3>2, EmptySeq
      <4>3. torn = 0 \/ torn = Len(starts)
        BY <1>4, <2>1, <3>2 DEF Line, QuietInv, Tearing, CountInv, TypeOK
      <4>4. Whole(starts[Len(starts)], Sent)
        BY <1>1, <4>2, <4>3 DEF Line, StreamInv, LastMessage
      <4> QED BY <4>1, <4>4
    <3> QED BY <1>4, <3>1, <3>2
  <2> QED BY <1>1, <1>5, <2>1 DEF OldMessages, Whole, InOrder, FirstTwice
<1>8. LastMessage'
  <2>1. starts'[Len(starts')] .. Sent' = {}
    BY <1>1, <1>3, <1>4, <1>5
  <2> QED BY <1>1, <1>2, <2>1 DEF LastMessage, Whole, InOrder
<1> QED BY <1>5, <1>6, <1>7, <1>8 DEF StreamInv

LEMMA StreamStep ==
  ASSUME Line, [Next]_vars, ~overlapped' PROVE StreamInv'
<1>1. fifo \in Seq(Nat) /\ (Filling => isr = "off")
      /\ isr \in {"off", "loop", "sleep"}
  BY DEF Line, StreamInv, QuietInv, CountInv, TypeOK, Where
<1>2. UNCHANGED hw => Stream' = Stream /\ fifo' = fifo
  BY DEF hw, Stream, Held
<1>3. ASSUME NEW n \in Lens, ComSendBuf(n) PROVE StreamInv'
  BY <1>3, NewMessage
<1>4. CASE FindRoom \/ StoreByte \/ CountByte \/ Kick
  <2>1. UNCHANGED <<hw, starts, torn, isr>> /\ Filling /\ Filling' /\ isr = "off"
    BY <1>4 DEF FindRoom, StoreByte, CountByte, Kick, MainRuns, past, Filling
  <2> QED BY <1>1, <1>2, <2>1, SilentStep
<1>5. CASE LoadRead \/ Bump \/ BumpToStart
  <2>1. /\ UNCHANGED <<hw, starts, torn, isr, usTxCount, next>> /\ isr = "off"
        /\ ~Filling /\ ~Filling'
    BY <1>5 DEF LoadRead, Bump, BumpToStart, MainRuns, ring, past, Filling
  <2> QED BY <1>1, <1>2, <2>1, SilentStep
<1>6. CASE IsrSleep
  <2>1. /\ UNCHANGED <<hw, starts, torn, pc, usTxRead, usTxCount, next>> /\ isr = "sleep"
        /\ isr' = "loop"
    BY <1>6 DEF IsrSleep, ring
  <2>2. ~Filling /\ ~Filling'
    BY <1>1, <2>1 DEF Filling
  <2> QED BY <1>1, <1>2, <2>1, <2>2, SilentStep
<1>7. CASE IsrSendOver
  <2>1. /\ UNCHANGED <<hw, starts, torn, pc, usTxRead, usTxCount, next>> /\ isr = "loop"
        /\ isr' = "off" /\ usTxCount = 0
    BY <1>7 DEF IsrSendOver, AllHandedOver, ring, past
  <2>2. ~Filling /\ ~Filling'
    BY <1>1, <2>1 DEF Filling
  <2> QED BY <1>1, <1>2, <2>1, <2>2, SilentStep
<1>8. CASE Uart
  <2>1. Stream' = Stream /\ fifo' \in Seq(Nat)
    BY <1>8, Shifting, LineTypes DEF Uart
  <2>2. UNCHANGED <<starts, torn, pc, usTxRead, usTxCount, next, isr>>
    BY <1>8 DEF Uart, LoadShift, ShiftOut, ring, past
  <2>3. Filling' = Filling
    BY <2>2 DEF Filling
  <2> QED BY <1>1, <2>1, <2>2, <2>3, SilentStep
<1>9. CASE UNCHANGED vars
  <2>1. UNCHANGED <<hw, starts, torn, pc, usTxRead, usTxCount, next, isr>>
    BY <1>9 DEF vars, hw
  <2>2. Filling' = Filling
    BY <2>1 DEF Filling
  <2> QED BY <1>1, <1>2, <2>1, <2>2, SilentStep
<1> QED
  BY <1>3, <1>4, <1>5, <1>6, <1>7, <1>8, <1>9, KickStream, IsrStream, IrqStream
  DEF Next, Main, Isr

LEMMA StreamInit == Init => EndInv /\ StreamInv
<1> SUFFICES ASSUME Init PROVE EndInv /\ StreamInv
  OBVIOUS
<1>1. EndInv
  BY DEF Init, EndInv, Filling
<1>2. Stream = <<>> /\ Sent = 0
  <2>1. <<>> \o <<>> = <<>> BY EmptySeq, ConcatEmptySeq
  <2>2. Stream = <<>> BY <2>1 DEF Init, Stream, Held
  <2> QED BY <2>2, EmptySeq DEF Sent
<1>3. Len(starts) = 0 /\ starts = <<>>
  BY EmptySeq DEF Init
<1>4. SentSoFar /\ OldMessages /\ LastMessage
  BY <1>2, <1>3 DEF Init, SentSoFar, OldMessages, LastMessage, Filling
<1> QED BY <1>1, <1>4, EmptySeq DEF Init, StreamInv

(* The invariants of the ring and the line go with those above.            *)
LEMMA LineAlways == Spec => [](RestInv /\ LineInv)
<1>1. Init => RestInv /\ LineInv
  BY RestInit, RingInit, StreamInit DEF LineInv
<1>2. RestInv /\ LineInv /\ [Next]_vars => RestInv' /\ LineInv'
  <2> SUFFICES ASSUME RestInv, LineInv, [Next]_vars PROVE RestInv' /\ LineInv'
    OBVIOUS
  <2>1. RestInv'
    BY RestStep
  <2>2. RingInv'
    BY RingStep DEF RestInv, LineInv
  <2>3. ASSUME ~overlapped' PROVE EndInv' /\ StreamInv'
    <3>1. ~overlapped
      BY <2>3, OverlapStays DEF RestInv
    <3>2. Line
      BY <3>1 DEF Line, RestInv, LineInv
    <3> QED BY <2>3, <3>2, EndStep, StreamStep DEF Line
  <2> QED BY <2>1, <2>2, <2>3 DEF LineInv
<1> QED BY <1>1, <1>2, PTL DEF Spec

(* When messages do not overlap and the line is no slower than the sleep,  *)
(* the transceiver drives the bus until the last bit of every message of   *)
(* two bytes or more.                                                      *)
THEOREM BusDrivenToTheEnd == Spec => []DrivenToTheEnd
<1>1. LineInv => DrivenToTheEnd
  BY DEF LineInv, EndInv, Long, DrivenToTheEnd
<1> QED BY <1>1, LineAlways, PTL

(* When messages do not overlap, every message puts as many bytes on the   *)
(* wire as it has; up to and including the first message during whose kick *)
(* the handler advances usTxRead behind UartSend's back, each leaves in    *)
(* order, or with its first byte twice, or a byte from behind the ring in  *)
(* the second place, and its last byte never.                              *)
THEOREM DamageStaysInMessage == Spec => []DamageIsBounded
<1>1. RestInv /\ LineInv => DamageIsBounded
  <2> SUFFICES ASSUME Line, Quiet
               PROVE  /\ Len(wire) = next - 1
                      /\ \A m \in 1 .. Len(starts) :
                           torn = 0 \/ m <= torn =>
                             Intact(starts[m], MsgEnd(m))
                             \/ FirstRepeated(starts[m], MsgEnd(m))
    BY DEF DamageIsBounded, Line, RestInv, LineInv
  <2>1. usTxCount = 0 /\ ~Filling /\ isr = "off" /\ fifo = <<>> /\ shift = NoByte
    BY DEF Line, QuietInv, Where, Filling, Quiet, MainRuns
  <2>2. Stream = wire
    <3>1. wire \in Seq(Nat) BY LineTypes DEF StreamTyped
    <3>2. (wire \o <<>>) \o <<>> = wire BY <3>1, ConcatEmptySeq
    <3> QED BY <2>1, <3>2 DEF Stream, Held
  <2>3. Len(wire) = next - 1
    BY <2>1, <2>2 DEF Line, StreamInv, SentSoFar, Sent, QuietInv, CountInv, TypeOK
  <2>4. ASSUME NEW m \in 1 .. Len(starts), torn = 0 \/ m <= torn
        PROVE  /\ Whole(starts[m], MsgEnd(m))
               /\ starts[m] \in Int /\ MsgEnd(m) \in Int
    <3>1. Len(starts) \in Nat /\ next \in Nat /\ Sent = next - 1
      BY <2>2, <2>3, LineTypes DEF Sent, Line, QuietInv, CountInv, TypeOK
    <3>2. SentSoFar /\ OldMessages /\ LastMessage /\ Sent \in Nat
      BY LineTypes DEF Line, StreamInv
    <3>3. \A k \in 1 .. Len(starts) : starts[k] \in Int
      BY <3>2 DEF SentSoFar
    <3>4. CASE m = Len(starts)
      <4>1. starts # <<>>
        BY <3>1, EmptySeq
      <4>2. Whole(starts[Len(starts)], Sent)
        <5>1. torn = 0 \/ torn = Len(starts)
          BY <2>4, <3>1, <3>4 DEF Line, QuietInv, Tearing, CountInv, TypeOK
        <5> QED BY <2>1, <3>2, <4>1, <5>1 DEF LastMessage
      <4>3. MsgEnd(m) = Sent
        BY <3>1, <3>4 DEF MsgEnd
      <4> QED BY <3>2, <3>3, <3>4, <4>2, <4>3
    <3>5. CASE m # Len(starts)
      <4>1. m \in 1 .. Len(starts) - 1 /\ m + 1 \in 1 .. Len(starts)
        BY <3>1, <3>5
      <4>2. MsgEnd(m) = starts[m + 1] - 1 /\ starts[m + 1] \in Int
        BY <3>3, <3>5, <4>1 DEF MsgEnd
      <4>3. Whole(starts[m], starts[m + 1] - 1)
        BY <2>4, <3>2, <4>1 DEF OldMessages
      <4> QED BY <3>3, <4>2, <4>3
    <3> QED BY <3>4, <3>5
  <2>5. ASSUME NEW f \in Int, NEW l \in Int, Whole(f, l)
        PROVE  Intact(f, l) \/ FirstRepeated(f, l)
    <3>1. CASE l < f
      <4>1. f .. l = {}
        BY <3>1
      <4> QED BY <4>1 DEF Intact
    <3>2. CASE f <= l /\ FirstTwice(f, l)
      BY <2>2, <3>2 DEF FirstTwice, FirstRepeated
    <3>3. CASE InOrder(f, l)
      BY <2>2, <3>3 DEF InOrder, Intact
    <3> QED BY <2>5, <3>1, <3>2, <3>3 DEF Whole
  <2> QED BY <2>3, <2>4, <2>5
<1> QED BY <1>1, LineAlways, PTL

-----------------------------------------------------------------------------
(* Receive.                                                                *)

(* UartGetChar only takes what was there when it looked: the handler never *)
(* lowers the count.                                                       *)
RxSeenIsThere == rxPc # "idle" => usRxCount > 0

(* Where the next byte goes: usRxCount slots after usRxRead.               *)
RxWriteIndex ==
  ~overrun => \/ usRxRead + usRxCount = usRxWrite
              \/ usRxRead + usRxCount = usRxWrite + RxBufSize

RxRingInv == RxTypeOK /\ RxSeenIsThere /\ RxWriteIndex /\ RingHoldsWaiting

LEMMA RxRingInit == RxInit => RxRingInv
<1> SUFFICES ASSUME RxInit PROVE RxRingInv
  OBVIOUS
<1> USE RxBufAssumption DEF RxInit, RxIndex
<1>1. RxTypeOK
  <2>1. pRxBuf \in [RxIndex -> Nat]
    OBVIOUS
  <2>2. 0 \in RxIndex /\ 0 \in 0 .. RxBufSize
    OBVIOUS
  <2>3. QED BY <2>1, <2>2 DEF RxTypeOK
<1>2. RxSeenIsThere /\ RxWriteIndex
  BY DEF RxSeenIsThere, RxWriteIndex
<1>3. RingHoldsWaiting
  <2>1. usRxCount = arrived - taken
    OBVIOUS
  <2>2. \A k \in RxIndex : ~(k < usRxCount)
    OBVIOUS
  <2>3. rxPc # "advance"
    OBVIOUS
  <2>4. QED BY <2>1, <2>2, <2>3 DEF RingHoldsWaiting
<1>4. QED BY <1>1, <1>2, <1>3 DEF RxRingInv

(* Storing a byte disturbs no slot that holds a waiting one, and removing  *)
(* one renumbers the others.                                               *)
LEMMA RxRingStep == RxRingInv /\ [RxNext]_rxVars => RxRingInv'
<1> SUFFICES ASSUME RxRingInv, [RxNext]_rxVars PROVE RxRingInv'
  OBVIOUS
<1> USE RxBufAssumption DEF RxRingInv, RxTypeOK, RxSeenIsThere, RxWriteIndex, RxIndex
<1>1. CASE Uart0RxCpltIRQ
  <2> USE <1>1 DEF Uart0RxCpltIRQ, RxWrap, CountArrival
  <2>1. RxTypeOK' /\ RxSeenIsThere' /\ RxWriteIndex'
    <3>1. overrun' \in BOOLEAN /\ (~overrun' => ~overrun /\ usRxCount # RxBufSize)
      BY <1>1
    <3>2. pRxBuf' \in [RxIndex -> Nat] /\ usRxWrite' \in RxIndex
      BY <1>1
    <3>3. usRxCount' \in 0 .. RxBufSize /\ RxSeenIsThere'
      BY <1>1
    <3>4. RxWriteIndex'
      BY <3>1
    <3>5. QED BY <3>1, <3>2, <3>3, <3>4
  <2>2. ASSUME ~overrun' PROVE RingHoldsWaiting'
    <3>1. ~overrun /\ usRxCount < RxBufSize
      <4>1. ~overrun /\ usRxCount # RxBufSize
        BY <2>2
      <4>2. QED BY <4>1
    <3>2. usRxCount' = arrived' - taken'
      BY <3>1 DEF RingHoldsWaiting
    <3>3. RxSlot(usRxCount) = usRxWrite
      BY <3>1 DEF RxSlot
    <3>4. ASSUME NEW k \in RxIndex, k < usRxCount'
          PROVE  pRxBuf'[RxSlot(k)'] = taken' + 1 + k
      <4>1. RxSlot(k)' = RxSlot(k) /\ RxSlot(k) \in RxIndex
        BY DEF RxSlot
      <4>2. CASE k = usRxCount
        BY <3>1, <3>3, <4>1, <4>2 DEF RingHoldsWaiting
      <4>3. CASE k # usRxCount
        <5>1. k < usRxCount
          BY <3>1, <3>4, <4>3
        <5>2. RxSlot(k) # usRxWrite
          BY <3>1, <5>1 DEF RxSlot
        <5>3. QED BY <3>1, <4>1, <5>1, <5>2 DEF RingHoldsWaiting
      <4>4. QED BY <4>2, <4>3
    <3>5. QED BY <3>1, <3>2, <3>4 DEF RingHoldsWaiting
  <2>3. QED BY <2>1, <2>2 DEF RingHoldsWaiting
<1>2. CASE GetCharBegin
  BY <1>2 DEF GetCharBegin, RingHoldsWaiting, RxSlot
<1>3. CASE GetCharCopy
  <2>1. ~overrun => pRxBuf[usRxRead] = taken + 1
    <3>1. SUFFICES ASSUME ~overrun PROVE pRxBuf[usRxRead] = taken + 1
      OBVIOUS
    <3>2. 0 \in RxIndex /\ 0 < usRxCount /\ RxSlot(0) = usRxRead
      BY <1>3 DEF GetCharCopy, RxSlot
    <3>3. pRxBuf[RxSlot(0)] = taken + 1 + 0
      BY <3>1, <3>2 DEF RingHoldsWaiting
    <3>4. QED BY <3>2, <3>3
  <2>2. QED BY <1>3, <2>1 DEF GetCharCopy, RingHoldsWaiting, RxSlot
<1>4. CASE GetCharAdvance
  <2> USE <1>4 DEF GetCharAdvance, RxWrap, CountRemoval
  <2>1. RxTypeOK' /\ RxSeenIsThere' /\ RxWriteIndex'
    OBVIOUS
  <2>2. ASSUME ~overrun PROVE RingHoldsWaiting'
    <3>1. usRxCount' = arrived' - taken'
      BY <2>2 DEF RingHoldsWaiting
    <3>2. ASSUME NEW k \in RxIndex, k < usRxCount'
          PROVE  pRxBuf'[RxSlot(k)'] = taken' + 1 + k
      <4>1. k + 1 \in RxIndex /\ k + 1 < usRxCount
        BY <3>2
      <4>2. RxSlot(k)' = RxSlot(k + 1)
        BY <4>1 DEF RxSlot
      <4>3. pRxBuf[RxSlot(k + 1)] = taken + 1 + (k + 1)
        BY <2>2, <4>1 DEF RingHoldsWaiting
      <4>4. QED BY <4>2, <4>3
    <3>3. QED BY <3>1, <3>2 DEF RingHoldsWaiting
  <2>3. QED BY <2>1, <2>2 DEF RingHoldsWaiting
<1>5. CASE UNCHANGED rxVars
  BY <1>5 DEF rxVars, RingHoldsWaiting, RxSlot
<1>6. QED
  BY <1>1, <1>2, <1>3, <1>4, <1>5 DEF RxNext, UartGetChar

LEMMA RxRingAlways == RxSpec => []RxRingInv
  BY RxRingInit, RxRingStep, PTL DEF RxSpec

(* Indices and count stay in range, overrun or not.                        *)
THEOREM RxTypeCorrect == RxSpec => []RxTypeOK
<1>1. RxRingInv => RxTypeOK
  BY DEF RxRingInv
<1>2. QED
  BY <1>1, RxRingAlways, PTL

(* Until it overruns the ring holds exactly the bytes that wait, in order. *)
THEOREM RxRingIsExact == RxSpec => []RingHoldsWaiting
<1>1. RxRingInv => RingHoldsWaiting
  BY DEF RxRingInv
<1>2. QED
  BY <1>1, RxRingAlways, PTL

(* Uart0RxCpltIRQ is Put and the last step of UartGetChar is Get.          *)
THEOREM RxImplementsFifo == RxSpec => ImplementsFifo
<1>1. RxInit => Fifo!Init
  BY DEF RxInit, Fifo!Init
<1>2. RxRingInv /\ [RxNext]_rxVars => [Fifo!Next]_(Fifo!vars)
  <2> SUFFICES ASSUME RxRingInv, [RxNext]_rxVars PROVE [Fifo!Next]_(Fifo!vars)
    OBVIOUS
  <2> USE RxBufAssumption DEF RxRingInv, RxTypeOK, RingHoldsWaiting, RxSeenIsThere,
        Fifo!Next, Fifo!vars
  <2>1. CASE overrun
    <3>1. overrun'
      BY <2>1 DEF RxNext, UartGetChar, Uart0RxCpltIRQ, GetCharBegin, GetCharCopy,
                  GetCharAdvance, rxVars
    <3>2. QED BY <2>1, <3>1 DEF Fifo!AfterLoss
  <2>2. CASE ~overrun /\ Uart0RxCpltIRQ
    <3>1. (usRxCount = RxBufSize) = (arrived - taken >= RxBufSize)
      BY <2>2
    <3>2. Fifo!Put
      BY <2>2, <3>1 DEF Uart0RxCpltIRQ, Fifo!Put
    <3>3. QED BY <3>2
  <2>3. CASE GetCharBegin \/ GetCharCopy \/ UNCHANGED rxVars
    BY <2>3 DEF GetCharBegin, GetCharCopy, rxVars
  <2>4. CASE ~overrun /\ GetCharAdvance
    <3>1. pByte = taken + 1 /\ taken < arrived
      BY <2>4 DEF GetCharAdvance
    <3>2. Fifo!Get
      BY <2>4, <3>1 DEF GetCharAdvance, Fifo!Get
    <3>3. QED BY <3>2
  <2>5. QED
    BY <2>1, <2>2, <2>3, <2>4 DEF RxNext, UartGetChar
<1>3. QED
  BY <1>1, <1>2, RxRingAlways, PTL DEF RxSpec, Fifo!Spec, ImplementsFifo

=============================================================================
