----------------------------- MODULE UartRxFifo -----------------------------
(***************************************************************************)
(* The receive half of uartlite_fifo.c: Uart0RxCpltIRQ stores each byte    *)
(* that arrives in a ring and never refuses one; UartGetChar takes them    *)
(* out in the main loop.  The handler runs between any two steps of        *)
(* UartGetChar except inside its two DISABLE_INT / ENABLE_INT sections,    *)
(* each of which is therefore one step.  A byte is its serial number.      *)
(***************************************************************************)
EXTENDS Naturals

CONSTANTS
  RxBufSize,  \* UART0_RX_BUF_SIZE
  MaxBytes    \* bound: how many bytes arrive

ASSUME RxBufAssumption == RxBufSize \in Nat \ {0} /\ MaxBytes \in Nat

VARIABLES
  pRxBuf, usRxWrite, usRxRead, usRxCount,  \* UART_T
  rxPc,     \* where UartGetChar is
  pByte,    \* the byte it has copied
  arrived,  \* history: bytes stored so far
  taken,    \* history: bytes UartGetChar returned so far
  lastOut,  \* history: the byte it returned last, 0 before the first
  overrun   \* history: a byte arrived when usRxCount was RxBufSize

rxVars == <<pRxBuf, usRxWrite, usRxRead, usRxCount, rxPc, pByte, arrived,
            taken, lastOut, overrun>>

(* if (++x >= size) x = 0.                                                 *)
RxWrap(i) == IF i + 1 >= RxBufSize THEN 0 ELSE i + 1

(* The handler counts the byte unless the ring is full already.            *)
BugKeepOneSlotFree ==
  IF usRxCount + 1 < RxBufSize THEN usRxCount + 1 ELSE usRxCount
CountArrival == IF usRxCount < RxBufSize THEN usRxCount + 1 ELSE usRxCount

RxInit ==
  /\ pRxBuf = [i \in 0 .. RxBufSize - 1 |-> 0]
  /\ usRxWrite = 0 /\ usRxRead = 0 /\ usRxCount = 0
  /\ rxPc = "idle" /\ pByte = 0
  /\ arrived = 0 /\ taken = 0 /\ lastOut = 0 /\ overrun = FALSE

(* The handler: one byte arrives.                                          *)
Uart0RxCpltIRQ ==
  /\ arrived < MaxBytes
  /\ arrived' = arrived + 1
  /\ pRxBuf' = [pRxBuf EXCEPT ![usRxWrite] = arrived + 1]
  /\ usRxWrite' = RxWrap(usRxWrite)
  /\ usRxCount' = CountArrival
  /\ overrun' = (overrun \/ usRxCount = RxBufSize)
  /\ UNCHANGED <<usRxRead, rxPc, pByte, taken, lastOut>>

(* UartGetChar: with no byte counted it returns 1 and changes nothing.     *)
GetCharBegin ==
  /\ rxPc = "idle"
  /\ usRxCount # 0
  /\ rxPc' = "copy"
  /\ UNCHANGED <<pRxBuf, usRxWrite, usRxRead, usRxCount, pByte, arrived,
                 taken, lastOut, overrun>>

GetCharCopy ==
  /\ rxPc = "copy"
  /\ pByte' = pRxBuf[usRxRead]
  /\ rxPc' = "advance"
  /\ UNCHANGED <<pRxBuf, usRxWrite, usRxRead, usRxCount, arrived, taken,
                 lastOut, overrun>>

BugForgetsCount == usRxCount
CountRemoval == usRxCount - 1

GetCharAdvance ==
  /\ rxPc = "advance"
  /\ usRxRead' = RxWrap(usRxRead)
  /\ usRxCount' = CountRemoval
  /\ rxPc' = "idle"
  /\ lastOut' = pByte
  /\ taken' = taken + 1
  /\ UNCHANGED <<pRxBuf, usRxWrite, pByte, arrived, overrun>>

UartGetChar == GetCharBegin \/ GetCharCopy \/ GetCharAdvance

RxNext == Uart0RxCpltIRQ \/ UartGetChar

(* The main loop keeps calling UartGetChar.                                *)
RxSpec == RxInit /\ [][RxNext]_rxVars /\ WF_rxVars(UartGetChar)

-----------------------------------------------------------------------------
RxIndex == 0 .. RxBufSize - 1

(* The ring's indices and count stay in range, whether or not it overran.  *)
RxTypeOK ==
  /\ pRxBuf \in [RxIndex -> Nat]
  /\ usRxWrite \in RxIndex /\ usRxRead \in RxIndex
  /\ usRxCount \in 0 .. RxBufSize
  /\ rxPc \in {"idle", "copy", "advance"} /\ pByte \in Nat
  /\ arrived \in Nat /\ taken \in Nat /\ lastOut \in Nat
  /\ overrun \in BOOLEAN

(* The slot of the k-th byte that waits, counting from 0.                  *)
RxSlot(k) ==
  IF usRxRead + k >= RxBufSize THEN usRxRead + k - RxBufSize ELSE usRxRead + k

(* Until the ring overruns it holds exactly the bytes that arrived and     *)
(* have not been returned, in order from usRxRead, although the handler    *)
(* may store between the copy and the masked removal.                      *)
RingHoldsWaiting ==
  ~overrun =>
    /\ usRxCount = arrived - taken
    /\ \A k \in RxIndex : k < usRxCount => pRxBuf[RxSlot(k)] = taken + 1 + k
    /\ rxPc = "advance" => pByte = taken + 1

(* The ring implements the FIFO.                                           *)
Fifo == INSTANCE ByteFifo WITH Capacity <- RxBufSize, lost <- overrun
ImplementsFifo == Fifo!Spec

(* Every byte is eventually returned unless the ring overruns.             *)
BytesDelivered == \A b \in 1 .. MaxBytes :
  arrived >= b ~> (taken >= b \/ overrun)

=============================================================================
