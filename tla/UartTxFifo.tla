----------------------------- MODULE UartTxFifo -----------------------------
(***************************************************************************)
(* The transmit half of uartlite_fifo.c: comSendBuf / UartSend run in the  *)
(* main loop and fill a ring buffer; Uart0TxCpltIRQ, called back by the    *)
(* driver's XUartLite_InterruptHandler when the UART's hardware FIFO has   *)
(* run empty, empties the ring; the RS485 transceiver is turned to output  *)
(* before the first byte is stored and back to input by the handler.       *)
(*                                                                         *)
(* A byte is the serial number 1, 2, 3, ... of its place in everything     *)
(* the application ever passed to comSendBuf, so that a byte that is lost, *)
(* repeated or stale shows as a gap, a repetition or a step back.  Foreign *)
(* stands for any byte the application never passed: what the ring holds   *)
(* before it is first filled, and what lies in memory behind it.           *)
(*                                                                         *)
(* The interrupt handler runs to completion with interrupts masked, and a  *)
(* pending interrupt is taken before the next step of the main loop: main  *)
(* steps only while no handler runs and none is pending.  What the code    *)
(* does between DISABLE_INT and ENABLE_INT is one step for that reason;    *)
(* the kick at the end of UartSend is not masked, and every load and store *)
(* it makes of usTxRead, which the handler advances too, is a step.        *)
(***************************************************************************)
EXTENDS Integers, Sequences

CONSTANTS
  TxBufSize,       \* UART0_TX_BUF_SIZE
  Lens,            \* the message lengths the application uses
  MaxMsgs          \* bound: how many times it calls comSendBuf

ASSUME TxBufAssumption ==
  /\ TxBufSize \in Nat \ {0}
  /\ Lens \subseteq Nat \ {0}
  /\ MaxMsgs \in Nat

VARIABLES
  pTxBuf, usTxWrite, usTxRead, usTxCount,  \* UART_T
  dir,        \* the RS485CTL register: "in" or "out"
  fifo,       \* the UART's transmit FIFO
  shift,      \* the byte in its shift register, or NoByte
  requested,  \* the driver's SendBuffer.RequestedBytes is not 0
  txIrq,      \* the FIFO-ran-empty interrupt is pending
  isr,        \* where Uart0TxCpltIRQ is, "off" when no handler runs
  pc,         \* where the main loop is in comSendBuf
  reg,        \* the copy of usTxRead the main loop holds in a register
  todo,       \* bytes of this message UartSend has yet to store
  next,       \* the serial number of the next byte to store
  starts,     \* history: the serial number of each message's first byte
  wire,       \* history: the bytes shifted out, oldest first
  overlapped, \* history: comSendBuf was called with a message under way
  rushed,     \* history: usleep(1000) ended before its byte was out
  torn        \* history: the first message during whose kick the handler
              \*   advanced usTxRead between UartSend's load and its last
              \*   store, 0 if it never did

vars == <<pTxBuf, usTxWrite, usTxRead, usTxCount, dir, fifo, shift, requested,
          txIrq, isr, pc, reg, todo, next, starts, wire, overlapped, rushed,
          torn>>

ring == <<pTxBuf, usTxWrite, usTxRead, usTxCount>>
hw   == <<fifo, shift, wire>>
past == <<starts, overlapped, rushed, torn>>

NoByte  == -1
Foreign == 0

(* if (++x >= size) x = 0: the way every index of the rings advances.      *)
BugWrapLate(i) == IF i + 1 > TxBufSize THEN 0 ELSE i + 1
Wrap(i) == IF i + 1 >= TxBufSize THEN 0 ELSE i + 1

(* UartSend waits for this before it stores a byte.                        *)
BugKeepOneFree == usTxCount + 1 < TxBufSize
HasRoom == usTxCount < TxBufSize

(* The handler is called because a byte has gone: it is no longer counted. *)
BugNotCounted == usTxCount
CountAtEntry == IF usTxCount # 0 THEN usTxCount - 1 ELSE 0

(* After a byte the handler sleeps.                                        *)
BugNoSleep == "loop"
AfterByte == "sleep"

(* What the handler waits for before it calls SendOver.                    *)
BugFifoUnread == usTxCount = 0
AllHandedOver == usTxCount = 0 /\ fifo = <<>>

(* The SendOver callback, RS485_SendOver: the transceiver is an input.     *)
BugSendOverNotSet == dir
SendOver == "in"

(* XUartLite_Send(uart, &b, 1): the byte enters the hardware FIFO and the  *)
(* driver remembers that a request is under way.  The FIFO is 16 deep and  *)
(* is not filled by the messages modelled here.                            *)
XUartLite_Send(b) ==
  /\ fifo' = Append(fifo, b)
  /\ requested' = TRUE

(* pTxBuf[i]; usTxRead may for a moment stand one place behind the ring.   *)
ByteAt(i) == IF i = TxBufSize THEN Foreign ELSE pTxBuf[i]

Init ==
  /\ pTxBuf = [i \in 0 .. TxBufSize - 1 |-> Foreign]
  /\ usTxWrite = 0 /\ usTxRead = 0 /\ usTxCount = 0
  /\ dir = "in"
  /\ fifo = <<>> /\ shift = NoByte /\ wire = <<>>
  /\ requested = FALSE /\ txIrq = FALSE /\ isr = "off"
  /\ pc = "idle" /\ reg = 0 /\ todo = 0 /\ next = 1 /\ starts = <<>>
  /\ overlapped = FALSE /\ rushed = FALSE /\ torn = 0

-----------------------------------------------------------------------------
(* The main loop.                                                          *)

MainRuns == isr = "off" /\ ~txIrq

(* The last message has left the UART and no interrupt is outstanding.     *)
Quiet == MainRuns /\ pc = "idle" /\ fifo = <<>> /\ shift = NoByte

(* comSendBuf: SendBefor turns the transceiver round, then UartSend starts.*)
ComSendBuf(n) ==
  /\ MainRuns /\ pc = "idle"
  /\ Len(starts) < MaxMsgs
  /\ dir' = "out"
  /\ pc' = "wait"
  /\ todo' = n
  /\ starts' = Append(starts, next)
  /\ overlapped' = (overlapped \/ ~Quiet)
  /\ UNCHANGED <<ring, hw, requested, txIrq, isr, reg, next, rushed, torn>>

(* The while (1) of UartSend ends when a masked read finds room.           *)
FindRoom ==
  /\ MainRuns /\ pc = "wait"
  /\ HasRoom
  /\ pc' = "store"
  /\ UNCHANGED <<ring, hw, dir, requested, txIrq, isr, reg, todo, next, past>>

StoreByte ==
  /\ MainRuns /\ pc = "store"
  /\ pTxBuf' = [pTxBuf EXCEPT ![usTxWrite] = next]
  /\ next' = next + 1
  /\ pc' = "count"
  /\ UNCHANGED <<usTxWrite, usTxRead, usTxCount, hw, dir, requested, txIrq,
                 isr, reg, todo, past>>

CountByte ==
  /\ MainRuns /\ pc = "count"
  /\ usTxWrite' = Wrap(usTxWrite)
  /\ usTxCount' = usTxCount + 1
  /\ todo' = todo - 1
  /\ pc' = IF todo = 1 THEN "kick" ELSE "wait"
  /\ UNCHANGED <<pTxBuf, usTxRead, hw, dir, requested, txIrq, isr, reg,
                 next, past>>

(* The kick, with interrupts enabled: UartSend loads usTxRead for the      *)
(* address of the first byte ...                                           *)
Kick ==
  /\ MainRuns /\ pc = "kick"
  /\ reg' = usTxRead
  /\ pc' = "send"
  /\ UNCHANGED <<ring, hw, dir, requested, txIrq, isr, todo, next, past>>

(* ... hands that byte to the UART ...                                     *)
SendFirst ==
  /\ MainRuns /\ pc = "send"
  /\ XUartLite_Send(pTxBuf[reg])
  /\ pc' = "load"
  /\ UNCHANGED <<ring, shift, wire, dir, txIrq, isr, reg, todo, next, past>>

(* ... and only then steps over it.  ++usTxRead is a load ...              *)
LoadRead ==
  /\ MainRuns /\ pc = "load"
  /\ reg' = usTxRead
  /\ pc' = "bump"
  /\ UNCHANGED <<ring, hw, dir, requested, txIrq, isr, todo, next, past>>

(* ... and a store, which overwrites what a handler in between has done;   *)
(* the value just stored is compared with the size ...                     *)
Bump ==
  /\ MainRuns /\ pc = "bump"
  /\ usTxRead' = reg + 1
  /\ pc' = IF reg + 1 >= TxBufSize THEN "wrap" ELSE "idle"
  /\ UNCHANGED <<pTxBuf, usTxWrite, usTxCount, hw, dir, requested, txIrq, isr,
                 reg, todo, next, past>>

(* ... and at the ring's end the index goes back by a store of its own.    *)
BumpToStart ==
  /\ MainRuns /\ pc = "wrap"
  /\ usTxRead' = 0
  /\ pc' = "idle"
  /\ UNCHANGED <<pTxBuf, usTxWrite, usTxCount, hw, dir, requested, txIrq, isr,
                 reg, todo, next, past>>

-----------------------------------------------------------------------------
(* The interrupt handler.                                                  *)

(* XUartLite_InterruptHandler calls Uart0TxCpltIRQ back when the FIFO is   *)
(* empty and a request was under way, and clears that request first.  The  *)
(* callback counts the byte that has just gone.                            *)
TxIrq ==
  /\ txIrq /\ isr = "off"
  /\ txIrq' = FALSE
  /\ IF fifo = <<>> /\ requested
     THEN /\ requested' = FALSE
          /\ isr' = "loop"
          /\ usTxCount' = CountAtEntry
     ELSE UNCHANGED <<requested, isr, usTxCount>>
  /\ UNCHANGED <<pTxBuf, usTxWrite, usTxRead, hw, dir, pc, reg, todo, next,
                 past>>

IsrSendNext ==
  /\ isr = "loop" /\ usTxCount # 0
  /\ XUartLite_Send(ByteAt(usTxRead))
  /\ usTxRead' = Wrap(usTxRead)
  /\ usTxCount' = usTxCount - 1
  /\ isr' = AfterByte
  /\ torn' = IF pc \in {"bump", "wrap"} /\ torn = 0 THEN Len(starts) ELSE torn
  /\ UNCHANGED <<pTxBuf, usTxWrite, shift, wire, dir, txIrq, pc, reg, todo,
                 next, starts, overlapped, rushed>>

(* usleep(1000): whether the line is done with the byte depends on its     *)
(* speed; from 19200 baud it is.                                           *)
IsrSleep ==
  /\ isr = "sleep"
  /\ isr' = "loop"
  /\ rushed' = (rushed \/ fifo # <<>> \/ shift # NoByte)
  /\ UNCHANGED <<ring, hw, dir, requested, txIrq, pc, reg, todo, next, starts,
                 overlapped, torn>>

(* The handler spins until the FIFO is empty, then SendOver.               *)
IsrSendOver ==
  /\ isr = "loop" /\ AllHandedOver
  /\ dir' = SendOver
  /\ isr' = "off"
  /\ UNCHANGED <<ring, hw, requested, txIrq, pc, reg, todo, next, past>>

-----------------------------------------------------------------------------
(* The UART itself.                                                        *)

(* A byte moves on to the shift register; an empty FIFO interrupts.        *)
LoadShift ==
  /\ fifo # <<>> /\ shift = NoByte
  /\ shift' = Head(fifo)
  /\ fifo' = Tail(fifo)
  /\ txIrq' = (txIrq \/ Len(fifo) = 1)
  /\ UNCHANGED <<ring, wire, dir, requested, isr, pc, reg, todo, next, past>>

ShiftOut ==
  /\ shift # NoByte
  /\ wire' = Append(wire, shift)
  /\ shift' = NoByte
  /\ UNCHANGED <<ring, fifo, dir, requested, txIrq, isr, pc, reg, todo, next,
                 past>>

-----------------------------------------------------------------------------
Main == \/ FindRoom \/ StoreByte \/ CountByte
        \/ Kick \/ SendFirst \/ LoadRead \/ Bump \/ BumpToStart
Isr  == TxIrq \/ IsrSendNext \/ IsrSleep \/ IsrSendOver
Uart == LoadShift \/ ShiftOut

Next == (\E n \in Lens : ComSendBuf(n)) \/ Main \/ Isr \/ Uart

(* The processor keeps executing and the UART keeps clocking; nothing says *)
(* that the application ever sends.                                        *)
Fairness == WF_vars(Main) /\ WF_vars(Isr) /\ WF_vars(Uart)

Spec == Init /\ [][Next]_vars /\ Fairness

-----------------------------------------------------------------------------
Index == 0 .. TxBufSize - 1

(* The count never exceeds the ring, and the indices stay inside it even   *)
(* when the handler runs between any two steps of UartSend, except that    *)
(* usTxRead stands behind the ring's end between the last two stores of a  *)
(* kick, for the handler to see.                                           *)
TypeOK ==
  /\ pTxBuf \in [Index -> Nat]
  /\ usTxWrite \in Index /\ reg \in Index
  /\ usTxRead \in Index \cup {TxBufSize}
  /\ usTxRead = TxBufSize => pc = "wrap"
  /\ usTxCount \in 0 .. TxBufSize
  /\ dir \in {"in", "out"}
  /\ fifo \in Seq(Nat) /\ shift \in Nat \cup {NoByte} /\ wire \in Seq(Nat)
  /\ requested \in BOOLEAN /\ txIrq \in BOOLEAN
  /\ isr \in {"off", "loop", "sleep"}
  /\ pc \in {"idle", "wait", "store", "count", "kick", "send", "load", "bump",
            "wrap"}
  /\ todo \in Nat /\ next \in Nat \ {0} /\ starts \in Seq(Nat)
  /\ overlapped \in BOOLEAN /\ rushed \in BOOLEAN /\ torn \in Nat

(* Between messages that do not overlap the ring is empty and the bus is   *)
(* released, whatever the kick has done to usTxRead, and the two indices   *)
(* meet as long as the handler has never advanced usTxRead while UartSend  *)
(* held a copy of it.  Once it has, no code sets them right again.         *)
AlignedWhenQuiet ==
  Quiet /\ ~overlapped =>
    usTxCount = 0 /\ dir = "in" /\ (torn = 0 => usTxRead = usTxWrite)

Filling == pc \in {"wait", "store", "count", "kick", "send"}

(* The transceiver drives the bus while comSendBuf fills the ring and for  *)
(* as long as a byte waits in the ring or in the FIFO of the UART.         *)
DrivenWhileQueued ==
  ~overlapped /\ (Filling \/ usTxCount # 0 \/ fifo # <<>>) => dir = "out"

(* SendOver follows the last stop bit, except on a line slower than the    *)
(* sleep and after a message of one byte, for which the handler does not   *)
(* sleep at all: "to be done after a string was sent" then comes too soon. *)
DrivenToTheEnd ==
  shift # NoByte /\ ~overlapped /\ ~rushed /\ starts[Len(starts)] # next - 1
    => dir = "out"

(* What became of the message whose bytes are numbered f .. l.  A second   *)
(* byte that is not the first one again was read behind the ring's end.    *)
Intact(f, l) == \A k \in f .. l : wire[k] = k
FirstRepeated(f, l) ==
  \A k \in f .. l : IF k = f THEN wire[k] = f
                    ELSE \/ wire[k] = k - 1
                         \/ k = f + 1 /\ wire[k] = Foreign

MsgEnd(m) == IF m = Len(starts) THEN next - 1 ELSE starts[m + 1] - 1

(* Every message puts as many bytes on the wire as it has, and up to and   *)
(* including the first message that tears usTxRead each leaves intact or   *)
(* with a second byte too many and its last never sent.  What the messages *)
(* after that one carry nothing bounds: they are sent from the wrong slots.*)
DamageIsBounded ==
  Quiet /\ ~overlapped =>
    /\ Len(wire) = next - 1
    /\ \A m \in 1 .. Len(starts) :
         torn = 0 \/ m <= torn =>
           Intact(starts[m], MsgEnd(m)) \/ FirstRepeated(starts[m], MsgEnd(m))

(* The message comSendBuf is busy with is no longer than the ring.         *)
Fits == next + todo - starts[Len(starts)] <= TxBufSize

(* comSendBuf returns for every message no longer than the ring.  For a    *)
(* longer one it waits for room in the ring, and if no earlier message is  *)
(* under way nothing makes any: the sending starts after the last byte.    *)
SendReturns == pc # "idle" /\ Fits ~> pc = "idle"

(* The bus is given back after every message.                              *)
BusReleased == dir = "out" ~> dir = "in" \/ (pc = "wait" /\ ~Fits)

=============================================================================
