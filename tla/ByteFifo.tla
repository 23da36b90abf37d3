------------------------------ MODULE ByteFifo ------------------------------
(***************************************************************************)
(* What a receive FIFO promises: bytes come out in the order they went in, *)
(* each once.  A byte is the serial number of its arrival, so the content  *)
(* of the FIFO is the interval of numbers between two counters.  A byte    *)
(* that arrives while Capacity are waiting ends the promise: the source    *)
(* documents no behaviour for it.                                          *)
(***************************************************************************)
EXTENDS Naturals

CONSTANT Capacity

VARIABLES
  arrived,  \* bytes put so far
  taken,    \* bytes got so far
  lastOut,  \* the byte the last Get returned, 0 before the first
  lost      \* a byte arrived at a full FIFO

vars == <<arrived, taken, lastOut, lost>>

Init == arrived = 0 /\ taken = 0 /\ lastOut = 0 /\ lost = FALSE

Put ==
  /\ ~lost
  /\ arrived' = arrived + 1
  /\ lost' = (arrived - taken >= Capacity)
  /\ UNCHANGED <<taken, lastOut>>

Get ==
  /\ ~lost
  /\ taken < arrived
  /\ taken' = taken + 1
  /\ lastOut' = taken + 1
  /\ UNCHANGED <<arrived, lost>>

AfterLoss == lost /\ lost'

Next == Put \/ Get \/ AfterLoss

Spec == Init /\ [][Next]_vars

=============================================================================
