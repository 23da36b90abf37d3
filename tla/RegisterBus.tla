---------------------------- MODULE RegisterBus ----------------------------
(***************************************************************************)
(* What a register or EEPROM transfer over I2C promises its caller: the    *)
(* registers of the device on the bus, and calls that read or write them.  *)
(* A call that returns SUCCESS has done what it was asked; one that fails  *)
(* has changed no register it was not asked to write.  A call that passed  *)
(* over an error (`lost') promises nothing, and the next one nothing unless *)
(* the bus was free again.                                                 *)
(***************************************************************************)
EXTENDS Naturals, Sequences

CONSTANTS
  Buses, Bits, Own, AddrSize, Contents, Calls

VARIABLES call, mem, data, status, lost

vars == <<call, mem, data, status, lost>>

Idle == [drv |-> "xgpio", b |-> 1, frames |-> <<>>]

\* The register a call's address names, and the i-th after it.
First(c) == IF Len(c.addr) = 1 THEN c.addr[1] ELSE c.addr[1] * 2^Bits + c.addr[2]
Cell(c, i) == (First(c) + i - 1) % 2^(Bits * AddrSize[c.b])

Init ==
  /\ call = Idle /\ mem = Contents /\ data = <<>> /\ status = "none"
  /\ lost = FALSE

Begin ==
  /\ call = Idle /\ call' \in Calls
  /\ data' = <<>> /\ status' = "SUCCESS" /\ lost' \in {FALSE, lost}
  /\ UNCHANGED mem

\* A byte reaches the register it was meant for; a device that is out of step
\* may take any byte for any register's.
Stray ==
  /\ call # Idle /\ lost
  /\ \E b \in Buses : \E a \in DOMAIN mem[b], v \in 0 .. 2^Bits - 1 :
       mem' = [mem EXCEPT ![b][a] = v]
  /\ UNCHANGED <<call, data, status, lost>>
Store ==
  /\ call # Idle
  /\ \E i \in 1 .. Len(call.bytes) :
       mem' = [mem EXCEPT ![call.b][Cell(call, i)] = call.bytes[i]]
  /\ UNCHANGED <<call, data, status, lost>>

\* Bytes come in, the call fails, or passes over an error: registers stay.
Work ==
  /\ call # Idle
  /\ lost => lost'
  /\ status' \in {status, "FAILURE"}
  /\ UNCHANGED <<call, mem>>

\* SUCCESS: every byte is written, or the bytes read are the registers'.
Done(c) ==
  /\ c.dev = Own
  /\ \A i \in 1 .. Len(c.bytes) : mem[c.b][Cell(c, i)] = c.bytes[i]
  /\ data = [i \in 1 .. c.n |-> mem[c.b][Cell(c, i)]]

Return ==
  /\ call # Idle /\ call' = Idle
  /\ status = "SUCCESS" /\ ~lost => Done(call)
  /\ UNCHANGED <<mem, data, status, lost>>

Next == Begin \/ Store \/ Stray \/ Work \/ Return

Spec == Init /\ [][Next]_vars

=============================================================================
