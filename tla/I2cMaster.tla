----------------------------- MODULE I2cMaster -----------------------------
(***************************************************************************)
(* The bit-banged I2C masters: xgpio_i2c.c, whose buses are pins of one    *)
(* AXI GPIO port, each write of which rewrites the whole port with the     *)
(* levels just read, and emio_i2c.c, which moves one pin of the PS GPIO at *)
(* a time; with the register and EEPROM transfers made of their routines.  *)
(*                                                                         *)
(* One operation on the pins (a direction, a write, a sample, a wait) is   *)
(* one step.  Each bus has a slave that follows the wires: it samples when *)
(* scl rises, moves sda when scl falls, sees START and STOP, may refuse a  *)
(* byte, and may hold scl low for a while when it acknowledges one.  A     *)
(* line is low when either side pulls it low.  Delays are left out.        *)
(***************************************************************************)
EXTENDS Naturals, Sequences

CONSTANTS
  Buses,      \* the buses of the port (i2c_no)
  Bits,       \* bits of a byte, 8 in the code
  Own,        \* the address the slaves answer, in Bits - 1 bits
  AddrSize,   \* AddrSize[b]: bytes of a register's address in b's slave
  Contents,   \* Contents[b]: what b's slave holds at first
  Calls,      \* the calls made: records of Call
  MaxCalls    \* bound: calls

Byte == 0 .. 2^Bits - 1
Cells(b) == 0 .. 2^(Bits * AddrSize[b]) - 1

ASSUME I2cAssumption ==
  /\ Bits \in Nat \ {0} /\ Own \in 0 .. 2^(Bits - 1) - 1 /\ MaxCalls \in Nat
  /\ AddrSize \in [Buses -> 1 .. 2]
  /\ \A b \in Buses : Contents[b] \in [Cells(b) -> Byte]

VARIABLES
  dir,     \* direction register, per pin: 1 input, 0 output
  latch,   \* output register, per pin
  slave,   \* the slave of each bus (see Idle)
  mem,     \* mem[b]: the registers of b's slave
  call,    \* the call under way, or None
  frames,  \* its transfers still to begin
  todo,    \* the routines the transfer has yet to run
  ops,     \* the pin operations the routine has yet to do
  check,   \* what i2c_recv_ack sampled
  rx,      \* the bits of the byte being received
  data,    \* the bytes received by the call
  status,  \* what the last call returned
  lost,    \* history: the call passed over an error (see README)
  calls    \* history: calls begun

pins == <<dir, latch>>
bus == <<pins, slave, mem>>
prog == <<call, frames, todo, ops>>
regs == <<check, rx, data, status, lost, calls>>
vars == <<bus, prog, regs>>

Pins == Buses \X {"sda", "scl"}
None == [drv |-> "xgpio", b |-> 1, frames |-> <<>>]

In == 1
Out == 0
Keep == 2    \* neither line value: the pin is not meant to change

(***************************************************************************)
(* The wires.                                                              *)
(***************************************************************************)
Pulls(d, l, p) == d[p] = Out /\ l[p] = 0
Wire(d, l, s, p) == IF Pulls(d, l, p) \/ s[p[2]] = 0 THEN 0 ELSE 1
Level(p) == Wire(dir, latch, slave[p[1]], p)

(***************************************************************************)
(* The slave: what it does with an edge.                                   *)
(*   mode: "idle" no transfer, "deaf" until START or STOP, "addr" the      *)
(*         slave address, "reg" the register's, "data", "send"             *)
(*   ack:  in the acknowledge clock of a byte                              *)
(*   n:    bits of the byte passed;  sh: their value;  at: the register    *)
(*   left: address bytes still to come;  sda, scl: what it lets the line be*)
(***************************************************************************)
Idle == [mode |-> "idle", ack |-> FALSE, n |-> 0, sh |-> 0, at |-> 0,
         left |-> 0, sda |-> 1, scl |-> 1]

BitOf(v, i) == IF (v \div 2^(Bits - i)) % 2 = 0 THEN 0 ELSE 1

Start(s) == [s EXCEPT !.mode = "addr", !.ack = FALSE, !.n = 0, !.sh = 0]
Stop(s) == [s EXCEPT !.mode = "idle", !.ack = FALSE, !.n = 0]

Rise(s, sda) ==
  IF s.mode \in {"idle", "deaf"} \/ (s.ack /\ s.mode # "send") THEN s
  ELSE IF s.ack THEN [s EXCEPT !.sh = sda]
  ELSE [s EXCEPT !.n = @ + 1, !.sh = IF s.mode = "send" THEN @ ELSE 2 * @ + sda]

NextCell(b, a) == IF a + 1 = 2^(Bits * AddrSize[b]) THEN 0 ELSE a + 1

\* A byte has come in: what the slave is ready for once it has acknowledged.
Accepted(b, s) ==
  LET t == [s EXCEPT !.ack = TRUE, !.n = 0, !.sda = 0]
  IN  CASE s.mode = "addr" /\ s.sh % 2 = 0 ->
             [t EXCEPT !.mode = "reg", !.left = AddrSize[b], !.at = 0]
        [] s.mode = "addr" /\ s.sh % 2 = 1 -> [t EXCEPT !.mode = "send"]
        [] s.mode = "reg" ->
             [t EXCEPT !.at = @ * 2^Bits + s.sh, !.left = @ - 1,
                       !.mode = IF s.left = 1 THEN "data" ELSE "reg"]
        [] OTHER -> [t EXCEPT !.at = NextCell(b, @)]

Refused(s) == [s EXCEPT !.mode = "deaf", !.n = 0]

\* scl falls: the states the slave may go to.  A slave that sends puts its next
\* bit on sda, after the last one lets the master answer, and goes on or gives up
\* as that answer says; one that takes a byte ends its acknowledge, or has the
\* whole byte and acknowledges or refuses it.
FallsSending(b, s) ==
  IF s.ack
  THEN {IF s.sh = 1 THEN Refused([s EXCEPT !.ack = FALSE])
        ELSE [s EXCEPT !.ack = FALSE, !.n = 0, !.sh = 0,
                       !.sda = BitOf(mem[b][s.at], 1)]}
  ELSE {IF s.n = Bits THEN [s EXCEPT !.ack = TRUE, !.sda = 1, !.at = NextCell(b, @)]
        ELSE [s EXCEPT !.sda = BitOf(mem[b][s.at], s.n + 1)]}
FallsTaking(b, s) ==
  IF s.ack THEN {[s EXCEPT !.ack = FALSE, !.sda = 1, !.sh = 0]}
  ELSE IF s.n # Bits THEN {s}
  ELSE IF s.mode = "addr" /\ s.sh \div 2 # Own THEN {Refused(s)}
  ELSE LET t == [Accepted(b, s) EXCEPT !.sh = 0]
       IN  {Refused(s), t, IF call.stretch THEN [t EXCEPT !.scl = 0] ELSE t}
Falls(b, s) ==
  IF s.mode \in {"idle", "deaf"} THEN {s}
  ELSE IF s.mode = "send" THEN FallsSending(b, s) ELSE FallsTaking(b, s)

OnSda(s, old, new, scl) ==
  IF old = new \/ scl = 0 THEN s ELSE IF new = 0 THEN Start(s) ELSE Stop(s)
OnScl(b, s, old, new, sda) ==
  IF old = new THEN {s} ELSE IF new = 1 THEN {Rise(s, sda)} ELSE Falls(b, s)

\* The pins become d and l: when both lines move, either may be first.
Hears(b, d, l) ==
  LET s == slave[b]
      sda0 == Level(<<b, "sda">>)    sda1 == Wire(d, l, s, <<b, "sda">>)
      scl0 == Level(<<b, "scl">>)    scl1 == Wire(d, l, s, <<b, "scl">>)
  IN  OnScl(b, OnSda(s, sda0, sda1, scl0), scl0, scl1, sda1)
      \cup {OnSda(t, sda0, sda1, scl1) : t \in OnScl(b, s, scl0, scl1, sda0)}

\* A data byte just taken goes to the register the slave was at.
Stores(b, s, t) ==
  IF s.mode = "data" /\ t.mode = "data" /\ ~s.ack /\ t.ack
  THEN [mem EXCEPT ![b][s.at] = s.sh] ELSE mem

Drive(d, l) ==
  /\ dir' = d /\ latch' = l
  /\ LET hears == [b \in Buses |-> Hears(b, d, l)]
     IN  \E h \in [Buses -> UNION {hears[b] : b \in Buses}] :
           /\ \A b \in Buses : h[b] \in hears[b]
           /\ slave' = h
           /\ mem' = Stores(call.b, slave[call.b], h[call.b])

(***************************************************************************)
(* Pin operations.                                                         *)
(***************************************************************************)
Dir(sda, scl) == [k |-> "dir", sda |-> sda, scl |-> scl]
Put(sda, scl) == [k |-> "put", sda |-> sda, scl |-> scl]
Sample == [k |-> "sample", sda |-> Keep, scl |-> Keep]
Check == [k |-> "check", sda |-> Keep, scl |-> Keep]
Wait == [k |-> "wait", sda |-> Keep, scl |-> Keep]

\* The value an operation names for a pin, Keep for every other pin.
Named(o, p) ==
  IF p[1] # call.b THEN Keep ELSE IF p[2] = "sda" THEN o.sda ELSE o.scl

\* XGpio_SetDataDirection after XGpio_GetDataDirection; XGpioPs_SetDirectionPin
\* and XGpioPs_SetOutputEnablePin.
BugDirSetsPort(o) == [p \in Pins |-> IF Named(o, p) # Keep THEN Named(o, p) ELSE Out]
Directed(o) == [p \in Pins |-> IF Named(o, p) # Keep THEN Named(o, p) ELSE dir[p]]

\* XGpio_DiscreteWrite of what XGpio_DiscreteRead gave, with some bits set or
\* cleared; XGpioPs_WritePin.
Written(o) ==
  [p \in Pins |-> IF Named(o, p) # Keep THEN Named(o, p)
                  ELSE IF call.drv = "xgpio" THEN Level(p) ELSE latch[p]]

(***************************************************************************)
(* The routines of xgpio_i2c.c.                                            *)
(***************************************************************************)
\* Three operations for each bit.
EachBit(Of(_)) == [k \in 1 .. 3 * Bits |-> Of((k + 2) \div 3)[((k + 2) % 3) + 1]]

i2c_start == <<Dir(Out, Out), Put(1, 1), Put(0, 1), Put(0, 0)>>
i2c_stop ==
  <<Put(0, 0), Dir(Out, Out), Put(0, 0), Put(0, 1), Put(1, 1), Dir(In, In)>>
Answer(v) == <<Dir(Out, Out), Put(v, 0), Put(v, 1), Put(v, 0), Dir(In, Out)>>
i2c_ack == Answer(0)
BugNackIsAck == Answer(0)
i2c_nack == Answer(1)
i2c_send_byte(txd) ==
  LET bit(i) == <<Put(BitOf(txd, i), 0), Put(Keep, 1), Put(Keep, 0)>>
  IN  <<Dir(Out, Out), Put(Keep, 0)>> \o EachBit(bit) \o <<Dir(In, Out)>>
BugSamplesLate ==
  LET bit(i) == <<Put(Keep, 1), Put(Keep, 0), Sample>>
  IN  <<Dir(In, Out), Put(Keep, 0)>> \o EachBit(bit) \o <<Dir(Out, Out)>>
i2c_recv_byte ==
  LET bit(i) == <<Put(Keep, 1), Sample, Put(Keep, 0)>>
  IN  <<Dir(In, Out), Put(Keep, 0)>> \o EachBit(bit) \o <<Dir(Out, Out)>>
i2c_recv_ack(stretch) ==
  <<Dir(In, Out), Put(Keep, 0)>>
  \o (IF stretch THEN <<Dir(In, In), Wait, Check, Dir(In, Out)>>
      ELSE <<Put(Keep, 1), Check>>)
  \o <<Put(Keep, 0)>> \o (IF stretch THEN <<Put(1, 0)>> ELSE <<>>)
  \o <<Dir(Out, Out), Put(1, 0)>>

(***************************************************************************)
(* The routines of emio_i2c.c: the same, one pin at a time.                *)
(***************************************************************************)
Sda(v) == Put(v, Keep)
Scl(v) == Put(Keep, v)
BothOut == <<Dir(Keep, Out), Dir(Out, Keep)>>
SdaIn == <<Dir(Keep, Out), Dir(In, Keep)>>

emio_i2c_start == BothOut \o <<Scl(1), Sda(1), Sda(0), Scl(0)>>
emio_i2c_stop ==
  <<Scl(0), Sda(0)>> \o BothOut \o <<Scl(0), Sda(0), Scl(1), Sda(1)>>
  \o <<Dir(Keep, In), Dir(In, Keep)>>
emio_i2c_ack == BothOut \o <<Scl(0), Sda(0), Scl(1), Scl(0)>> \o SdaIn
emio_i2c_nack ==
  <<Dir(Out, Keep), Dir(Keep, Out), Scl(0), Sda(1), Scl(1), Scl(0)>> \o SdaIn
emio_i2c_send_byte(txd) ==
  LET bit(i) == <<Sda(BitOf(txd, i)), Scl(1), Scl(0)>>
  IN  <<Dir(Out, Keep), Dir(Keep, Out), Scl(0)>> \o EachBit(bit) \o SdaIn
BugSdaStaysOut ==
  LET bit(i) == <<Scl(1), Sample, Scl(0)>>
  IN  <<Dir(Keep, Out), Scl(0)>> \o EachBit(bit) \o <<Dir(Out, Keep)>>
emio_i2c_recv_byte ==
  LET bit(i) == <<Scl(1), Sample, Scl(0)>>
  IN  <<Dir(In, Keep), Dir(Keep, Out), Scl(0)>> \o EachBit(bit)
      \o <<Dir(Out, Keep)>>
emio_i2c_recv_ack(stretch) ==
  <<Dir(In, Keep), Dir(Keep, Out), Scl(0)>>
  \o (IF stretch THEN <<Dir(Keep, In), Scl(0), Wait>> ELSE <<Scl(1)>>)
  \o <<Check, Dir(Keep, Out), Scl(0)>>
  \o (IF stretch THEN <<Sda(1), Scl(0)>> ELSE <<>>)
  \o <<Dir(Out, Keep), Sda(1), Scl(0)>>

(***************************************************************************)
(* Transfers: sequences of routines; and the calls made of them.           *)
(***************************************************************************)
R(r, v) == [r |-> r, v |-> v]
StartR == <<R("start", 0)>>
StopR == <<R("stop", 0)>>
Sent(bytes) ==
  [k \in 1 .. 2 * Len(bytes) |->
     IF k % 2 = 1 THEN R("send", bytes[(k + 1) \div 2]) ELSE R("rack", 0)]
Received(n) ==
  [k \in 1 .. 2 * n |->
     IF k % 2 = 1 THEN R("recv", 0) ELSE R(IF k = 2 * n THEN "nack" ELSE "ack", 0)]

\* xgpio_i2c_reg8_write and _reg16_write: addr has one byte, or two.
reg_write(dev, addr, v) == StartR \o Sent(<<2 * dev>> \o addr \o <<v>>) \o StopR

\* xgpio_i2c_reg8_read and _reg16_read.
reg_read(dev, addr) ==
  StartR \o Sent(<<2 * dev>> \o addr)
  \o StartR \o Sent(<<2 * dev + 1>>) \o Received(1) \o StopR

\* xgpio_i2c_write, emio_i2c_write: the bytes of a buffer; STOP or not.
i2c_write(dev, bytes, mode) ==
  StartR \o Sent(<<2 * dev>> \o bytes) \o (IF mode = "BUS_STOP" THEN StopR ELSE <<>>)

\* xgpio_i2c_read, emio_i2c_read.
i2c_read(dev, n) == StartR \o Sent(<<2 * dev + 1>>) \o Received(n) \o StopR

(***************************************************************************)
(* A call: the driver whose routines it uses, its bus, whether it allows   *)
(* clock stretching, the device and register asked for, the bytes to write *)
(* from that register on, how many to read, and its transfers.             *)
(* EepromReadData takes no notice of what its two transfers return.        *)
(***************************************************************************)
Call(drv, b, stretch, dev, addr, bytes, n, fs) ==
  [drv |-> drv, b |-> b, stretch |-> stretch, dev |-> dev, addr |-> addr,
   bytes |-> bytes, n |-> n, frames |-> fs]
RegWrite(b, stretch, dev, addr, v) ==
  Call("xgpio", b, stretch, dev, addr, <<v>>, 0, <<reg_write(dev, addr, v)>>)
RegRead(b, stretch, dev, addr) ==
  Call("xgpio", b, stretch, dev, addr, <<>>, 1, <<reg_read(dev, addr)>>)
\* emio_i2c.c's register routines are made of xgpio_i2c.c's i2c_start, i2c_stop and
\* the rest, not of its own: they move the pins of the AXI GPIO port.
emio_i2c_reg8_write(b, stretch, dev, addr, v) == RegWrite(b, stretch, dev, addr, v)
emio_i2c_reg8_read(b, stretch, dev, addr) == RegRead(b, stretch, dev, addr)
emio_i2c_reg16_write(b, stretch, dev, addr, v) == RegWrite(b, stretch, dev, addr, v)
emio_i2c_reg16_read(b, stretch, dev, addr) == RegRead(b, stretch, dev, addr)

PageWrite(drv, b, dev, addr, bytes) ==
  Call(drv, b, FALSE, dev, addr, bytes, 0, <<i2c_write(dev, addr \o bytes, "BUS_STOP")>>)
EepromReadData(drv, b, dev, addr, n) ==
  Call(drv, b, FALSE, dev, addr, <<>>, n,
       <<i2c_write(dev, addr, "NO_STOP"), i2c_read(dev, n)>>)
IgnoresStatus(c) == Len(c.frames) = 2

ASSUME CallsAssumption ==
  \A c \in Calls :
    /\ c.b \in Buses /\ c.dev \in Nat /\ c.n \in Nat
    /\ c.addr \in Seq(Byte) /\ c.bytes \in Seq(Byte)
    /\ \/ \E st \in BOOLEAN, v \in Byte : c = RegWrite(c.b, st, c.dev, c.addr, v)
       \/ \E st \in BOOLEAN : c = RegRead(c.b, st, c.dev, c.addr)
       \/ \E drv \in {"xgpio", "emio"} :
            \/ c = PageWrite(drv, c.b, c.dev, c.addr, c.bytes)
            \/ c.n > 0 /\ c = EepromReadData(drv, c.b, c.dev, c.addr, c.n)

Routine(c, r) ==
  IF c.drv = "xgpio"
  THEN CASE r.r = "start" -> i2c_start
         [] r.r = "stop" -> i2c_stop
         [] r.r = "ack" -> i2c_ack
         [] r.r = "nack" -> i2c_nack
         [] r.r = "send" -> i2c_send_byte(r.v)
         [] r.r = "recv" -> i2c_recv_byte
         [] r.r = "rack" -> i2c_recv_ack(c.stretch)
  ELSE CASE r.r = "start" -> emio_i2c_start
         [] r.r = "stop" -> emio_i2c_stop
         [] r.r = "ack" -> emio_i2c_ack
         [] r.r = "nack" -> emio_i2c_nack
         [] r.r = "send" -> emio_i2c_send_byte(r.v)
         [] r.r = "recv" -> emio_i2c_recv_byte
         [] r.r = "rack" -> emio_i2c_recv_ack(c.stretch)

(***************************************************************************)
(* Steps.                                                                  *)
(***************************************************************************)
\* xgpio_i2c_init, emio_init: every pin an input, its output register at 1.
Init ==
  /\ dir = [p \in Pins |-> In] /\ latch = [p \in Pins |-> 1]
  /\ slave = [b \in Buses |-> Idle] /\ mem = Contents
  /\ call = None /\ frames = <<>> /\ todo = <<>> /\ ops = <<>>
  /\ check = 0 /\ rx = 0 /\ data = <<>> /\ status = "none"
  /\ lost = FALSE /\ calls = 0

Free(b) ==
  /\ \A w \in {"sda", "scl"} : dir[<<b, w>>] = In /\ Level(<<b, w>>) = 1
  /\ slave[b].mode = "idle"

Begin(c) ==
  /\ call = None /\ calls < MaxCalls
  /\ call' = c /\ frames' = c.frames /\ status' = "SUCCESS" /\ data' = <<>>
  /\ lost' = (\E b \in Buses : ~Free(b)) /\ calls' = calls + 1
  /\ UNCHANGED <<bus, todo, ops, check, rx>>

NextRoutine ==
  /\ call # None /\ ops = <<>> /\ check = 0 /\ todo # <<>>
  /\ ops' = Routine(call, Head(todo)) /\ todo' = Tail(todo) /\ rx' = 0
  /\ UNCHANGED <<bus, call, frames, check, data, status, lost, calls>>

\* The byte was refused: STOP, and the transfer fails.
RefusedByte ==
  /\ call # None /\ ops = <<>> /\ check = 1
  /\ todo' = StopR /\ check' = 0
  /\ IF IgnoresStatus(call) THEN lost' = TRUE /\ UNCHANGED status
     ELSE status' = "FAILURE" /\ UNCHANGED lost
  /\ UNCHANGED <<bus, call, frames, ops, rx, data, calls>>

NextTransfer ==
  /\ call # None /\ ops = <<>> /\ todo = <<>> /\ check = 0 /\ frames # <<>>
  /\ todo' = Head(frames) /\ frames' = Tail(frames)
  /\ UNCHANGED <<bus, call, ops, regs>>

Return ==
  /\ call # None /\ ops = <<>> /\ todo = <<>> /\ check = 0 /\ frames = <<>>
  /\ call' = None
  /\ UNCHANGED <<bus, frames, todo, ops, regs>>

Do(kind) == ops # <<>> /\ Head(ops).k = kind /\ ops' = Tail(ops)

SetDataDirection ==
  /\ Do("dir") /\ Drive(Directed(Head(ops)), latch)
  /\ UNCHANGED <<call, frames, todo, regs>>

DiscreteWrite ==
  /\ Do("put") /\ Drive(dir, Written(Head(ops)))
  /\ UNCHANGED <<call, frames, todo, regs>>

SampleBit ==
  /\ Do("sample")
  /\ LET bit == Level(<<call.b, "sda">>)
     IN  data' = IF rx = 0 THEN Append(data, bit)
                 ELSE [data EXCEPT ![Len(data)] = 2 * @ + bit]
  /\ rx' = rx + 1
  /\ UNCHANGED <<bus, call, frames, todo, check, status, lost, calls>>

SampleAck ==
  /\ Do("check") /\ check' = Level(<<call.b, "sda">>)
  /\ UNCHANGED <<bus, call, frames, todo, rx, data, status, lost, calls>>

\* The wait for scl to rise ends, or its 100000 turns do: then the routine goes on.
SclIsHigh ==
  /\ Do("wait") /\ Level(<<call.b, "scl">>) = 1
  /\ UNCHANGED <<bus, call, frames, todo, regs>>
BugWaitsForEver == FALSE
GiveUp ==
  /\ Do("wait") /\ Level(<<call.b, "scl">>) = 0
  /\ lost' = TRUE
  /\ UNCHANGED <<bus, call, frames, todo, check, rx, data, status, calls>>

\* The slave lets scl go.
Release(b) ==
  /\ slave[b].scl = 0
  /\ LET s == [slave[b] EXCEPT !.scl = 1]
         high == ~Pulls(dir, latch, <<b, "scl">>)
     IN  slave' = [slave EXCEPT ![b] =
                     IF high THEN Rise(s, Level(<<b, "sda">>)) ELSE s]
  /\ UNCHANGED <<pins, mem, prog, regs>>

Master ==
  \/ NextRoutine \/ RefusedByte \/ NextTransfer \/ Return
  \/ SetDataDirection \/ DiscreteWrite \/ SampleBit \/ SampleAck
  \/ SclIsHigh \/ GiveUp

Next == (\E c \in Calls : Begin(c)) \/ Master \/ \E b \in Buses : Release(b)

\* The program runs; that the slave ever lets scl go is not assumed.
Spec == Init /\ [][Next]_vars /\ WF_vars(Master)

(***************************************************************************)
(* Properties.                                                             *)
(***************************************************************************)
\* Between calls the bus is free: the master drives no pin, the slave is in no
\* transfer and both lines are high, whichever byte was refused before
\* (i2c_nack before i2c_stop, and i2c_stop on every way out).
BusReleased == call = None /\ ~lost => \A b \in Buses : Free(b)

\* The pins are push-pull, so a 1 against a slave's 0 is a fight whose level
\* nobody can tell.  The master turns sda round after scl fell and may fight the
\* slave's acknowledge, and its first bit; but never while scl is high, when a
\* bit is read or a START or STOP is seen, and never over scl.
Fights(p) == dir[p] = Out /\ latch[p] = 1 /\ slave[p[1]][p[2]] = 0
FightsOnlyWhileLow ==
  ~lost => \A p \in Pins : Fights(p) => p[2] = "sda" /\ Level(<<p[1], "scl">>) = 0

\* The buses of a port share its two registers: a call on one drives no pin of
\* another and moves neither of its lines.
OtherBusesQuiet ==
  \A b \in Buses : call # None /\ b # call.b /\ ~lost => Free(b)

\* A slave that holds scl low for ever cannot hang a call: i2c_recv_ack counts.
EveryCallReturns == (call # None) ~> (call = None)

(***************************************************************************)
(* The registers a caller sees (RegisterBus), of which this is a           *)
(* refinement: its variables are call, mem, data, status and lost.         *)
(***************************************************************************)
Promise == INSTANCE RegisterBus
PromiseKept == Promise!Spec

=============================================================================
