-------------------------- MODULE I2cMasterProofs --------------------------
(***************************************************************************)
(* The wires of the bit-banged masters, for every number of buses, every   *)
(* width of a byte, every slave and every sequence of calls.               *)
(*                                                                         *)
(* A proof outline gives a routine the lines it may find before each of    *)
(* its pin operations: the four bits of its bus's pins, the slave, and     *)
(* what i2c_recv_ack sampled.  A chain gives a transfer the phase before   *)
(* each of its routines.  The invariant says that the operations left of   *)
(* the routine under way have an outline from the lines as they are to a   *)
(* phase, and the routines left of the transfer a chain from that phase.   *)
(***************************************************************************)
EXTENDS I2cMaster, Integers, SequenceTheorems, TLAPS

Bit == {0, 1}
Modes == {"idle", "deaf", "addr", "reg", "data", "send"}
Slaves == [mode : Modes, ack : BOOLEAN, n : Nat, sh : Nat, at : Int,
           left : Int, sda : Bit, scl : Bit]
Ways == {In, Out}

(* A bus: the directions and latches of its pins, its slave, and check.    *)
Lines == [ds : Ways, dc : Ways, ls : Bit, lc : Bit, s : Slaves, ck : Bit]
Line(b) == [ds |-> dir[<<b, "sda">>], dc |-> dir[<<b, "scl">>],
            ls |-> latch[<<b, "sda">>], lc |-> latch[<<b, "scl">>],
            s |-> slave[b], ck |-> check]

Kinds == {"dir", "put", "sample", "check", "wait"}
Ops == [k : Kinds, sda : 0 .. 2, scl : 0 .. 2]
Names == {"start", "stop", "send", "recv", "ack", "nack", "rack"}
Routines == [r : Names, v : Nat]

(***************************************************************************)
(* What an operation does with a line, whatever the slave's registers hold *)
(* and whatever it decides.                                                *)
(***************************************************************************)
Lev(d, l, v) == IF (d = Out /\ l = 0) \/ v = 0 THEN 0 ELSE 1
SdaOf(x) == Lev(x.ds, x.ls, x.s.sda)
SclOf(x) == Lev(x.dc, x.lc, x.s.scl)

(* scl falls: t is one of the states the slave s may go to.                *)
Taking == {"addr", "reg", "data"}
FallsTo(c, s, t) ==
  /\ t \in Slaves
  /\ \/ t = s /\ \/ s.mode \in {"idle", "deaf"}
                 \/ s.mode \in Taking /\ s.ack = FALSE /\ s.n # Bits
     \/ /\ s.mode = "send" /\ s.ack = TRUE /\ t.ack = FALSE /\ t.n = 0
        /\ t.scl = s.scl
        /\ \/ s.sh = 1 /\ t.mode = "deaf" /\ t.sda = s.sda
           \/ s.sh # 1 /\ t.mode = "send"
     \/ /\ s.mode = "send" /\ s.ack = FALSE /\ t.mode = "send" /\ t.n = s.n
        /\ t.scl = s.scl
        /\ \/ s.n = Bits /\ t.ack = TRUE /\ t.sda = 1
           \/ s.n # Bits /\ t.ack = FALSE
     \/ /\ s.mode \in Taking /\ s.ack = TRUE /\ t.mode = s.mode /\ t.n = s.n
        /\ t.ack = FALSE /\ t.sda = 1 /\ t.scl = s.scl
     \/ /\ s.mode \in Taking /\ s.ack = FALSE /\ s.n = Bits /\ t.n = 0
        /\ \/ t.mode = "deaf" /\ t.sda = s.sda /\ t.scl = s.scl
           \/ /\ t.ack = TRUE /\ t.sda = 0 /\ t.sh = 0
              /\ t.scl = s.scl \/ c.stretch = TRUE
              /\ \/ s.mode = "addr" /\ s.sh % 2 = 0 /\ t.mode = "reg"
                 \/ s.mode = "addr" /\ s.sh % 2 = 1 /\ t.mode = "send"
                 \/ s.mode # "addr" /\ t.mode \in {"reg", "data"}

(* Both lines go from their old to their new levels, in either order.      *)
SclTo(c, s, old, new, sda, t) ==
  \/ old = new /\ t = s
  \/ old # new /\ new = 1 /\ t = Rise(s, sda)
  \/ old # new /\ new # 1 /\ FallsTo(c, s, t)
HearsTo(c, s, sda0, sda1, scl0, scl1, t) ==
  \/ SclTo(c, OnSda(s, sda0, sda1, scl0), scl0, scl1, sda1, t)
  \/ \E u \in Slaves : SclTo(c, s, scl0, scl1, sda0, u)
                       /\ t = OnSda(u, sda0, sda1, scl1)

Or(v, old) == IF v # Keep THEN v ELSE old
Pin(c, level, old) == IF c.drv = "xgpio" THEN level ELSE old

(* Operation o may make line y of line x.                                  *)
Moves(c, o, x, y) ==
  /\ o.k = "dir" => /\ y.ds = Or(o.sda, x.ds) /\ y.dc = Or(o.scl, x.dc)
                    /\ y.ls = x.ls /\ y.lc = x.lc
  /\ o.k = "put" => /\ y.ls = Or(o.sda, Pin(c, SdaOf(x), x.ls))
                    /\ y.lc = Or(o.scl, Pin(c, SclOf(x), x.lc))
                    /\ y.ds = x.ds /\ y.dc = x.dc
  /\ HearsTo(c, x.s, SdaOf(x), Lev(y.ds, y.ls, x.s.sda),
             SclOf(x), Lev(y.dc, y.lc, x.s.scl), y.s)
  /\ y.ck = x.ck
After(c, o, x, y) ==
  /\ y \in Lines
  /\ \/ o.k \in {"dir", "put"} /\ Moves(c, o, x, y)
     \/ o.k = "sample" /\ y = x
     \/ o.k = "wait" /\ SclOf(x) = 1 /\ y = x
     \/ o.k = "check" /\ y = [x EXCEPT !.ck = SdaOf(x)]

(* The slave lets scl go.                                                  *)
LetGo(s) == [s EXCEPT !.scl = 1]
Freed(x, y) ==
  /\ x.s.scl = 0
  /\ y = [x EXCEPT !.s = IF x.dc = Out /\ x.lc = 0 THEN LetGo(x.s)
                         ELSE Rise(LetGo(x.s), SdaOf(x))]

(* No fight but over sda, while scl is low.                                *)
Peaceful(x) ==
  /\ ~(x.dc = Out /\ x.lc = 1 /\ x.s.scl = 0)
  /\ x.ds = Out /\ x.ls = 1 /\ x.s.sda = 0 => SclOf(x) = 0

Asserts == {A \in SUBSET Lines :
              \A x \in A : Peaceful(x) /\ \A y : Freed(x, y) => y \in A}
Fits(c, A, o, B) == \A x \in A : \A y : After(c, o, x, y) => y \in B
Outline(c, P, s, Q) ==
  /\ s \in Seq(Ops)
  /\ \E a \in [0 .. Len(s) -> Asserts] :
       /\ P \subseteq a[0] /\ a[Len(s)] \subseteq Q
       /\ \A k \in 1 .. Len(s) : Fits(c, a[k - 1], s[k], a[k])

(***************************************************************************)
(* The edges.                                                              *)
(***************************************************************************)
LEMMA StartFields ==
  ASSUME NEW s \in Slaves
  PROVE  /\ Start(s) \in Slaves /\ Start(s).mode = "addr"
         /\ Start(s).ack = FALSE /\ Start(s).n = 0
         /\ Start(s).sda = s.sda /\ Start(s).scl = s.scl
BY DEF Start, Slaves, Modes

LEMMA StopFields ==
  ASSUME NEW s \in Slaves
  PROVE  /\ Stop(s) \in Slaves /\ Stop(s).mode = "idle"
         /\ Stop(s).ack = FALSE /\ Stop(s).n = 0
         /\ Stop(s).sda = s.sda /\ Stop(s).scl = s.scl
BY DEF Stop, Slaves, Modes

LEMMA RiseFields ==
  ASSUME NEW s \in Slaves, NEW sda \in Bit
  PROVE  /\ Rise(s, sda) \in Slaves
         /\ Rise(s, sda).mode = s.mode /\ Rise(s, sda).ack = s.ack
         /\ Rise(s, sda).sda = s.sda /\ Rise(s, sda).scl = s.scl
<1>1. CASE s.mode \in {"idle", "deaf"} \/ (s.ack = TRUE /\ s.mode # "send")
  BY <1>1 DEF Rise
<1>2. CASE ~(s.mode \in {"idle", "deaf"}) /\ s.ack = TRUE /\ s.mode = "send"
  BY <1>2 DEF Rise, Slaves, Modes, Bit
<1>3. CASE ~(s.mode \in {"idle", "deaf"}) /\ s.ack = FALSE
  <2> DEFINE h == IF s.mode = "send" THEN s.sh ELSE 2 * s.sh + sda
             m == s.n + 1
  <2>1. Rise(s, sda) = [s EXCEPT !.n = m, !.sh = h]
    BY <1>3 DEF Rise, Slaves
  <2>2. h \in Nat /\ m \in Nat
    BY DEF Slaves, Bit
  <2> HIDE DEF h, m
  <2> QED BY <2>1, <2>2 DEF Slaves
<1> QED BY <1>1, <1>2, <1>3 DEF Slaves

(* What Rise counts and samples.                                           *)
LEMMA RiseQuiet ==
  ASSUME NEW s \in Slaves, NEW sda \in Bit,
         s.mode \in {"idle", "deaf"} \/ (s.ack = TRUE /\ s.mode # "send")
  PROVE  Rise(s, sda) = s
BY DEF Rise

LEMMA RiseAnswer ==
  ASSUME NEW s \in Slaves, NEW sda \in Bit, s.ack = TRUE, s.mode = "send"
  PROVE  Rise(s, sda).sh = sda /\ Rise(s, sda).n = s.n
BY DEF Rise, Slaves

LEMMA RiseBit ==
  ASSUME NEW s \in Slaves, NEW sda \in Bit, s.ack = FALSE, s.mode \in Taking
  PROVE  Rise(s, sda).n = s.n + 1 /\ Rise(s, sda).sh % 2 = sda
<1>1. Rise(s, sda) = [s EXCEPT !.n = @ + 1, !.sh = 2 * @ + sda]
  BY DEF Rise, Taking
<1>2. Rise(s, sda).n = s.n + 1 /\ Rise(s, sda).sh = 2 * s.sh + sda
  BY <1>1 DEF Slaves
<1>3. s.sh \in Nat /\ \A m \in Nat : (2 * m + sda) % 2 = sda
  BY DEF Slaves, Bit
<1> QED BY <1>2, <1>3

LEMMA RiseSent ==
  ASSUME NEW s \in Slaves, NEW sda \in Bit, s.ack = FALSE, s.mode = "send"
  PROVE  Rise(s, sda).n = s.n + 1
BY DEF Rise, Slaves

LEMMA BitOfBit ==
  ASSUME NEW v, NEW i
  PROVE  BitOf(v, i) \in Bit
BY DEF BitOf, Bit

LEMMA LevBit ==
  ASSUME NEW d, NEW l, NEW v
  PROVE  Lev(d, l, v) \in Bit
BY DEF Lev, Bit

LEMMA BitsOK == Bits \in Nat /\ Bits # 0 /\ 2^Bits \in Int
BY I2cAssumption

LEMMA NextCellInt ==
  ASSUME NEW b, NEW a \in Int
  PROVE  NextCell(b, a) \in Int
BY DEF NextCell

LEMMA FallsOfSending ==
  ASSUME NEW b \in Buses, NEW s \in Slaves, s.mode = "send",
         NEW t \in FallsSending(b, s)
  PROVE  FallsTo(call, s, t)
<1>1. CASE s.ack = TRUE /\ s.sh = 1
  <2>1. t = [s EXCEPT !.ack = FALSE, !.mode = "deaf", !.n = 0]
    BY <1>1 DEF FallsSending, Refused, Slaves
  <2> QED BY <1>1, <2>1 DEF FallsTo, Slaves, Modes
<1>2. CASE s.ack = TRUE /\ s.sh # 1
  <2> DEFINE v == BitOf(mem[b][s.at], 1)
  <2>1. t = [s EXCEPT !.ack = FALSE, !.n = 0, !.sh = 0, !.sda = v]
    BY <1>2 DEF FallsSending
  <2>2. v \in Bit
    BY BitOfBit
  <2> HIDE DEF v
  <2> QED BY <1>2, <2>1, <2>2 DEF FallsTo, Slaves, Modes
<1>3. CASE s.ack = FALSE /\ s.n = Bits
  <2> DEFINE a == NextCell(b, s.at)
  <2>1. t = [s EXCEPT !.ack = TRUE, !.sda = 1, !.at = a]
    BY <1>3 DEF FallsSending, Slaves
  <2>2. a \in Int
    BY NextCellInt DEF Slaves
  <2> HIDE DEF a
  <2> QED BY <1>3, <2>1, <2>2 DEF FallsTo, Slaves, Modes, Bit
<1>4. CASE s.ack = FALSE /\ s.n # Bits
  <2> DEFINE v == BitOf(mem[b][s.at], s.n + 1)
  <2>1. t = [s EXCEPT !.sda = v]
    BY <1>4 DEF FallsSending
  <2>2. v \in Bit
    BY BitOfBit
  <2> HIDE DEF v
  <2> QED BY <1>4, <2>1, <2>2 DEF FallsTo, Slaves, Modes
<1> QED BY <1>1, <1>2, <1>3, <1>4 DEF Slaves

LEMMA AcceptedFields ==
  ASSUME NEW b \in Buses, NEW s \in Slaves, s.mode \in Taking
  PROVE  /\ Accepted(b, s) \in Slaves
         /\ Accepted(b, s).ack = TRUE /\ Accepted(b, s).n = 0
         /\ Accepted(b, s).sda = 0 /\ Accepted(b, s).scl = s.scl
         /\ s.mode = "addr" /\ s.sh % 2 = 0 => Accepted(b, s).mode = "reg"
         /\ s.mode = "addr" /\ s.sh % 2 = 1 => Accepted(b, s).mode = "send"
         /\ s.mode # "addr" => Accepted(b, s).mode \in {"reg", "data"}
<1> DEFINE t == [s EXCEPT !.ack = TRUE, !.n = 0, !.sda = 0]
<1>1. /\ t \in Slaves /\ t.mode = s.mode /\ t.ack = TRUE /\ t.n = 0 /\ t.sda = 0
      /\ t.scl = s.scl /\ t.at = s.at /\ t.left = s.left
  BY DEF Slaves, Bit
<1>2. AddrSize[b] \in Int
  BY I2cAssumption
<1>3. CASE s.mode = "addr" /\ s.sh % 2 = 0
  <2> DEFINE l == AddrSize[b]
  <2>1. Accepted(b, s) = [t EXCEPT !.mode = "reg", !.left = l, !.at = 0]
    BY <1>3 DEF Accepted
  <2>2. l \in Int /\ 0 \in Int
    BY <1>2
  <2> HIDE DEF t, l
  <2>3. /\ Accepted(b, s) \in Slaves /\ Accepted(b, s).mode = "reg"
        /\ Accepted(b, s).ack = t.ack /\ Accepted(b, s).n = t.n
        /\ Accepted(b, s).sda = t.sda /\ Accepted(b, s).scl = t.scl
    BY <1>1, <2>1, <2>2 DEF Slaves, Modes
  <2> QED BY <1>1, <1>3, <2>3
<1>4. CASE s.mode = "addr" /\ s.sh % 2 = 1
  <2>1. Accepted(b, s) = [t EXCEPT !.mode = "send"]
    BY <1>4 DEF Accepted
  <2> HIDE DEF t
  <2> QED BY <1>1, <1>4, <2>1 DEF Slaves, Modes
<1>5. CASE s.mode = "reg"
  <2> DEFINE a == s.at * 2^Bits + s.sh
             m == IF s.left = 1 THEN "data" ELSE "reg"
             l == s.left - 1
  <2>1. Accepted(b, s) = [t EXCEPT !.at = a, !.left = l, !.mode = m]
    BY <1>1, <1>5 DEF Accepted
  <2>2. a \in Int /\ l \in Int
    BY BitsOK DEF Slaves
  <2>3. m \in {"reg", "data"}
    OBVIOUS
  <2> HIDE DEF t, a, m, l
  <2> QED BY <1>1, <1>5, <2>1, <2>2, <2>3 DEF Slaves, Modes
<1>6. CASE s.mode = "data"
  <2> DEFINE a == NextCell(b, s.at)
  <2>1. Accepted(b, s) = [t EXCEPT !.at = a]
    BY <1>1, <1>6 DEF Accepted
  <2>2. a \in Int
    BY NextCellInt DEF Slaves
  <2> HIDE DEF t, a
  <2> QED BY <1>1, <1>6, <2>1, <2>2 DEF Slaves, Modes
<1>7. s.sh % 2 \in {0, 1}
  BY DEF Slaves
<1> HIDE DEF t
<1> QED BY <1>3, <1>4, <1>5, <1>6, <1>7 DEF Taking

LEMMA FallsOfTaking ==
  ASSUME NEW b \in Buses, NEW s \in Slaves, s.mode \in Taking,
         call.stretch \in BOOLEAN, NEW t \in FallsTaking(b, s)
  PROVE  FallsTo(call, s, t)
<1>1. CASE s.ack = TRUE
  <2>1. t = [s EXCEPT !.ack = FALSE, !.sda = 1, !.sh = 0]
    BY <1>1 DEF FallsTaking
  <2> QED BY <1>1, <2>1 DEF FallsTo, Slaves, Modes, Bit
<1>2. CASE s.ack = FALSE /\ s.n # Bits
  <2>1. t = s
    BY <1>2 DEF FallsTaking
  <2> QED BY <1>2, <2>1 DEF FallsTo
<1>3. CASE s.ack = FALSE /\ s.n = Bits /\ t = Refused(s)
  <2>1. t = [s EXCEPT !.mode = "deaf", !.n = 0]
    BY <1>3 DEF Refused
  <2>2. /\ t \in Slaves /\ t.mode = "deaf" /\ t.n = 0
        /\ t.sda = s.sda /\ t.scl = s.scl
    BY <2>1 DEF Slaves, Modes
  <2> QED BY <1>3, <2>2 DEF FallsTo
<1>4. CASE s.ack = FALSE /\ s.n = Bits /\ t # Refused(s)
  <2> DEFINE u == Accepted(b, s)
             w == [u EXCEPT !.sh = 0]
  <2>1. t \in {w, IF call.stretch THEN [w EXCEPT !.scl = 0] ELSE w}
    BY <1>4 DEF FallsTaking
  <2>2. /\ u \in Slaves /\ u.ack = TRUE /\ u.n = 0 /\ u.sda = 0 /\ u.scl = s.scl
        /\ s.mode = "addr" /\ s.sh % 2 = 0 => u.mode = "reg"
        /\ s.mode = "addr" /\ s.sh % 2 = 1 => u.mode = "send"
        /\ s.mode # "addr" => u.mode \in {"reg", "data"}
    BY AcceptedFields
  <2> HIDE DEF u
  <2>3. /\ t \in Slaves /\ t.mode = u.mode /\ t.ack = TRUE /\ t.n = 0 /\ t.sda = 0
        /\ t.sh = 0
        /\ t.scl = s.scl \/ call.stretch = TRUE
    BY <2>1, <2>2 DEF Slaves, Bit
  <2>4. s.sh % 2 \in {0, 1}
    BY DEF Slaves
  <2> QED BY <1>4, <2>2, <2>3, <2>4 DEF FallsTo
<1> QED BY <1>1, <1>2, <1>3, <1>4 DEF Slaves

LEMMA FallsOK ==
  ASSUME NEW b \in Buses, NEW s \in Slaves, call.stretch \in BOOLEAN,
         NEW t \in Falls(b, s)
  PROVE  FallsTo(call, s, t)
<1>1. CASE s.mode \in {"idle", "deaf"}
  BY <1>1 DEF Falls, FallsTo
<1>2. CASE s.mode = "send"
  BY <1>2, FallsOfSending DEF Falls
<1>3. CASE s.mode \in Taking
  <2>1. t \in FallsTaking(b, s)
    BY <1>3 DEF Falls, Taking
  <2> QED BY <1>3, <2>1, FallsOfTaking
<1> QED BY <1>1, <1>2, <1>3 DEF Slaves, Modes, Taking

LEMMA OnSdaIn ==
  ASSUME NEW s \in Slaves, NEW old, NEW new, NEW scl
  PROVE  /\ OnSda(s, old, new, scl) \in Slaves
         /\ OnSda(s, old, new, scl).sda = s.sda
         /\ OnSda(s, old, new, scl).scl = s.scl
BY StartFields, StopFields DEF OnSda

LEMMA OnSclOK ==
  ASSUME NEW b \in Buses, NEW s \in Slaves, call.stretch \in BOOLEAN,
         NEW old \in Bit, NEW new \in Bit, NEW sda \in Bit,
         NEW t \in OnScl(b, s, old, new, sda)
  PROVE  SclTo(call, s, old, new, sda, t) /\ t \in Slaves
<1>1. CASE old = new
  BY <1>1 DEF OnScl, SclTo
<1>2. CASE old # new /\ new = 1
  BY <1>2, RiseFields DEF OnScl, SclTo
<1>3. CASE old # new /\ new # 1
  BY <1>3, FallsOK DEF OnScl, SclTo, FallsTo
<1> QED BY <1>1, <1>2, <1>3

LEMMA HearsOK ==
  ASSUME NEW b \in Buses, slave[b] \in Slaves, call.stretch \in BOOLEAN,
         NEW d, NEW l, NEW t \in Hears(b, d, l)
  PROVE  /\ t \in Slaves
         /\ HearsTo(call, slave[b],
                    Level(<<b, "sda">>), Wire(d, l, slave[b], <<b, "sda">>),
                    Level(<<b, "scl">>), Wire(d, l, slave[b], <<b, "scl">>), t)
<1> DEFINE s == slave[b]
           sda0 == Level(<<b, "sda">>)
           sda1 == Wire(d, l, s, <<b, "sda">>)
           scl0 == Level(<<b, "scl">>)
           scl1 == Wire(d, l, s, <<b, "scl">>)
<1>1. sda0 \in Bit /\ sda1 \in Bit /\ scl0 \in Bit /\ scl1 \in Bit
  BY DEF Level, Wire, Bit
<1>2. \/ t \in OnScl(b, OnSda(s, sda0, sda1, scl0), scl0, scl1, sda1)
      \/ \E u \in OnScl(b, s, scl0, scl1, sda0) : t = OnSda(u, sda0, sda1, scl1)
  BY DEF Hears
<1>3. s \in Slaves
  OBVIOUS
<1> HIDE DEF s, sda0, sda1, scl0, scl1
<1>4. CASE t \in OnScl(b, OnSda(s, sda0, sda1, scl0), scl0, scl1, sda1)
  <2>1. OnSda(s, sda0, sda1, scl0) \in Slaves
    BY <1>3, OnSdaIn
  <2>2. /\ SclTo(call, OnSda(s, sda0, sda1, scl0), scl0, scl1, sda1, t)
        /\ t \in Slaves
    BY <1>1, <1>4, <2>1, OnSclOK
  <2> QED BY <2>2 DEF HearsTo, s, sda0, sda1, scl0, scl1
<1>5. CASE \E u \in OnScl(b, s, scl0, scl1, sda0) : t = OnSda(u, sda0, sda1, scl1)
  <2>1. PICK u \in OnScl(b, s, scl0, scl1, sda0) : t = OnSda(u, sda0, sda1, scl1)
    BY <1>5
  <2>2. SclTo(call, s, scl0, scl1, sda0, u) /\ u \in Slaves
    BY <1>1, <1>3, OnSclOK
  <2>3. t \in Slaves
    BY <2>1, <2>2, OnSdaIn
  <2> QED BY <2>1, <2>2, <2>3 DEF HearsTo, s, sda0, sda1, scl0, scl1
<1> QED BY <1>2, <1>4, <1>5

(***************************************************************************)
(* Outlines.                                                               *)
(***************************************************************************)
LEMMA OfNone ==
  ASSUME NEW c, NEW P \in Asserts
  PROVE  Outline(c, P, <<>>, P)
<1> DEFINE a == [k \in 0 .. 0 |-> P]
<1>1. a \in [0 .. 0 -> Asserts] /\ a[0] = P /\ Len(<<>>) = 0
  OBVIOUS
<1>2. Len(<<>>) = 0 /\ 1 .. 0 = {} /\ <<>> \in Seq(Ops)
  OBVIOUS
<1> HIDE DEF a
<1> QED BY <1>1, <1>2 DEF Outline

LEMMA OfLess ==
  ASSUME NEW c, NEW s, NEW P, NEW Q, NEW P1, NEW Q1,
         Outline(c, P, s, Q), P1 \subseteq P, Q \subseteq Q1
  PROVE  Outline(c, P1, s, Q1)
BY DEF Outline

LEMMA OfOne ==
  ASSUME NEW c, NEW P \in Asserts,
         NEW Q \in Asserts, NEW o \in Ops, Fits(c, P, o, Q)
  PROVE  Outline(c, P, <<o>>, Q)
<1> DEFINE a == [k \in 0 .. 1 |-> IF k = 0 THEN P ELSE Q]
           s == <<o>>
<1>1. a \in [0 .. 1 -> Asserts] /\ a[0] = P /\ a[1] = Q
  OBVIOUS
<1>2. s \in Seq(Ops) /\ Len(s) = 1 /\ s[1] = o
  OBVIOUS
<1>3. ASSUME NEW k \in 1 .. Len(s) PROVE Fits(c, a[k - 1], s[k], a[k])
  <2>1. k = 1 /\ k - 1 = 0
    BY <1>2
  <2> QED BY <1>1, <1>2, <2>1
<1> HIDE DEF a, s
<1>4. Outline(c, P, s, Q)
  BY <1>1, <1>2, <1>3 DEF Outline
<1> QED BY <1>4 DEF s

LEMMA OfTwo ==
  ASSUME NEW c, NEW s, NEW t, NEW P, NEW Q, NEW V,
         Outline(c, P, s, Q), Outline(c, Q, t, V)
  PROVE  Outline(c, P, s \o t, V)
<1> DEFINE m == Len(s)
           n == Len(t)
           u == s \o t
<1>0. s \in Seq(Ops) /\ t \in Seq(Ops)
  BY DEF Outline
<1>1. PICK a \in [0 .. m -> Asserts] :
        /\ P \subseteq a[0] /\ a[m] \subseteq Q
        /\ \A k \in 1 .. m : Fits(c, a[k - 1], s[k], a[k])
  BY DEF Outline
<1>2. PICK b \in [0 .. n -> Asserts] :
        /\ Q \subseteq b[0] /\ b[n] \subseteq V
        /\ \A k \in 1 .. n : Fits(c, b[k - 1], t[k], b[k])
  BY DEF Outline
<1>3. /\ m \in Nat /\ n \in Nat /\ Len(u) = m + n /\ u \in Seq(Ops)
      /\ \A k \in 1 .. m : u[k] = s[k]
      /\ \A k \in m + 1 .. m + n : u[k] = t[k - m]
  BY <1>0, ConcatProperties
<1> DEFINE d == [k \in 0 .. m + n |-> IF k <= m THEN a[k] ELSE b[k - m]]
<1>4. d \in [0 .. m + n -> Asserts]
  BY <1>3
<1>5. P \subseteq d[0]
  BY <1>1, <1>3
<1>6. d[m + n] \subseteq V
  <2>1. CASE n = 0
    BY <2>1, <1>1, <1>2, <1>3
  <2>2. CASE n # 0
    BY <2>2, <1>2, <1>3
  <2> QED BY <2>1, <2>2
<1>7. ASSUME NEW k \in 1 .. m + n PROVE Fits(c, d[k - 1], u[k], d[k])
  <2>1. CASE k <= m
    <3>1. k \in 1 .. m /\ k - 1 <= m /\ k - 1 \in 0 .. m + n /\ k \in 0 .. m + n
      BY <2>1, <1>3
    <3>2. d[k] = a[k] /\ d[k - 1] = a[k - 1] /\ u[k] = s[k]
      BY <3>1, <1>3
    <3> HIDE DEF d, u
    <3> QED BY <3>1, <3>2, <1>1
  <2>2. CASE k = m + 1
    <3>1. /\ 1 \in 1 .. n /\ k - m = 1 /\ ~(k <= m) /\ k - 1 = m /\ 1 - 1 = 0
          /\ m \in 0 .. m + n /\ k \in 0 .. m + n /\ k \in m + 1 .. m + n
      BY <2>2, <1>3
    <3>2. d[k] = b[1] /\ d[k - 1] = a[m] /\ u[k] = t[1]
      BY <3>1, <1>3
    <3>3. Fits(c, b[0], t[1], b[1]) /\ a[m] \subseteq b[0]
      BY <3>1, <1>1, <1>2
    <3> HIDE DEF d, u
    <3>4. Fits(c, a[m], t[1], b[1])
      BY <3>3 DEF Fits
    <3> QED BY <3>2, <3>4
  <2>3. CASE k > m + 1
    <3>1. /\ k - m \in 1 .. n /\ ~(k <= m) /\ ~(k - 1 <= m)
          /\ (k - 1) - m = (k - m) - 1
          /\ k - 1 \in 0 .. m + n /\ k \in 0 .. m + n /\ k \in m + 1 .. m + n
      BY <2>3, <1>3
    <3>2. d[k] = b[k - m] /\ d[k - 1] = b[(k - m) - 1] /\ u[k] = t[k - m]
      BY <3>1, <1>3
    <3> HIDE DEF d, u
    <3> QED BY <3>1, <3>2, <1>2
  <2> QED BY <2>1, <2>2, <2>3, <1>3
<1> HIDE DEF d, u
<1>8. Outline(c, P, u, V)
  BY <1>3, <1>4, <1>5, <1>6, <1>7 DEF Outline
<1> QED BY <1>8 DEF u

(* Two to six operations one after the other.                              *)
LEMMA OfOps2 ==
  ASSUME NEW c, NEW P0 \in Asserts, NEW P1 \in Asserts, NEW P2 \in Asserts,
         NEW o1 \in Ops, NEW o2 \in Ops, Fits(c, P0, o1, P1),
         Fits(c, P1, o2, P2)
  PROVE  Outline(c, P0, <<o1, o2>>, P2)
<1> DEFINE s == <<o1, o2>>
           a == [k \in 0 .. 2 |-> IF k = 0 THEN P0 ELSE
                 IF k = 1 THEN P1 ELSE P2]
<1>1. s \in Seq(Ops) /\ Len(s) = 2
      /\ s[1] = o1 /\ s[2] = o2
  OBVIOUS
<1>2. a \in [0 .. 2 -> Asserts]
      /\ a[0] = P0 /\ a[1] = P1 /\ a[2] = P2
  OBVIOUS
<1> HIDE DEF a, s
<1>3. ASSUME NEW k \in 1 .. 2 PROVE Fits(c, a[k - 1], s[k], a[k])
  <2>1. CASE k = 1
    <3>1. k - 1 = 0
      BY <2>1
    <3> QED BY <1>1, <1>2, <2>1, <3>1
  <2>2. CASE k = 2
    <3>1. k - 1 = 1
      BY <2>2
    <3> QED BY <1>1, <1>2, <2>2, <3>1
  <2> QED BY <2>1, <2>2
<1>4. Outline(c, P0, s, P2)
  BY <1>1, <1>2, <1>3 DEF Outline
<1> QED BY <1>4 DEF s

LEMMA OfOps3 ==
  ASSUME NEW c, NEW P0 \in Asserts, NEW P1 \in Asserts, NEW P2 \in Asserts,
         NEW P3 \in Asserts, NEW o1 \in Ops, NEW o2 \in Ops,
         NEW o3 \in Ops, Fits(c, P0, o1, P1), Fits(c, P1, o2, P2),
         Fits(c, P2, o3, P3)
  PROVE  Outline(c, P0, <<o1, o2, o3>>, P3)
<1> DEFINE s == <<o1, o2, o3>>
           a == [k \in 0 .. 3 |-> IF k = 0 THEN P0 ELSE
                 IF k = 1 THEN P1 ELSE IF k = 2 THEN P2 ELSE P3]
<1>1. s \in Seq(Ops) /\ Len(s) = 3
      /\ s[1] = o1 /\ s[2] = o2 /\ s[3] = o3
  OBVIOUS
<1>2. a \in [0 .. 3 -> Asserts]
      /\ a[0] = P0 /\ a[1] = P1 /\ a[2] = P2 /\ a[3] = P3
  OBVIOUS
<1> HIDE DEF a, s
<1>3. ASSUME NEW k \in 1 .. 3 PROVE Fits(c, a[k - 1], s[k], a[k])
  <2>1. CASE k = 1
    <3>1. k - 1 = 0
      BY <2>1
    <3> QED BY <1>1, <1>2, <2>1, <3>1
  <2>2. CASE k = 2
    <3>1. k - 1 = 1
      BY <2>2
    <3> QED BY <1>1, <1>2, <2>2, <3>1
  <2>3. CASE k = 3
    <3>1. k - 1 = 2
      BY <2>3
    <3> QED BY <1>1, <1>2, <2>3, <3>1
  <2> QED BY <2>1, <2>2, <2>3
<1>4. Outline(c, P0, s, P3)
  BY <1>1, <1>2, <1>3 DEF Outline
<1> QED BY <1>4 DEF s

LEMMA OfOps4 ==
  ASSUME NEW c, NEW P0 \in Asserts, NEW P1 \in Asserts, NEW P2 \in Asserts,
         NEW P3 \in Asserts, NEW P4 \in Asserts, NEW o1 \in Ops,
         NEW o2 \in Ops, NEW o3 \in Ops, NEW o4 \in Ops,
         Fits(c, P0, o1, P1), Fits(c, P1, o2, P2), Fits(c, P2, o3, P3),
         Fits(c, P3, o4, P4)
  PROVE  Outline(c, P0, <<o1, o2, o3, o4>>, P4)
<1> DEFINE s == <<o1, o2, o3, o4>>
           a == [k \in 0 .. 4 |-> IF k = 0 THEN P0 ELSE
                 IF k = 1 THEN P1 ELSE IF k = 2 THEN P2 ELSE
                 IF k = 3 THEN P3 ELSE P4]
<1>1. s \in Seq(Ops) /\ Len(s) = 4
      /\ s[1] = o1 /\ s[2] = o2 /\ s[3] = o3 /\ s[4] = o4
  OBVIOUS
<1>2. a \in [0 .. 4 -> Asserts]
      /\ a[0] = P0 /\ a[1] = P1 /\ a[2] = P2 /\ a[3] = P3 /\ a[4] = P4
  OBVIOUS
<1> HIDE DEF a, s
<1>3. ASSUME NEW k \in 1 .. 4 PROVE Fits(c, a[k - 1], s[k], a[k])
  <2>1. CASE k = 1
    <3>1. k - 1 = 0
      BY <2>1
    <3> QED BY <1>1, <1>2, <2>1, <3>1
  <2>2. CASE k = 2
    <3>1. k - 1 = 1
      BY <2>2
    <3> QED BY <1>1, <1>2, <2>2, <3>1
  <2>3. CASE k = 3
    <3>1. k - 1 = 2
      BY <2>3
    <3> QED BY <1>1, <1>2, <2>3, <3>1
  <2>4. CASE k = 4
    <3>1. k - 1 = 3
      BY <2>4
    <3> QED BY <1>1, <1>2, <2>4, <3>1
  <2> QED BY <2>1, <2>2, <2>3, <2>4
<1>4. Outline(c, P0, s, P4)
  BY <1>1, <1>2, <1>3 DEF Outline
<1> QED BY <1>4 DEF s

LEMMA OfOps5 ==
  ASSUME NEW c, NEW P0 \in Asserts, NEW P1 \in Asserts, NEW P2 \in Asserts,
         NEW P3 \in Asserts, NEW P4 \in Asserts, NEW P5 \in Asserts,
         NEW o1 \in Ops, NEW o2 \in Ops, NEW o3 \in Ops, NEW o4 \in Ops,
         NEW o5 \in Ops, Fits(c, P0, o1, P1), Fits(c, P1, o2, P2),
         Fits(c, P2, o3, P3), Fits(c, P3, o4, P4), Fits(c, P4, o5, P5)
  PROVE  Outline(c, P0, <<o1, o2, o3, o4, o5>>, P5)
<1> DEFINE s == <<o1, o2, o3, o4, o5>>
           a == [k \in 0 .. 5 |-> IF k = 0 THEN P0 ELSE
                 IF k = 1 THEN P1 ELSE IF k = 2 THEN P2 ELSE
                 IF k = 3 THEN P3 ELSE IF k = 4 THEN P4 ELSE P5]
<1>1. s \in Seq(Ops) /\ Len(s) = 5
      /\ s[1] = o1 /\ s[2] = o2 /\ s[3] = o3 /\ s[4] = o4 /\ s[5] = o5
  OBVIOUS
<1>2. a \in [0 .. 5 -> Asserts]
      /\ a[0] = P0 /\ a[1] = P1 /\ a[2] = P2 /\ a[3] = P3 /\ a[4] = P4 /\ a[5] = P5
  OBVIOUS
<1> HIDE DEF a, s
<1>3. ASSUME NEW k \in 1 .. 5 PROVE Fits(c, a[k - 1], s[k], a[k])
  <2>1. CASE k = 1
    <3>1. k - 1 = 0
      BY <2>1
    <3> QED BY <1>1, <1>2, <2>1, <3>1
  <2>2. CASE k = 2
    <3>1. k - 1 = 1
      BY <2>2
    <3> QED BY <1>1, <1>2, <2>2, <3>1
  <2>3. CASE k = 3
    <3>1. k - 1 = 2
      BY <2>3
    <3> QED BY <1>1, <1>2, <2>3, <3>1
  <2>4. CASE k = 4
    <3>1. k - 1 = 3
      BY <2>4
    <3> QED BY <1>1, <1>2, <2>4, <3>1
  <2>5. CASE k = 5
    <3>1. k - 1 = 4
      BY <2>5
    <3> QED BY <1>1, <1>2, <2>5, <3>1
  <2> QED BY <2>1, <2>2, <2>3, <2>4, <2>5
<1>4. Outline(c, P0, s, P5)
  BY <1>1, <1>2, <1>3 DEF Outline
<1> QED BY <1>4 DEF s

LEMMA OfOps6 ==
  ASSUME NEW c, NEW P0 \in Asserts, NEW P1 \in Asserts, NEW P2 \in Asserts,
         NEW P3 \in Asserts, NEW P4 \in Asserts, NEW P5 \in Asserts,
         NEW P6 \in Asserts, NEW o1 \in Ops, NEW o2 \in Ops,
         NEW o3 \in Ops, NEW o4 \in Ops, NEW o5 \in Ops, NEW o6 \in Ops,
         Fits(c, P0, o1, P1), Fits(c, P1, o2, P2), Fits(c, P2, o3, P3),
         Fits(c, P3, o4, P4), Fits(c, P4, o5, P5), Fits(c, P5, o6, P6)
  PROVE  Outline(c, P0, <<o1, o2, o3, o4, o5, o6>>, P6)
<1> DEFINE s == <<o1, o2, o3, o4, o5, o6>>
           a == [k \in 0 .. 6 |-> IF k = 0 THEN P0 ELSE
                 IF k = 1 THEN P1 ELSE IF k = 2 THEN P2 ELSE
                 IF k = 3 THEN P3 ELSE IF k = 4 THEN P4 ELSE
                 IF k = 5 THEN P5 ELSE P6]
<1>1. s \in Seq(Ops) /\ Len(s) = 6
      /\ s[1] = o1 /\ s[2] = o2 /\ s[3] = o3 /\ s[4] = o4 /\ s[5] = o5 /\ s[6] = o6
  OBVIOUS
<1>2. a \in [0 .. 6 -> Asserts]
      /\ a[0] = P0 /\ a[1] = P1 /\ a[2] = P2 /\ a[3] = P3 /\ a[4] = P4 /\ a[5] = P5 /\ a[6] = P6
  OBVIOUS
<1> HIDE DEF a, s
<1>3. ASSUME NEW k \in 1 .. 6 PROVE Fits(c, a[k - 1], s[k], a[k])
  <2>1. CASE k = 1
    <3>1. k - 1 = 0
      BY <2>1
    <3> QED BY <1>1, <1>2, <2>1, <3>1
  <2>2. CASE k = 2
    <3>1. k - 1 = 1
      BY <2>2
    <3> QED BY <1>1, <1>2, <2>2, <3>1
  <2>3. CASE k = 3
    <3>1. k - 1 = 2
      BY <2>3
    <3> QED BY <1>1, <1>2, <2>3, <3>1
  <2>4. CASE k = 4
    <3>1. k - 1 = 3
      BY <2>4
    <3> QED BY <1>1, <1>2, <2>4, <3>1
  <2>5. CASE k = 5
    <3>1. k - 1 = 4
      BY <2>5
    <3> QED BY <1>1, <1>2, <2>5, <3>1
  <2>6. CASE k = 6
    <3>1. k - 1 = 5
      BY <2>6
    <3> QED BY <1>1, <1>2, <2>6, <3>1
  <2> QED BY <2>1, <2>2, <2>3, <2>4, <2>5, <2>6
<1>4. Outline(c, P0, s, P6)
  BY <1>1, <1>2, <1>3 DEF Outline
<1> QED BY <1>4 DEF s

(* Three operations for each bit: an assertion before each of them.        *)
LEMMA OfBits ==
  ASSUME NEW c, NEW s \in Seq(Ops), Len(s) = 3 * Bits,
         NEW I \in [0 .. Bits -> Asserts],
         NEW J \in [1 .. Bits -> Asserts], NEW K \in [1 .. Bits -> Asserts],
         \A i \in 1 .. Bits :
           /\ Fits(c, I[i - 1], s[3 * i - 2], J[i])
           /\ Fits(c, J[i], s[3 * i - 1], K[i])
           /\ Fits(c, K[i], s[3 * i], I[i])
  PROVE  Outline(c, I[0], s, I[Bits])
<1> DEFINE n == 3 * Bits
           a == [k \in 0 .. n |-> IF k % 3 = 0 THEN I[k \div 3]
                                 ELSE IF k % 3 = 1 THEN J[(k + 2) \div 3]
                                 ELSE K[(k + 1) \div 3]]
<1>0. Bits \in Nat
  BY BitsOK
<1>1. a \in [0 .. n -> Asserts]
  <2>1. ASSUME NEW k \in 0 .. n PROVE a[k] \in Asserts
    <3>1. CASE k % 3 = 0
      <4>1. k \div 3 \in 0 .. Bits
        BY <1>0, <3>1
      <4> QED BY <3>1, <4>1
    <3>2. CASE k % 3 = 1
      <4>1. (k + 2) \div 3 \in 1 .. Bits
        BY <1>0, <3>2
      <4> QED BY <3>2, <4>1
    <3>3. CASE k % 3 = 2
      <4>1. (k + 1) \div 3 \in 1 .. Bits
        BY <1>0, <3>3
      <4> QED BY <3>3, <4>1
    <3> QED BY <3>1, <3>2, <3>3
  <2> QED BY <2>1
<1>2. a[0] = I[0] /\ a[n] = I[Bits]
  <2>1. /\ 0 % 3 = 0 /\ 0 \div 3 = 0 /\ n % 3 = 0 /\ n \div 3 = Bits
        /\ 0 \in 0 .. n /\ n \in 0 .. n
    BY <1>0
  <2> HIDE DEF n
  <2> QED BY <2>1
<1>3. ASSUME NEW k \in 1 .. n PROVE Fits(c, a[k - 1], s[k], a[k])
  <2>0. k \in 0 .. n /\ k - 1 \in 0 .. n
    OBVIOUS
  <2>1. CASE k % 3 = 1
    <3>1. PICK i \in 1 .. Bits : k = 3 * i - 2
      <4> DEFINE m == k \div 3
      <4>1. m \in Nat /\ k = 3 * m + 1
        BY <2>1
      <4>2. m + 1 \in 1 .. Bits /\ k = 3 * (m + 1) - 2
        BY <1>0, <4>1
      <4> QED BY <4>2
    <3>2. /\ (k - 1) % 3 = 0 /\ (k - 1) \div 3 = i - 1 /\ (k + 2) \div 3 = i
      BY <1>0, <3>1
    <3>3. a[k - 1] = I[i - 1] /\ a[k] = J[i]
      BY <2>0, <2>1, <3>2
    <3> QED BY <3>1, <3>3
  <2>2. CASE k % 3 = 2
    <3>1. PICK i \in 1 .. Bits : k = 3 * i - 1
      <4> DEFINE m == k \div 3
      <4>1. m \in Nat /\ k = 3 * m + 2
        BY <2>2
      <4>2. m + 1 \in 1 .. Bits /\ k = 3 * (m + 1) - 1
        BY <1>0, <4>1
      <4> QED BY <4>2
    <3>2. /\ (k - 1) % 3 = 1 /\ ((k - 1) + 2) \div 3 = i /\ (k + 1) \div 3 = i
      BY <1>0, <3>1
    <3>3. a[k - 1] = J[i] /\ a[k] = K[i]
      BY <2>0, <2>2, <3>2
    <3> QED BY <3>1, <3>3
  <2>3. CASE k % 3 = 0
    <3>1. PICK i \in 1 .. Bits : k = 3 * i
      <4>1. k \div 3 \in 1 .. Bits /\ k = 3 * (k \div 3)
        BY <1>0, <2>3
      <4> QED BY <4>1
    <3>2. /\ (k - 1) % 3 = 2 /\ ((k - 1) + 1) \div 3 = i /\ k \div 3 = i
      BY <1>0, <3>1
    <3>3. a[k - 1] = K[i] /\ a[k] = I[i]
      BY <2>0, <2>3, <3>2
    <3> QED BY <3>1, <3>3
  <2> QED BY <2>1, <2>2, <2>3
<1> HIDE DEF a
<1> QED BY <1>1, <1>2, <1>3 DEF Outline

LEMMA OutlineTail ==
  ASSUME NEW c, NEW P, NEW Q, NEW s, s # <<>>,
         Outline(c, P, s, Q)
  PROVE  /\ Head(s) \in Ops /\ Tail(s) \in Seq(Ops)
         /\ \E V \in Asserts :
              Fits(c, P, Head(s), V) /\ Outline(c, V, Tail(s), Q)
<1> DEFINE n == Len(s)
           t == Tail(s)
<1>1. PICK a \in [0 .. n -> Asserts] :
        /\ P \subseteq a[0] /\ a[n] \subseteq Q
        /\ \A k \in 1 .. n : Fits(c, a[k - 1], s[k], a[k])
  BY DEF Outline
<1>0. s \in Seq(Ops)
  BY DEF Outline
<1>2. /\ n \in Nat /\ n >= 1 /\ Head(s) = s[1] /\ s[1] \in Ops /\ t \in Seq(Ops)
      /\ Len(t) = n - 1 /\ \A k \in 1 .. n - 1 : t[k] = s[k + 1]
  BY <1>0, HeadTailProperties
<1> DEFINE b == [k \in 0 .. n - 1 |-> a[k + 1]]
<1>3. b \in [0 .. n - 1 -> Asserts] /\ b[0] = a[1] /\ b[n - 1] = a[n]
  BY <1>2
<1>4. Fits(c, P, Head(s), b[0])
  <2>1. 1 \in 1 .. n /\ 1 - 1 = 0
    BY <1>2
  <2>2. Fits(c, a[0], s[1], a[1])
    BY <1>1, <2>1
  <2> HIDE DEF b
  <2> QED BY <1>1, <1>2, <1>3, <2>2 DEF Fits
<1>5. ASSUME NEW k \in 1 .. n - 1 PROVE Fits(c, b[k - 1], t[k], b[k])
  <2>1. /\ k + 1 \in 1 .. n /\ (k + 1) - 1 = k /\ (k - 1) + 1 = k
        /\ k - 1 \in 0 .. n - 1 /\ k \in 0 .. n - 1
    BY <1>2
  <2>2. b[k - 1] = a[k] /\ b[k] = a[k + 1] /\ t[k] = s[k + 1]
    BY <1>2, <2>1
  <2> HIDE DEF b, t
  <2> QED BY <1>1, <2>1, <2>2
<1> HIDE DEF b, t
<1>6. Outline(c, b[0], t, Q)
  BY <1>1, <1>2, <1>3, <1>5 DEF Outline
<1>7. b[0] \in Asserts
  BY <1>2, <1>3
<1> QED BY <1>2, <1>4, <1>6, <1>7 DEF t

(***************************************************************************)
(* Lines while the master holds scl low, and while it drives scl high: the *)
(* ways and latches sda may have, and what the slave and check may be.     *)
(***************************************************************************)
Low(D, L, S) == {x \in Lines : /\ x.dc = Out /\ x.lc = 0 /\ x.ds \in D
                               /\ x.ls \in L /\ <<x.s, x.ck>> \in S}
High(D, L, S) == {x \in Lines : /\ x.dc = Out /\ x.lc = 1 /\ x.ds \in D
                                /\ x.ls \in L /\ <<x.s, x.ck>> \in S}

LEMMA HearNothing ==
  ASSUME NEW c, NEW s \in Slaves, NEW sda0, NEW sda1, NEW t,
         HearsTo(c, s, sda0, sda1, 0, 0, t)
  PROVE  t = s
BY DEF HearsTo, SclTo, OnSda

LEMMA HearSame ==
  ASSUME NEW c, NEW s \in Slaves, NEW sda, NEW scl, NEW t,
         HearsTo(c, s, sda, sda, scl, scl, t)
  PROVE  t = s
BY DEF HearsTo, SclTo, OnSda

LEMMA HearStart ==
  ASSUME NEW c, NEW s \in Slaves, NEW t, HearsTo(c, s, 1, 0, 1, 1, t)
  PROVE  t = Start(s)
BY DEF HearsTo, SclTo, OnSda

LEMMA HearStop ==
  ASSUME NEW c, NEW s \in Slaves, NEW t, HearsTo(c, s, 0, 1, 1, 1, t)
  PROVE  t = Stop(s)
BY DEF HearsTo, SclTo, OnSda

LEMMA HearRise ==
  ASSUME NEW c, NEW s \in Slaves, NEW sda, NEW t, HearsTo(c, s, sda, sda, 0, 1, t)
  PROVE  t = Rise(s, sda)
BY DEF HearsTo, SclTo, OnSda

LEMMA HearFall ==
  ASSUME NEW c, NEW s \in Slaves, NEW sda, NEW t, HearsTo(c, s, sda, sda, 1, 0, t)
  PROVE  FallsTo(c, s, t)
BY DEF HearsTo, SclTo, OnSda

LEMMA LetGoFields ==
  ASSUME NEW s \in Slaves
  PROVE  /\ LetGo(s) \in Slaves /\ LetGo(s).scl = 1 /\ LetGo(s).mode = s.mode
         /\ LetGo(s).ack = s.ack /\ LetGo(s).n = s.n /\ LetGo(s).sda = s.sda
         /\ LetGo(s).sh = s.sh
BY DEF LetGo, Slaves, Bit

LEMMA LowOK ==
  ASSUME NEW D, NEW L, NEW S,
         \A s \in Slaves, k \in Bit :
           <<s, k>> \in S /\ s.scl = 0 => <<LetGo(s), k>> \in S
  PROVE  Low(D, L, S) \in Asserts
<1>1. ASSUME NEW x \in Low(D, L, S) PROVE Peaceful(x)
  BY DEF Low, Peaceful, SclOf, Lev, Lines
<1>2. ASSUME NEW x \in Low(D, L, S), NEW y, Freed(x, y) PROVE y \in Low(D, L, S)
  <2>1. x \in Lines /\ x.s \in Slaves /\ x.ck \in Bit
    BY DEF Low, Lines
  <2>2. y = [x EXCEPT !.s = LetGo(x.s)] /\ x.s.scl = 0
    BY <1>2 DEF Freed, Low
  <2>3. LetGo(x.s) \in Slaves /\ <<LetGo(x.s), x.ck>> \in S
    BY <2>1, <2>2, LetGoFields DEF Low
  <2> QED BY <2>1, <2>2, <2>3 DEF Low, Lines
<1>3. Low(D, L, S) \subseteq Lines
  BY DEF Low
<1> QED BY <1>1, <1>2, <1>3 DEF Asserts

LEMMA HighOK ==
  ASSUME NEW D, NEW L, NEW S,
         \A s \in Slaves, k \in Bit :
           <<s, k>> \in S => /\ s.scl = 1
                             /\ s.sda = 1 \/ Out \notin D \/ 1 \notin L
  PROVE  High(D, L, S) \in Asserts
<1>1. ASSUME NEW x \in High(D, L, S)
      PROVE  x.s.scl = 1 /\ (x.s.sda = 1 \/ x.ds # Out \/ x.ls # 1)
  BY DEF High, Lines
<1>2. ASSUME NEW x \in High(D, L, S) PROVE Peaceful(x)
  BY <1>1 DEF Peaceful
<1>3. ASSUME NEW x \in High(D, L, S), NEW y PROVE ~Freed(x, y)
  BY <1>1 DEF Freed
<1>4. High(D, L, S) \subseteq Lines
  BY DEF High
<1> QED BY <1>2, <1>3, <1>4 DEF Asserts

(* With scl low sda may be turned round and written as it comes.           *)
LEMMA LowDir ==
  ASSUME NEW c, NEW D, NEW D2, NEW L, NEW S, NEW sda \in 0 .. 2, NEW scl \in {Out, Keep},
         \A d \in D : Or(sda, d) \in D2
  PROVE  Fits(c, Low(D, L, S), Dir(sda, scl), Low(D2, L, S))
<1> SUFFICES ASSUME NEW x \in Low(D, L, S), NEW y, After(c, Dir(sda, scl), x, y)
             PROVE  y \in Low(D2, L, S)
  BY DEF Fits
<1>1. /\ y \in Lines /\ y.ds = Or(sda, x.ds) /\ y.dc = Or(scl, x.dc)
      /\ y.ls = x.ls /\ y.lc = x.lc /\ y.ck = x.ck
      /\ HearsTo(c, x.s, SdaOf(x), Lev(y.ds, y.ls, x.s.sda),
                 SclOf(x), Lev(y.dc, y.lc, x.s.scl), y.s)
  BY DEF After, Moves, Dir
<1>2. x \in Lines /\ x.dc = Out /\ x.lc = 0 /\ y.dc = Out /\ y.lc = 0
  BY <1>1 DEF Low, Or
<1>3. SclOf(x) = 0 /\ Lev(y.dc, y.lc, x.s.scl) = 0
  BY <1>2 DEF SclOf, Lev
<1>4. y.s = x.s
  BY <1>1, <1>2, <1>3, HearNothing DEF Lines
<1> QED BY <1>1, <1>2, <1>4 DEF Low

LEMMA LowPut ==
  ASSUME NEW c, NEW D, NEW L, NEW L2, NEW S, NEW sda \in 0 .. 2, NEW scl \in {0, Keep},
         sda \in L2 \/ (sda = Keep /\ L2 = Bit), sda # Keep \/ L2 = Bit
  PROVE  Fits(c, Low(D, L, S), Put(sda, scl), Low(D, L2, S))
<1> SUFFICES ASSUME NEW x \in Low(D, L, S), NEW y, After(c, Put(sda, scl), x, y)
             PROVE  y \in Low(D, L2, S)
  BY DEF Fits
<1>1. /\ y \in Lines /\ y.ls = Or(sda, Pin(c, SdaOf(x), x.ls))
      /\ y.lc = Or(scl, Pin(c, SclOf(x), x.lc))
      /\ y.ds = x.ds /\ y.dc = x.dc /\ y.ck = x.ck
      /\ HearsTo(c, x.s, SdaOf(x), Lev(y.ds, y.ls, x.s.sda),
                 SclOf(x), Lev(y.dc, y.lc, x.s.scl), y.s)
  BY DEF After, Moves, Put
<1>2. x \in Lines /\ x.dc = Out /\ x.lc = 0
  BY DEF Low
<1>3. SclOf(x) = 0
  BY <1>2 DEF SclOf, Lev
<1>4. y.dc = Out /\ y.lc = 0
  BY <1>1, <1>2, <1>3 DEF Or, Pin
<1>5. Lev(y.dc, y.lc, x.s.scl) = 0
  BY <1>4 DEF Lev
<1>6. y.s = x.s
  BY <1>1, <1>2, <1>3, <1>5, HearNothing DEF Lines
<1>7. y.ls \in L2
  BY <1>1 DEF Or, Lines
<1> QED BY <1>1, <1>2, <1>4, <1>6, <1>7 DEF Low

(* scl is driven high, sda at the value v the master drives.               *)
LEMMA RiseOut ==
  ASSUME NEW c, NEW v \in Bit, NEW S, NEW T, NEW sda \in {v, Keep},
         \A s \in Slaves, k \in Bit :
           <<s, k>> \in S => /\ s.scl = 1 /\ (s.sda = 1 \/ v = 0)
                             /\ <<Rise(s, v), k>> \in T
  PROVE  Fits(c, Low({Out}, {v}, S), Put(sda, 1), High({Out}, {v}, T))
<1> SUFFICES ASSUME NEW x \in Low({Out}, {v}, S), NEW y, After(c, Put(sda, 1), x, y)
             PROVE  y \in High({Out}, {v}, T)
  BY DEF Fits
<1>1. /\ y \in Lines /\ y.ls = Or(sda, Pin(c, SdaOf(x), x.ls))
      /\ y.lc = Or(1, Pin(c, SclOf(x), x.lc))
      /\ y.ds = x.ds /\ y.dc = x.dc /\ y.ck = x.ck
      /\ HearsTo(c, x.s, SdaOf(x), Lev(y.ds, y.ls, x.s.sda),
                 SclOf(x), Lev(y.dc, y.lc, x.s.scl), y.s)
  BY DEF After, Moves, Put
<1>2. /\ x.s \in Slaves /\ x.ck \in Bit /\ x.dc = Out /\ x.lc = 0 /\ x.ds = Out
      /\ x.ls = v /\ <<x.s, x.ck>> \in S
  BY DEF Low, Lines
<1>3. x.s.scl = 1 /\ (x.s.sda = 1 \/ v = 0) /\ <<Rise(x.s, v), x.ck>> \in T
  BY <1>2
<1>4. SdaOf(x) = v /\ SclOf(x) = 0
  BY <1>2, <1>3 DEF SdaOf, SclOf, Lev, Bit
<1>5. y.lc = 1 /\ y.ls = v /\ y.ds = Out /\ y.dc = Out
  BY <1>1, <1>2, <1>4 DEF Or, Pin, Bit, Keep
<1>6. Lev(y.ds, y.ls, x.s.sda) = v /\ Lev(y.dc, y.lc, x.s.scl) = 1
  BY <1>3, <1>5 DEF Lev, Bit
<1>7. y.s = Rise(x.s, v)
  BY <1>1, <1>2, <1>4, <1>6, HearRise
<1> QED BY <1>1, <1>3, <1>5, <1>7 DEF High

(* ... and with sda left to the slave.                                     *)
LEMMA RiseIn ==
  ASSUME NEW c, NEW L, NEW S, NEW T,
         \A s \in Slaves, k \in Bit :
           <<s, k>> \in S => s.scl = 1 /\ <<Rise(s, s.sda), k>> \in T
  PROVE  Fits(c, Low({In}, L, S), Put(Keep, 1), High({In}, Bit, T))
<1> SUFFICES ASSUME NEW x \in Low({In}, L, S), NEW y, After(c, Put(Keep, 1), x, y)
             PROVE  y \in High({In}, Bit, T)
  BY DEF Fits
<1>1. /\ y \in Lines /\ y.lc = Or(1, Pin(c, SclOf(x), x.lc))
      /\ y.ds = x.ds /\ y.dc = x.dc /\ y.ck = x.ck
      /\ HearsTo(c, x.s, SdaOf(x), Lev(y.ds, y.ls, x.s.sda),
                 SclOf(x), Lev(y.dc, y.lc, x.s.scl), y.s)
  BY DEF After, Moves, Put
<1>2. /\ x.s \in Slaves /\ x.ck \in Bit /\ x.dc = Out /\ x.lc = 0 /\ x.ds = In
      /\ <<x.s, x.ck>> \in S /\ x.s.sda \in Bit
  BY DEF Low, Lines, Slaves
<1>3. x.s.scl = 1 /\ <<Rise(x.s, x.s.sda), x.ck>> \in T
  BY <1>2
<1>4. SdaOf(x) = x.s.sda /\ SclOf(x) = 0
  BY <1>2, <1>3 DEF SdaOf, SclOf, Lev, Bit, In, Out
<1>5. y.lc = 1 /\ y.ls \in Bit /\ y.ds = In /\ y.dc = Out
  BY <1>1, <1>2 DEF Or, Keep, Lines
<1>6. Lev(y.ds, y.ls, x.s.sda) = x.s.sda /\ Lev(y.dc, y.lc, x.s.scl) = 1
  BY <1>2, <1>3, <1>5 DEF Lev, Bit, In, Out
<1>7. y.s = Rise(x.s, x.s.sda)
  BY <1>1, <1>2, <1>4, <1>6, HearRise
<1> QED BY <1>1, <1>3, <1>5, <1>7 DEF High

(* scl is driven low, sda at the value v the master drives.                *)
LEMMA FallOut ==
  ASSUME NEW c, NEW v \in Bit, NEW S, NEW T, NEW sda \in {v, Keep},
         \A s \in Slaves, k \in Bit :
           <<s, k>> \in S => /\ s.scl = 1 /\ (s.sda = 1 \/ v = 0)
                             /\ \A t : FallsTo(c, s, t) => <<t, k>> \in T
  PROVE  Fits(c, High({Out}, {v}, S), Put(sda, 0), Low({Out}, {v}, T))
<1> SUFFICES ASSUME NEW x \in High({Out}, {v}, S), NEW y, After(c, Put(sda, 0), x, y)
             PROVE  y \in Low({Out}, {v}, T)
  BY DEF Fits
<1>1. /\ y \in Lines /\ y.ls = Or(sda, Pin(c, SdaOf(x), x.ls))
      /\ y.lc = Or(0, Pin(c, SclOf(x), x.lc))
      /\ y.ds = x.ds /\ y.dc = x.dc /\ y.ck = x.ck
      /\ HearsTo(c, x.s, SdaOf(x), Lev(y.ds, y.ls, x.s.sda),
                 SclOf(x), Lev(y.dc, y.lc, x.s.scl), y.s)
  BY DEF After, Moves, Put
<1>2. /\ x.s \in Slaves /\ x.ck \in Bit /\ x.dc = Out /\ x.lc = 1 /\ x.ds = Out
      /\ x.ls = v /\ <<x.s, x.ck>> \in S
  BY DEF High, Lines
<1>3. x.s.scl = 1 /\ (x.s.sda = 1 \/ v = 0)
  BY <1>2
<1>4. SdaOf(x) = v /\ SclOf(x) = 1
  BY <1>2, <1>3 DEF SdaOf, SclOf, Lev, Bit
<1>5. y.lc = 0 /\ y.ls = v /\ y.ds = Out /\ y.dc = Out
  BY <1>1, <1>2, <1>4 DEF Or, Pin, Bit, Keep
<1>6. Lev(y.ds, y.ls, x.s.sda) = v /\ Lev(y.dc, y.lc, x.s.scl) = 0
  BY <1>3, <1>5 DEF Lev, Bit
<1>7. FallsTo(c, x.s, y.s)
  BY <1>1, <1>2, <1>4, <1>6, HearFall
<1>8. <<y.s, x.ck>> \in T
  BY <1>2, <1>7
<1> QED BY <1>1, <1>5, <1>8 DEF Low

LEMMA FallIn ==
  ASSUME NEW c, NEW L, NEW S, NEW T,
         \A s \in Slaves, k \in Bit :
           <<s, k>> \in S => /\ s.scl = 1
                             /\ \A t : FallsTo(c, s, t) => <<t, k>> \in T
  PROVE  Fits(c, High({In}, L, S), Put(Keep, 0), Low({In}, Bit, T))
<1> SUFFICES ASSUME NEW x \in High({In}, L, S), NEW y, After(c, Put(Keep, 0), x, y)
             PROVE  y \in Low({In}, Bit, T)
  BY DEF Fits
<1>1. /\ y \in Lines /\ y.lc = Or(0, Pin(c, SclOf(x), x.lc))
      /\ y.ds = x.ds /\ y.dc = x.dc /\ y.ck = x.ck
      /\ HearsTo(c, x.s, SdaOf(x), Lev(y.ds, y.ls, x.s.sda),
                 SclOf(x), Lev(y.dc, y.lc, x.s.scl), y.s)
  BY DEF After, Moves, Put
<1>2. /\ x.s \in Slaves /\ x.ck \in Bit /\ x.dc = Out /\ x.lc = 1 /\ x.ds = In
      /\ <<x.s, x.ck>> \in S /\ x.s.sda \in Bit
  BY DEF High, Lines, Slaves
<1>3. x.s.scl = 1
  BY <1>2
<1>4. SdaOf(x) = x.s.sda /\ SclOf(x) = 1
  BY <1>2, <1>3 DEF SdaOf, SclOf, Lev, Bit, In, Out
<1>5. y.lc = 0 /\ y.ls \in Bit /\ y.ds = In /\ y.dc = Out
  BY <1>1, <1>2 DEF Or, Keep, Lines
<1>6. Lev(y.ds, y.ls, x.s.sda) = x.s.sda /\ Lev(y.dc, y.lc, x.s.scl) = 0
  BY <1>2, <1>3, <1>5 DEF Lev, Bit, In, Out
<1>7. FallsTo(c, x.s, y.s)
  BY <1>1, <1>2, <1>4, <1>6, HearFall
<1>8. <<y.s, x.ck>> \in T
  BY <1>2, <1>7
<1> QED BY <1>1, <1>5, <1>8 DEF Low

(* Directions set to what they are, and samples.                           *)
LEMMA HighDir ==
  ASSUME NEW c, NEW L, NEW S, NEW d \in Ways, NEW sda \in {d, Keep},
         NEW scl \in {Out, Keep}
  PROVE  Fits(c, High({d}, L, S), Dir(sda, scl), High({d}, L, S))
<1> SUFFICES ASSUME NEW x \in High({d}, L, S), NEW y, After(c, Dir(sda, scl), x, y)
             PROVE  y \in High({d}, L, S)
  BY DEF Fits
<1>1. /\ y \in Lines /\ y.ds = Or(sda, x.ds) /\ y.dc = Or(scl, x.dc)
      /\ y.ls = x.ls /\ y.lc = x.lc /\ y.ck = x.ck
      /\ HearsTo(c, x.s, SdaOf(x), Lev(y.ds, y.ls, x.s.sda),
                 SclOf(x), Lev(y.dc, y.lc, x.s.scl), y.s)
  BY DEF After, Moves, Dir
<1>2. y.ds = x.ds /\ y.dc = x.dc /\ x.s \in Slaves
  BY <1>1 DEF High, Or, Lines
<1>3. y.s = x.s
  BY <1>1, <1>2, HearSame DEF SdaOf, SclOf
<1> QED BY <1>1, <1>2, <1>3 DEF High

LEMMA SampleFits ==
  ASSUME NEW c, NEW A
  PROVE  Fits(c, A, Sample, A)
BY DEF Fits, After, Sample

(* i2c_recv_ack sees what the slave does with sda.                         *)
LEMMA CheckHigh ==
  ASSUME NEW c, NEW L, NEW S, NEW T,
         \A s \in Slaves, k \in Bit : <<s, k>> \in S => <<s, s.sda>> \in T
  PROVE  Fits(c, High({In}, L, S), Check, High({In}, L, T))
<1> SUFFICES ASSUME NEW x \in High({In}, L, S), NEW y, After(c, Check, x, y)
             PROVE  y \in High({In}, L, T)
  BY DEF Fits
<1>1. y \in Lines /\ y = [x EXCEPT !.ck = SdaOf(x)]
  BY DEF After, Check
<1>2. /\ x \in Lines /\ x.s \in Slaves /\ x.ck \in Bit /\ x.ds = In
      /\ <<x.s, x.ck>> \in S /\ x.s.sda \in Bit
  BY DEF High, Lines, Slaves
<1>3. SdaOf(x) = x.s.sda
  BY <1>2 DEF SdaOf, Lev, Bit, In, Out
<1>4. <<x.s, x.s.sda>> \in T
  BY <1>2
<1>5. y.ck = x.s.sda /\ y.s = x.s /\ y.ds = x.ds /\ y.dc = x.dc /\ y.ls = x.ls /\ y.lc = x.lc
  BY <1>1, <1>2, <1>3 DEF Lines
<1> QED BY <1>1, <1>4, <1>5 DEF High

(***************************************************************************)
(* What the slave may be, and the lines about START, STOP and a wait.      *)
(***************************************************************************)
Calm == {s \in Slaves : s.sda = 1 /\ s.scl = 1}
AtRest == {s \in Calm : s.mode = "idle"}
Refusing == {s \in Calm : s.mode = "deaf"}
(* n bits of a byte are in, in a mode of M.                                *)
Taken(M, n) == {s \in Calm : s.mode \in M /\ s.ack = FALSE /\ s.n = n}
(* It acknowledges a byte, and is then in a mode of M.                     *)
Acks(c, M) == {s \in Slaves : /\ s.mode \in M /\ s.ack = TRUE /\ s.n = 0
                              /\ s.sh = 0 /\ s.sda = 0
                              /\ s.scl = 1 \/ c.stretch = TRUE}
(* n bits of a byte have been sent; all of them, and the master answers.   *)
Sending(n) == {s \in Slaves : /\ s.mode = "send" /\ s.ack = FALSE /\ s.n = n
                              /\ s.scl = 1}
Asking == {s \in Calm : s.mode = "send" /\ s.ack = TRUE}

(* Nothing sampled yet.                                                    *)
Un(S) == S \X {0}

FreeLines == {x \in Lines : x.ds = In /\ x.dc = In /\ x.s \in AtRest /\ x.ck = 0}
HalfLines == {x \in Lines : x.ds = In /\ x.dc = Out /\ x.s \in AtRest /\ x.ck = 0}
OutLines == {x \in Lines : x.ds = Out /\ x.dc = Out /\ x.s \in Calm /\ x.ck = 0}
EndLines == {x \in Lines : /\ x.ds = Out /\ x.ls = 1 /\ x.dc = In
                           /\ x.s \in AtRest /\ x.ck = 0}
Loose(S) == {x \in Lines : /\ x.ds = In /\ x.dc = In /\ x.lc = 0
                           /\ <<x.s, x.ck>> \in S}

LEMMA CalmOK ==
  ASSUME NEW A \in SUBSET Lines, \A x \in A : x.s \in Calm
  PROVE  A \in Asserts
<1>1. \A x \in A : Peaceful(x)
  BY DEF Calm, Peaceful
<1>2. \A x \in A : \A y : ~Freed(x, y)
  BY DEF Calm, Freed
<1> QED BY <1>1, <1>2 DEF Asserts

LEMMA CalmLines ==
  /\ FreeLines \in Asserts /\ HalfLines \in Asserts /\ OutLines \in Asserts
  /\ EndLines \in Asserts
  /\ \A D, L : \A S \in SUBSET Calm : /\ Low(D, L, Un(S)) \in Asserts
                                      /\ High(D, L, Un(S)) \in Asserts
<1>1. FreeLines \in Asserts
  BY CalmOK DEF FreeLines, AtRest
<1>2. HalfLines \in Asserts
  BY CalmOK DEF HalfLines, AtRest
<1>3. OutLines \in Asserts
  BY CalmOK DEF OutLines
<1>4. EndLines \in Asserts
  BY CalmOK DEF EndLines, AtRest
<1>5. ASSUME NEW D, NEW L, NEW S \in SUBSET Calm
      PROVE  Low(D, L, Un(S)) \in Asserts /\ High(D, L, Un(S)) \in Asserts
  <2>1. Low(D, L, Un(S)) \in SUBSET Lines /\ \A x \in Low(D, L, Un(S)) : x.s \in Calm
    BY DEF Low, Un
  <2>2. High(D, L, Un(S)) \in SUBSET Lines /\ \A x \in High(D, L, Un(S)) : x.s \in Calm
    BY DEF High, Un
  <2> QED BY <2>1, <2>2, CalmOK
<1> QED BY <1>1, <1>2, <1>3, <1>4, <1>5

LEMMA LooseOK ==
  ASSUME NEW S,
         \A s \in Slaves, k \in Bit :
           <<s, k>> \in S /\ s.scl = 0 => <<Rise(LetGo(s), s.sda), k>> \in S
  PROVE  Loose(S) \in Asserts
<1>1. ASSUME NEW x \in Loose(S) PROVE Peaceful(x)
  BY DEF Loose, Peaceful, In, Out
<1>2. ASSUME NEW x \in Loose(S), NEW y, Freed(x, y) PROVE y \in Loose(S)
  <2>1. /\ x \in Lines /\ x.s \in Slaves /\ x.ck \in Bit /\ x.s.sda \in Bit
        /\ x.ds = In /\ x.dc = In /\ x.lc = 0 /\ <<x.s, x.ck>> \in S
    BY DEF Loose, Lines, Slaves
  <2>2. SdaOf(x) = x.s.sda
    BY <2>1 DEF SdaOf, Lev, In, Out, Bit
  <2> DEFINE t == Rise(LetGo(x.s), x.s.sda)
  <2>3. y = [x EXCEPT !.s = t] /\ x.s.scl = 0
    BY <1>2, <2>1, <2>2 DEF Freed, In, Out
  <2>4. t \in Slaves /\ <<t, x.ck>> \in S
    BY <2>1, <2>3, LetGoFields, RiseFields
  <2> HIDE DEF t
  <2> QED BY <2>1, <2>3, <2>4 DEF Loose, Lines
<1>3. Loose(S) \subseteq Lines
  BY DEF Loose
<1> QED BY <1>1, <1>2, <1>3 DEF Asserts

(* Only a falling scl makes a slave pull a line.                           *)
LEMMA SclToCalm ==
  ASSUME NEW c, NEW s \in Calm, NEW old, NEW sda \in Bit, NEW t,
         SclTo(c, s, old, 1, sda, t)
  PROVE  t \in Calm
<1>1. s \in Slaves
  BY DEF Calm
<1>2. t = s \/ t = Rise(s, sda)
  BY DEF SclTo
<1> QED BY <1>1, <1>2, RiseFields DEF Calm

LEMMA OnSdaCalm ==
  ASSUME NEW s \in Calm, NEW old, NEW new, NEW scl
  PROVE  OnSda(s, old, new, scl) \in Calm
BY OnSdaIn DEF Calm

LEMMA HearsCalm ==
  ASSUME NEW c, NEW s \in Calm, NEW sda0 \in Bit, NEW sda1 \in Bit, NEW scl0, NEW t,
         HearsTo(c, s, sda0, sda1, scl0, 1, t)
  PROVE  t \in Calm
BY SclToCalm, OnSdaCalm DEF HearsTo

(* ... and not one that is idle, or newly addressed.                       *)
LEMMA FallIgnored ==
  ASSUME NEW c, NEW s \in Slaves, NEW t, FallsTo(c, s, t),
         s.mode = "idle" \/ (s.mode = "addr" /\ s.ack = FALSE /\ s.n = 0)
  PROVE  t = s
BY BitsOK DEF FallsTo, Taking

LEMMA HearsFromRest ==
  ASSUME NEW c, NEW s \in AtRest, NEW sda0 \in Bit, NEW sda1 \in Bit,
         NEW scl0 \in Bit, NEW scl1 \in Bit, NEW t,
         HearsTo(c, s, sda0, sda1, scl0, scl1, t)
  PROVE  t \in Calm /\ (sda0 = sda1 => t = s)
<1>0. s \in Calm /\ s \in Slaves /\ s.mode = "idle"
  BY DEF AtRest, Calm
<1> DEFINE Early(u) == /\ u \in Calm
                       /\ u.mode = "idle" \/ (u.mode = "addr" /\ u.ack = FALSE /\ u.n = 0)
<1>1. ASSUME NEW u, Early(u), NEW old \in Bit, NEW new \in Bit, NEW sda \in Bit, NEW w,
             SclTo(c, u, old, new, sda, w)
      PROVE  w \in Calm /\ (u.mode = "idle" => w = u)
  <2>1. u \in Slaves /\ u \in Calm
    BY <1>1 DEF Calm
  <2>2. w = u \/ w = Rise(u, sda) \/ FallsTo(c, u, w)
    BY <1>1 DEF SclTo
  <2>3. FallsTo(c, u, w) => w = u
    BY <1>1, <2>1, FallIgnored
  <2>4. Rise(u, sda) \in Calm /\ (u.mode = "idle" => Rise(u, sda) = u)
    BY <2>1, RiseFields, RiseQuiet DEF Calm
  <2> QED BY <2>1, <2>2, <2>3, <2>4
<1>2. /\ Early(s) /\ Early(OnSda(s, sda0, sda1, scl0))
      /\ sda0 = sda1 => OnSda(s, sda0, sda1, scl0) = s
  BY <1>0, StartFields, StopFields DEF OnSda, Calm
<1>3. CASE SclTo(c, OnSda(s, sda0, sda1, scl0), scl0, scl1, sda1, t)
  BY <1>0, <1>1, <1>2, <1>3
<1>4. CASE \E u \in Slaves : /\ SclTo(c, s, scl0, scl1, sda0, u)
                             /\ t = OnSda(u, sda0, sda1, scl1)
  <2>1. PICK u \in Slaves : /\ SclTo(c, s, scl0, scl1, sda0, u)
                            /\ t = OnSda(u, sda0, sda1, scl1)
    BY <1>4
  <2>2. u = s
    BY <1>0, <1>1, <1>2, <2>1
  <2>3. sda0 = sda1 => t = s
    BY <2>1, <2>2 DEF OnSda
  <2> QED BY <1>0, <2>1, <2>2, <2>3, OnSdaCalm
<1> QED BY <1>3, <1>4 DEF HearsTo

(* START, from a free bus and from one in use.                             *)
LEMMA FreeOut ==
  ASSUME NEW c
  PROVE  /\ Fits(c, FreeLines, Dir(Out, Out), OutLines)
         /\ Fits(c, FreeLines, Dir(Keep, Out), HalfLines)
         /\ Fits(c, HalfLines, Dir(Out, Keep), OutLines)
<1>1. ASSUME NEW x \in FreeLines \cup HalfLines, NEW o \in {Dir(Out, Out), Dir(Keep, Out),
             Dir(Out, Keep)}, NEW y, After(c, o, x, y)
      PROVE  /\ y \in Lines /\ y.ds = Or(o.sda, x.ds) /\ y.dc = Or(o.scl, x.dc)
             /\ y.ck = 0 /\ y.s \in Calm
             /\ o = Dir(Keep, Out) => y.s \in AtRest
  <2>1. /\ y \in Lines /\ y.ds = Or(o.sda, x.ds) /\ y.dc = Or(o.scl, x.dc)
        /\ y.ls = x.ls /\ y.lc = x.lc /\ y.ck = x.ck
        /\ HearsTo(c, x.s, SdaOf(x), Lev(y.ds, y.ls, x.s.sda),
                   SclOf(x), Lev(y.dc, y.lc, x.s.scl), y.s)
    BY <1>1 DEF After, Moves, Dir
  <2>2. x.s \in AtRest /\ x.ck = 0 /\ x.ds = In
    BY DEF FreeLines, HalfLines
  <2>3. /\ SdaOf(x) \in Bit /\ Lev(y.ds, y.ls, x.s.sda) \in Bit
        /\ SclOf(x) \in Bit /\ Lev(y.dc, y.lc, x.s.scl) \in Bit
    BY LevBit DEF SdaOf, SclOf
  <2>4. y.s \in Calm /\ (SdaOf(x) = Lev(y.ds, y.ls, x.s.sda) => y.s = x.s)
    BY <2>1, <2>2, <2>3, HearsFromRest
  <2>5. o = Dir(Keep, Out) => SdaOf(x) = Lev(y.ds, y.ls, x.s.sda)
    BY <2>1, <2>2 DEF Dir, Or, SdaOf
  <2> QED BY <2>1, <2>2, <2>4, <2>5
<1>2. /\ Dir(Out, Out).sda = Out /\ Dir(Out, Out).scl = Out
      /\ Dir(Keep, Out).sda = Keep /\ Dir(Keep, Out).scl = Out
      /\ Dir(Out, Keep).sda = Out /\ Dir(Out, Keep).scl = Keep
      /\ Or(Out, In) = Out /\ Or(Keep, In) = In /\ Or(Keep, Out) = Out
  BY DEF Dir, Or, Out, In, Keep
<1>3. ASSUME NEW x \in FreeLines, NEW y, After(c, Dir(Out, Out), x, y)
      PROVE  y \in OutLines
  <2>1. x.ds = In /\ x.dc = In
    BY DEF FreeLines
  <2>2. y \in Lines /\ y.ds = Out /\ y.dc = Out /\ y.ck = 0 /\ y.s \in Calm
    BY <1>1, <1>2, <1>3, <2>1 DEF Or
  <2> QED BY <2>2 DEF OutLines
<1>4. ASSUME NEW x \in FreeLines, NEW y, After(c, Dir(Keep, Out), x, y)
      PROVE  y \in HalfLines
  <2>1. x.ds = In /\ x.dc = In
    BY DEF FreeLines
  <2>2. y \in Lines /\ y.ds = In /\ y.dc = Out /\ y.ck = 0 /\ y.s \in AtRest
    BY <1>1, <1>2, <1>4, <2>1 DEF Or
  <2> QED BY <2>2 DEF HalfLines
<1>5. ASSUME NEW x \in HalfLines, NEW y, After(c, Dir(Out, Keep), x, y)
      PROVE  y \in OutLines
  <2>1. x.ds = In /\ x.dc = Out
    BY DEF HalfLines
  <2>2. y \in Lines /\ y.ds = Out /\ y.dc = Out /\ y.ck = 0 /\ y.s \in Calm
    BY <1>1, <1>2, <1>5, <2>1
  <2> QED BY <2>2 DEF OutLines
<1> QED BY <1>3, <1>4, <1>5 DEF Fits

LEMMA OutDir ==
  ASSUME NEW c, NEW sda \in {Out, Keep}, NEW scl \in {Out, Keep}
  PROVE  Fits(c, OutLines, Dir(sda, scl), OutLines)
<1> SUFFICES ASSUME NEW x \in OutLines, NEW y, After(c, Dir(sda, scl), x, y)
             PROVE  y \in OutLines
  BY DEF Fits
<1>1. /\ y \in Lines /\ y.ds = Or(sda, x.ds) /\ y.dc = Or(scl, x.dc)
      /\ y.ls = x.ls /\ y.lc = x.lc /\ y.ck = x.ck
      /\ HearsTo(c, x.s, SdaOf(x), Lev(y.ds, y.ls, x.s.sda),
                 SclOf(x), Lev(y.dc, y.lc, x.s.scl), y.s)
  BY DEF After, Moves, Dir
<1>2. y.ds = x.ds /\ y.dc = x.dc /\ x.s \in Slaves
  BY <1>1 DEF OutLines, Or, Lines
<1>3. y.s = x.s
  BY <1>1, <1>2, HearSame DEF SdaOf, SclOf
<1> QED BY <1>1, <1>2, <1>3 DEF OutLines

LEMMA OutHigh ==
  ASSUME NEW c
  PROVE  /\ Fits(c, OutLines, Put(1, 1), High({Out}, {1}, Un(Calm)))
         /\ Fits(c, OutLines, Put(Keep, 1), High({Out}, Bit, Un(Calm)))
         /\ Fits(c, High({Out}, Bit, Un(Calm)), Put(1, Keep),
                 High({Out}, {1}, Un(Calm)))
<1>1. ASSUME NEW x \in OutLines \cup High({Out}, Bit, Un(Calm)),
             NEW o \in {Put(1, 1), Put(Keep, 1), Put(1, Keep)},
             o = Put(1, Keep) => x.lc = 1,
             NEW y, After(c, o, x, y)
      PROVE  /\ y \in Lines /\ y.ds = Out /\ y.dc = Out /\ y.lc = 1 /\ y.ck = 0
             /\ y.s \in Calm /\ (o # Put(Keep, 1) => y.ls = 1)
  <2>1. /\ y \in Lines /\ y.ls = Or(o.sda, Pin(c, SdaOf(x), x.ls))
        /\ y.lc = Or(o.scl, Pin(c, SclOf(x), x.lc))
        /\ y.ds = x.ds /\ y.dc = x.dc /\ y.ck = x.ck
        /\ HearsTo(c, x.s, SdaOf(x), Lev(y.ds, y.ls, x.s.sda),
                   SclOf(x), Lev(y.dc, y.lc, x.s.scl), y.s)
    BY <1>1 DEF After, Moves, Put
  <2>2. /\ x.s \in Calm /\ x.ck = 0 /\ x.ds = Out /\ x.dc = Out /\ x.s.scl = 1
    BY DEF OutLines, High, Un, Calm
  <2>3. o.scl = 1 \/ (o.scl = Keep /\ x.lc = 1)
    BY <1>1 DEF Put
  <2>4. y.lc = 1
    BY <2>1, <2>2, <2>3 DEF Or, Pin, SclOf, Lev, Keep
  <2>5. o # Put(Keep, 1) => y.ls = 1
    BY <2>1 DEF Put, Or, Keep
  <2>6. Lev(y.dc, y.lc, x.s.scl) = 1
    BY <2>2, <2>4 DEF Lev
  <2>7. y.s \in Calm
    <3>1. SdaOf(x) \in Bit /\ Lev(y.ds, y.ls, x.s.sda) \in Bit
      BY LevBit DEF SdaOf
    <3> QED BY <2>1, <2>2, <2>6, <3>1, HearsCalm
  <2> QED BY <2>1, <2>2, <2>4, <2>5, <2>7
<1>2. Put(1, 1) # Put(Keep, 1) /\ Put(1, Keep) # Put(Keep, 1) /\ Put(1, 1) # Put(1, Keep)
      /\ Put(Keep, 1) # Put(1, Keep)
  <2>1. Put(1, 1).sda = 1 /\ Put(Keep, 1).sda = 2 /\ Put(1, Keep).sda = 1
        /\ Put(1, 1).scl = 1 /\ Put(Keep, 1).scl = 1 /\ Put(1, Keep).scl = 2
    BY DEF Put, Keep
  <2> QED BY <2>1
<1>3. ASSUME NEW x \in OutLines, NEW y, After(c, Put(1, 1), x, y)
      PROVE  y \in High({Out}, {1}, Un(Calm))
  <2>1. /\ y \in Lines /\ y.ds = Out /\ y.dc = Out /\ y.lc = 1 /\ y.ck = 0
        /\ y.s \in Calm /\ y.ls = 1
    BY <1>1, <1>2, <1>3
  <2> QED BY <2>1 DEF High, Un
<1>4. ASSUME NEW x \in OutLines, NEW y, After(c, Put(Keep, 1), x, y)
      PROVE  y \in High({Out}, Bit, Un(Calm))
  <2>1. /\ y \in Lines /\ y.ds = Out /\ y.dc = Out /\ y.lc = 1 /\ y.ck = 0
        /\ y.s \in Calm
    BY <1>1, <1>2, <1>4
  <2> QED BY <2>1 DEF High, Un, Lines
<1>5. ASSUME NEW x \in High({Out}, Bit, Un(Calm)), NEW y, After(c, Put(1, Keep), x, y)
      PROVE  y \in High({Out}, {1}, Un(Calm))
  <2>1. x.lc = 1
    BY DEF High
  <2>2. /\ y \in Lines /\ y.ds = Out /\ y.dc = Out /\ y.lc = 1 /\ y.ck = 0
        /\ y.s \in Calm /\ y.ls = 1
    BY <1>1, <1>2, <1>5, <2>1
  <2> QED BY <2>2 DEF High, Un
<1> QED BY <1>3, <1>4, <1>5 DEF Fits

(* sda moves while scl is high.                                            *)
LEMMA SdaMoves ==
  ASSUME NEW c, NEW v \in Bit, NEW scl \in {1, Keep}, NEW T,
         \A s \in Calm : (IF v = 0 THEN Start(s) ELSE Stop(s)) \in T
  PROVE  Fits(c, High({Out}, {1 - v}, Un(Calm)), Put(v, scl), High({Out}, {v}, Un(T)))
<1> SUFFICES ASSUME NEW x \in High({Out}, {1 - v}, Un(Calm)), NEW y,
                    After(c, Put(v, scl), x, y)
             PROVE  y \in High({Out}, {v}, Un(T))
  BY DEF Fits
<1>1. /\ y \in Lines /\ y.ls = Or(v, Pin(c, SdaOf(x), x.ls))
      /\ y.lc = Or(scl, Pin(c, SclOf(x), x.lc))
      /\ y.ds = x.ds /\ y.dc = x.dc /\ y.ck = x.ck
      /\ HearsTo(c, x.s, SdaOf(x), Lev(y.ds, y.ls, x.s.sda),
                 SclOf(x), Lev(y.dc, y.lc, x.s.scl), y.s)
  BY DEF After, Moves, Put
<1>2. /\ x.s \in Slaves /\ x.s \in Calm /\ x.s.sda = 1 /\ x.s.scl = 1 /\ x.ck = 0
      /\ x.ds = Out /\ x.dc = Out /\ x.lc = 1 /\ x.ls = 1 - v
  BY DEF High, Un, Calm
<1>3. SdaOf(x) = 1 - v /\ SclOf(x) = 1
  BY <1>2 DEF SdaOf, SclOf, Lev, Bit
<1>4. y.ls = v /\ y.lc = 1 /\ y.ds = Out /\ y.dc = Out
  BY <1>1, <1>2, <1>3 DEF Or, Pin, Keep, Bit
<1>5. Lev(y.ds, y.ls, x.s.sda) = v /\ Lev(y.dc, y.lc, x.s.scl) = 1
  BY <1>2, <1>4 DEF Lev, Bit
<1>6. y.s = IF v = 0 THEN Start(x.s) ELSE Stop(x.s)
  <2>1. HearsTo(c, x.s, 1 - v, v, 1, 1, y.s)
    BY <1>1, <1>3, <1>5
  <2>2. CASE v = 0
    BY <1>2, <2>1, <2>2, HearStart
  <2>3. CASE v = 1
    BY <1>2, <2>1, <2>3, HearStop
  <2> QED BY <2>2, <2>3 DEF Bit
<1>7. y.s \in T
  BY <1>2, <1>6
<1> QED BY <1>1, <1>2, <1>4, <1>7 DEF High, Un

(* The master lets the lines go.                                           *)
LEMMA EndFits ==
  ASSUME NEW c
  PROVE  /\ Fits(c, High({Out}, {1}, Un(AtRest)), Dir(In, In), FreeLines)
         /\ Fits(c, High({Out}, {1}, Un(AtRest)), Dir(Keep, In), EndLines)
         /\ Fits(c, EndLines, Dir(In, Keep), FreeLines)
<1>1. ASSUME NEW x \in EndLines \cup High({Out}, {1}, Un(AtRest)),
             NEW o \in {Dir(In, In), Dir(Keep, In), Dir(In, Keep)},
             NEW y, After(c, o, x, y)
      PROVE  /\ y \in Lines /\ y.ds = Or(o.sda, x.ds) /\ y.dc = Or(o.scl, x.dc)
             /\ y.ls = 1 /\ y.ck = 0 /\ y.s \in AtRest
  <2>1. /\ y \in Lines /\ y.ds = Or(o.sda, x.ds) /\ y.dc = Or(o.scl, x.dc)
        /\ y.ls = x.ls /\ y.lc = x.lc /\ y.ck = x.ck
        /\ HearsTo(c, x.s, SdaOf(x), Lev(y.ds, y.ls, x.s.sda),
                   SclOf(x), Lev(y.dc, y.lc, x.s.scl), y.s)
    BY <1>1 DEF After, Moves, Dir
  <2>2. /\ x.s \in AtRest /\ x.s \in Slaves /\ x.s.sda = 1 /\ x.s.scl = 1
        /\ x.ck = 0 /\ x.ls = 1 /\ (x.dc = In \/ x.lc = 1)
    BY DEF EndLines, High, Un, AtRest, Calm
  <2>3. SdaOf(x) = 1 /\ SclOf(x) = 1
    BY <2>2 DEF SdaOf, SclOf, Lev, In, Out
  <2>4. y.dc = In \/ y.lc = 1
    BY <2>1, <2>2 DEF Or, Dir, Keep, In
  <2>5. Lev(y.ds, y.ls, x.s.sda) = 1 /\ Lev(y.dc, y.lc, x.s.scl) = 1
    BY <2>1, <2>2, <2>4 DEF Lev, In, Out
  <2>6. y.s = x.s
    BY <2>1, <2>2, <2>3, <2>5, HearSame
  <2> QED BY <2>1, <2>2, <2>6
<1>2. /\ Dir(In, In).sda = In /\ Dir(In, In).scl = In
      /\ Dir(Keep, In).sda = Keep /\ Dir(Keep, In).scl = In
      /\ Dir(In, Keep).sda = In /\ Dir(In, Keep).scl = Keep
      /\ (\A d : Or(In, d) = In) /\ Or(Keep, In) = In /\ Or(Keep, Out) = Out
  BY DEF Dir, Or, Out, In, Keep
<1>3. ASSUME NEW x \in High({Out}, {1}, Un(AtRest)), NEW y, After(c, Dir(In, In), x, y)
      PROVE  y \in FreeLines
  <2>1. y \in Lines /\ y.ds = In /\ y.dc = In /\ y.ck = 0 /\ y.s \in AtRest
    BY <1>1, <1>2, <1>3
  <2> QED BY <2>1 DEF FreeLines
<1>4. ASSUME NEW x \in High({Out}, {1}, Un(AtRest)), NEW y, After(c, Dir(Keep, In), x, y)
      PROVE  y \in EndLines
  <2>1. x.ds = Out
    BY DEF High
  <2>2. /\ y \in Lines /\ y.ds = Out /\ y.dc = In /\ y.ls = 1 /\ y.ck = 0
        /\ y.s \in AtRest
    BY <1>1, <1>2, <1>4, <2>1
  <2> QED BY <2>2 DEF EndLines
<1>5. ASSUME NEW x \in EndLines, NEW y, After(c, Dir(In, Keep), x, y)
      PROVE  y \in FreeLines
  <2>1. x.dc = In
    BY DEF EndLines
  <2>2. y \in Lines /\ y.ds = In /\ y.dc = In /\ y.ck = 0 /\ y.s \in AtRest
    BY <1>1, <1>2, <1>5, <2>1
  <2> QED BY <2>2 DEF FreeLines
<1> QED BY <1>3, <1>4, <1>5 DEF Fits

(* The master lets scl go, waits for it to be high, looks at sda and       *)
(* drives scl low again.                                                   *)
LEMMA LooseFits ==
  ASSUME NEW c, NEW L, NEW S, NEW T,
         \A s \in Slaves, k \in Bit :
           <<s, k>> \in S => /\ s.scl = 1 => <<Rise(s, s.sda), k>> \in T
                             /\ s.scl = 0 => <<s, k>> \in T
  PROVE  Fits(c, Low({In}, L, S), Dir(In, In), Loose(T))
<1> SUFFICES ASSUME NEW x \in Low({In}, L, S), NEW y, After(c, Dir(In, In), x, y)
             PROVE  y \in Loose(T)
  BY DEF Fits
<1>1. /\ y \in Lines /\ y.ds = In /\ y.dc = In
      /\ y.ls = x.ls /\ y.lc = x.lc /\ y.ck = x.ck
      /\ HearsTo(c, x.s, SdaOf(x), Lev(y.ds, y.ls, x.s.sda),
                 SclOf(x), Lev(y.dc, y.lc, x.s.scl), y.s)
  BY DEF After, Moves, Dir, Or, In, Keep
<1>2. /\ x.s \in Slaves /\ x.ck \in Bit /\ x.dc = Out /\ x.lc = 0 /\ x.ds = In
      /\ <<x.s, x.ck>> \in S /\ x.s.sda \in Bit /\ x.s.scl \in Bit
  BY DEF Low, Lines, Slaves
<1>3. SdaOf(x) = x.s.sda /\ SclOf(x) = 0
  BY <1>2 DEF SdaOf, SclOf, Lev, Bit, In, Out
<1>4. Lev(y.ds, y.ls, x.s.sda) = x.s.sda /\ Lev(y.dc, y.lc, x.s.scl) = x.s.scl
  BY <1>1, <1>2 DEF Lev, Bit, In, Out
<1>5. <<y.s, x.ck>> \in T
  <2>1. HearsTo(c, x.s, x.s.sda, x.s.sda, 0, x.s.scl, y.s)
    BY <1>1, <1>3, <1>4
  <2>2. CASE x.s.scl = 0
    <3>1. y.s = x.s
      BY <1>2, <2>1, <2>2, HearSame
    <3> QED BY <1>2, <2>2, <3>1
  <2>3. CASE x.s.scl = 1
    <3>1. y.s = Rise(x.s, x.s.sda)
      BY <1>2, <2>1, <2>3, HearRise
    <3> QED BY <1>2, <2>3, <3>1
  <2> QED BY <1>2, <2>2, <2>3 DEF Bit
<1> QED BY <1>1, <1>2, <1>5 DEF Loose

LEMMA WaitFits ==
  ASSUME NEW c, NEW S, NEW T,
         \A s \in Slaves, k \in Bit : <<s, k>> \in S /\ s.scl = 1 => <<s, k>> \in T
  PROVE  Fits(c, Loose(S), Wait, Loose(T))
<1> SUFFICES ASSUME NEW x \in Loose(S), NEW y, After(c, Wait, x, y)
             PROVE  y \in Loose(T)
  BY DEF Fits
<1>1. y = x /\ SclOf(x) = 1
  BY DEF After, Wait
<1>2. x.s \in Slaves /\ x.s.scl \in Bit /\ x.ck \in Bit /\ <<x.s, x.ck>> \in S
  BY DEF Loose, Lines, Slaves
<1>3. x.s.scl = 1
  BY <1>1, <1>2 DEF SclOf, Lev, Bit
<1> QED BY <1>1, <1>2, <1>3 DEF Loose

LEMMA CheckLoose ==
  ASSUME NEW c, NEW S, NEW T,
         \A s \in Slaves, k \in Bit : <<s, k>> \in S => <<s, s.sda>> \in T
  PROVE  Fits(c, Loose(S), Check, Loose(T))
<1> SUFFICES ASSUME NEW x \in Loose(S), NEW y, After(c, Check, x, y)
             PROVE  y \in Loose(T)
  BY DEF Fits
<1>1. y \in Lines /\ y = [x EXCEPT !.ck = SdaOf(x)]
  BY DEF After, Check
<1>2. /\ x \in Lines /\ x.s \in Slaves /\ x.ck \in Bit /\ x.ds = In /\ x.dc = In
      /\ x.lc = 0 /\ <<x.s, x.ck>> \in S /\ x.s.sda \in Bit
  BY DEF Loose, Lines, Slaves
<1>3. SdaOf(x) = x.s.sda
  BY <1>2 DEF SdaOf, Lev, Bit, In, Out
<1>4. <<x.s, x.s.sda>> \in T
  BY <1>2
<1>5. y.ck = x.s.sda /\ y.s = x.s /\ y.ds = x.ds /\ y.dc = x.dc /\ y.lc = x.lc
  BY <1>1, <1>2, <1>3 DEF Lines
<1> QED BY <1>1, <1>2, <1>4, <1>5 DEF Loose

LEMMA LooseEnds ==
  ASSUME NEW c, NEW S, NEW T,
         \A s \in Slaves, k \in Bit :
           <<s, k>> \in S => /\ s.scl = 1
                             /\ \A t : FallsTo(c, s, t) => <<t, k>> \in T
  PROVE  Fits(c, Loose(S), Dir(In, Out), Low({In}, Bit, T))
<1> SUFFICES ASSUME NEW x \in Loose(S), NEW y, After(c, Dir(In, Out), x, y)
             PROVE  y \in Low({In}, Bit, T)
  BY DEF Fits
<1>1. /\ y \in Lines /\ y.ds = In /\ y.dc = Out
      /\ y.ls = x.ls /\ y.lc = x.lc /\ y.ck = x.ck
      /\ HearsTo(c, x.s, SdaOf(x), Lev(y.ds, y.ls, x.s.sda),
                 SclOf(x), Lev(y.dc, y.lc, x.s.scl), y.s)
  BY DEF After, Moves, Dir, Or, In, Out, Keep
<1>2. /\ x.s \in Slaves /\ x.ck \in Bit /\ x.ds = In /\ x.dc = In /\ x.lc = 0
      /\ x.ls \in Bit /\ <<x.s, x.ck>> \in S /\ x.s.sda \in Bit
  BY DEF Loose, Lines, Slaves
<1>3. x.s.scl = 1
  BY <1>2
<1>4. SdaOf(x) = x.s.sda /\ SclOf(x) = 1
  BY <1>2, <1>3 DEF SdaOf, SclOf, Lev, Bit, In, Out
<1>5. Lev(y.ds, y.ls, x.s.sda) = x.s.sda /\ Lev(y.dc, y.lc, x.s.scl) = 0
  BY <1>1, <1>2 DEF Lev, Bit, In, Out
<1>6. FallsTo(c, x.s, y.s)
  BY <1>1, <1>2, <1>4, <1>5, HearFall
<1>7. <<y.s, x.ck>> \in T
  BY <1>2, <1>6
<1> QED BY <1>1, <1>2, <1>7 DEF Low

(***************************************************************************)
(* The routines.  Phase(c, p) is what a routine of call c leaves: the bus  *)
(* free; the slave waiting for its address; taking bytes; sending them; or *)
(* asked for the acknowledge of a byte it takes (askT) or of its address   *)
(* when it is to send (askS); the master asked for its answer to a byte    *)
(* sent; or the transfer refused, by the slave or by the master's NACK.    *)
(***************************************************************************)
Takers == {"reg", "data"}
Phases == {"free", "addr", "taking", "askT", "askS", "sending", "sent", "closed"}
Asked(c, M) == Un(Acks(c, M) \cup Refusing)
Told(S) == Un(S) \cup (Refusing \X {1})
Phase(c, p) ==
  CASE p = "free" -> FreeLines
    [] p = "addr" -> Low({Out}, {0}, Un(Taken({"addr"}, 0)))
    [] p = "askT" -> Low({In}, Bit, Asked(c, Takers))
    [] p = "askS" -> Low({In}, Bit, Asked(c, {"send"}))
    [] p = "taking" -> Low({Out}, Bit, Told(Taken(Takers, 0)))
    [] p = "sending" -> Low(Ways, Bit, Told(Sending(0)))
    [] p = "sent" -> Low({Out}, Bit, Un(Asking))
    [] p = "closed" -> Low(Ways, Bit, Un(Refusing))
(* A routine is begun only when the byte before it was not refused.        *)
Ready(c, p) == {x \in Phase(c, p) : x.ck = 0}

LEMMA SetsOfSlaves ==
  /\ Calm \subseteq Slaves /\ AtRest \subseteq Calm /\ Refusing \subseteq Calm
  /\ \A M, n : Taken(M, n) \subseteq Calm
  /\ \A n : Sending(n) \subseteq Slaves
  /\ Asking \subseteq Calm
  /\ \A c, M : Acks(c, M) \subseteq Slaves
BY DEF Calm, AtRest, Refusing, Taken, Sending, Asking, Acks

LEMMA SendingOK ==
  ASSUME NEW n
  PROVE  /\ \A D, L : Low(D, L, Un(Sending(n))) \in Asserts
         /\ \A L : High({In}, L, Un(Sending(n))) \in Asserts
         /\ \A D, L : Low(D, L, Told(Sending(n))) \in Asserts
<1>1. \A s \in Slaves, k \in Bit : <<s, k>> \in Told(Sending(n)) => s.scl = 1
  BY DEF Told, Un, Sending, Refusing, Calm
<1>2. \A s \in Slaves, k \in Bit : <<s, k>> \in Un(Sending(n)) => s.scl = 1
  BY DEF Un, Sending
<1>3. Out \notin {In} /\ 1 # 0
  BY DEF In, Out
<1> QED BY <1>1, <1>2, <1>3, LowOK, HighOK

LEMMA TakenOK ==
  ASSUME NEW n, NEW M
  PROVE  \A D, L : Low(D, L, Told(Taken(M, n))) \in Asserts
<1>1. \A s \in Slaves, k \in Bit : <<s, k>> \in Told(Taken(M, n)) => s.scl = 1
  BY DEF Told, Un, Taken, Refusing, Calm
<1> QED BY <1>1, LowOK

LEMMA AcksLetGo ==
  ASSUME NEW c, NEW M, NEW s \in Acks(c, M)
  PROVE  LetGo(s) \in Acks(c, M)
BY LetGoFields DEF Acks

LEMMA AskedOK ==
  ASSUME NEW c, NEW M
  PROVE  \A D, L : Low(D, L, Asked(c, M)) \in Asserts
<1>1. ASSUME NEW s \in Slaves, NEW k \in Bit, <<s, k>> \in Asked(c, M), s.scl = 0
      PROVE  <<LetGo(s), k>> \in Asked(c, M)
  <2>1. k = 0 /\ s \in Acks(c, M)
    BY <1>1 DEF Asked, Un, Refusing, Calm
  <2> QED BY <2>1, AcksLetGo DEF Asked, Un
<1> QED BY <1>1, LowOK

LEMMA StartFits ==
  ASSUME NEW c, NEW scl \in {1, Keep}
  PROVE  Fits(c, High({Out}, {1}, Un(Calm)), Put(0, scl),
              High({Out}, {0}, Un(Taken({"addr"}, 0))))
<1>1. \A s \in Calm : Start(s) \in Taken({"addr"}, 0)
  BY StartFields DEF Calm, Taken
<1>2. Fits(c, High({Out}, {1 - 0}, Un(Calm)), Put(0, scl),
           High({Out}, {0}, Un(Taken({"addr"}, 0))))
  BY <1>1, SdaMoves DEF Bit
<1>3. 1 - 0 = 1
  OBVIOUS
<1> QED BY <1>2, <1>3

LEMMA StopFits ==
  ASSUME NEW c, NEW scl \in {1, Keep}
  PROVE  Fits(c, High({Out}, {0}, Un(Calm)), Put(1, scl),
              High({Out}, {1}, Un(AtRest)))
<1>1. \A s \in Calm : Stop(s) \in AtRest
  BY StopFields DEF Calm, AtRest
<1>2. Fits(c, High({Out}, {1 - 1}, Un(Calm)), Put(1, scl),
           High({Out}, {1}, Un(AtRest)))
  BY <1>1, SdaMoves DEF Bit
<1>3. 1 - 1 = 0
  OBVIOUS
<1> QED BY <1>2, <1>3

LEMMA OpsOK ==
  /\ \A sda, scl \in 0 .. 2 : Dir(sda, scl) \in Ops /\ Put(sda, scl) \in Ops
  /\ Sample \in Ops /\ Check \in Ops /\ Wait \in Ops
  /\ In \in 0 .. 2 /\ Out \in 0 .. 2 /\ Keep \in 0 .. 2
BY DEF Dir, Put, Sample, Check, Wait, Ops, Kinds, In, Out, Keep

(* The last edge of START.                                                 *)
LEMMA StartFalls ==
  ASSUME NEW c, NEW sda \in {0, Keep}
  PROVE  Fits(c, High({Out}, {0}, Un(Taken({"addr"}, 0))), Put(sda, 0),
              Low({Out}, {0}, Un(Taken({"addr"}, 0))))
<1>1. ASSUME NEW s \in Slaves, NEW k \in Bit, <<s, k>> \in Un(Taken({"addr"}, 0))
      PROVE  /\ s.scl = 1 /\ s.sda = 1
             /\ \A t : FallsTo(c, s, t) => <<t, k>> \in Un(Taken({"addr"}, 0))
  <2>1. s.scl = 1 /\ s.sda = 1 /\ s.mode = "addr" /\ s.ack = FALSE /\ s.n = 0
    BY <1>1 DEF Un, Taken, Calm
  <2>2. \A t : FallsTo(c, s, t) => t = s
    BY <2>1, FallIgnored
  <2> QED BY <1>1, <2>1, <2>2
<1> QED BY <1>1, FallOut DEF Bit

(* START from a free bus, and again while the slave takes bytes.           *)
LEMMA StartOutline ==
  ASSUME NEW c, NEW P \in {FreeLines, OutLines}
  PROVE  /\ Outline(c, P, i2c_start, Phase(c, "addr"))
         /\ Outline(c, P, emio_i2c_start, Phase(c, "addr"))
<1> DEFINE H1 == High({Out}, {1}, Un(Calm))
           HB == High({Out}, Bit, Un(Calm))
           H0 == High({Out}, {0}, Un(Taken({"addr"}, 0)))
           L0 == Low({Out}, {0}, Un(Taken({"addr"}, 0)))
           H == IF P = OutLines THEN OutLines ELSE HalfLines
<1>1. /\ P \in Asserts /\ OutLines \in Asserts /\ H \in Asserts /\ H1 \in Asserts
      /\ HB \in Asserts /\ H0 \in Asserts /\ L0 \in Asserts
  BY CalmLines, SetsOfSlaves
<1>2. /\ Fits(c, P, Dir(Out, Out), OutLines)
      /\ Fits(c, P, Dir(Keep, Out), H) /\ Fits(c, H, Dir(Out, Keep), OutLines)
  BY FreeOut, OutDir
<1>3. /\ Fits(c, OutLines, Put(1, 1), H1) /\ Fits(c, OutLines, Put(Keep, 1), HB)
      /\ Fits(c, HB, Put(1, Keep), H1)
  BY OutHigh
<1>4. Fits(c, H1, Put(0, 1), H0) /\ Fits(c, H1, Put(0, Keep), H0)
  BY StartFits
<1>5. Fits(c, H0, Put(0, 0), L0) /\ Fits(c, H0, Put(Keep, 0), L0)
  BY StartFalls
<1>6. /\ Dir(Out, Out) \in Ops /\ Dir(Keep, Out) \in Ops /\ Dir(Out, Keep) \in Ops
      /\ Put(1, 1) \in Ops /\ Put(0, 1) \in Ops /\ Put(0, 0) \in Ops
      /\ Put(Keep, 1) \in Ops /\ Put(1, Keep) \in Ops /\ Put(0, Keep) \in Ops
      /\ Put(Keep, 0) \in Ops
  BY OpsOK
<1>7. Phase(c, "addr") = L0
  BY DEF Phase
<1> HIDE DEF H1, HB, H0, L0, H
<1>8. Outline(c, P, <<Dir(Out, Out), Put(1, 1), Put(0, 1), Put(0, 0)>>, L0)
  BY <1>1, <1>2, <1>3, <1>4, <1>5, <1>6, OfOps4
<1>9. /\ Outline(c, P, <<Dir(Keep, Out), Dir(Out, Keep)>>, OutLines)
      /\ Outline(c, OutLines, <<Put(Keep, 1), Put(1, Keep), Put(0, Keep), Put(Keep, 0)>>, L0)
  BY <1>1, <1>2, <1>3, <1>4, <1>5, <1>6, OfOps2, OfOps4
<1> QED BY <1>7, <1>8, <1>9, OfTwo
        DEF i2c_start, emio_i2c_start, BothOut, Scl, Sda

(* STOP, whenever the slave lets both lines go.                            *)
LEMMA StopOutline ==
  ASSUME NEW c
  PROVE  /\ Outline(c, Low(Ways, Bit, Un(Calm)), i2c_stop, FreeLines)
         /\ Outline(c, Low(Ways, Bit, Un(Calm)), emio_i2c_stop, FreeLines)
<1> DEFINE LB == Low(Ways, Bit, Un(Calm))
           LW == Low(Ways, {0}, Un(Calm))
           L0 == Low({Out}, {0}, Un(Calm))
           H0 == High({Out}, {0}, Un(Calm))
           H1 == High({Out}, {1}, Un(AtRest))
<1>1. /\ LB \in Asserts /\ LW \in Asserts /\ L0 \in Asserts /\ H0 \in Asserts
      /\ H1 \in Asserts /\ FreeLines \in Asserts /\ EndLines \in Asserts
  BY CalmLines, SetsOfSlaves
<1>2. /\ Fits(c, LB, Put(0, 0), LW) /\ Fits(c, LB, Put(Keep, 0), LB)
      /\ Fits(c, LB, Put(0, Keep), LW)
      /\ Fits(c, L0, Put(0, 0), L0) /\ Fits(c, L0, Put(0, Keep), L0)
  BY LowPut DEF Keep, Bit
<1>3. Fits(c, L0, Put(Keep, 0), Low({Out}, Bit, Un(Calm)))
  BY LowPut DEF Keep, Bit
<1>4. Fits(c, Low({Out}, Bit, Un(Calm)), Put(0, Keep), L0)
  BY LowPut DEF Keep, Bit
<1>5. Fits(c, LW, Dir(Out, Out), L0)
  BY LowDir DEF Or, Out, Keep
<1>6. Fits(c, LW, Dir(Keep, Out), LW) /\ Fits(c, LW, Dir(Out, Keep), L0)
  BY LowDir DEF Or, Out, Keep
<1>7. Fits(c, L0, Put(0, 1), H0) /\ Fits(c, L0, Put(Keep, 1), H0)
  <2>1. ASSUME NEW s \in Slaves, NEW k \in Bit, <<s, k>> \in Un(Calm)
        PROVE  s.scl = 1 /\ s.sda = 1 /\ <<Rise(s, 0), k>> \in Un(Calm)
    BY <2>1, RiseFields DEF Un, Calm, Bit
  <2> QED BY <2>1, RiseOut DEF Bit
<1>8. Fits(c, H0, Put(1, 1), H1) /\ Fits(c, H0, Put(1, Keep), H1)
  BY StopFits
<1>9. /\ Fits(c, H1, Dir(In, In), FreeLines)
      /\ Fits(c, H1, Dir(Keep, In), EndLines) /\ Fits(c, EndLines, Dir(In, Keep), FreeLines)
  BY EndFits
<1>10. /\ Dir(Out, Out) \in Ops /\ Dir(Keep, Out) \in Ops /\ Dir(Out, Keep) \in Ops
       /\ Dir(In, In) \in Ops /\ Dir(Keep, In) \in Ops /\ Dir(In, Keep) \in Ops
       /\ Put(1, 1) \in Ops /\ Put(0, 1) \in Ops /\ Put(0, 0) \in Ops
       /\ Put(Keep, 1) \in Ops /\ Put(1, Keep) \in Ops /\ Put(0, Keep) \in Ops
       /\ Put(Keep, 0) \in Ops
  BY OpsOK
<1> DEFINE LO == Low({Out}, Bit, Un(Calm))
<1>11. LO \in Asserts
  BY CalmLines
<1> HIDE DEF LB, LW, L0, H0, H1, LO
<1>12. Outline(c, LB, <<Put(0, 0), Dir(Out, Out), Put(0, 0), Put(0, 1), Put(1, 1),
                        Dir(In, In)>>, FreeLines)
  BY <1>1, <1>2, <1>5, <1>7, <1>8, <1>9, <1>10, OfOps6
<1>13. /\ Outline(c, LB, <<Put(Keep, 0), Put(0, Keep)>>, LW)
       /\ Outline(c, LW, <<Dir(Keep, Out), Dir(Out, Keep)>>, L0)
       /\ Outline(c, H1, <<Dir(Keep, In), Dir(In, Keep)>>, FreeLines)
  BY <1>1, <1>2, <1>6, <1>9, <1>10, OfOps2
<1>14. Outline(c, L0, <<Put(Keep, 0), Put(0, Keep), Put(Keep, 1), Put(1, Keep)>>, H1)
  BY <1>1, <1>3, <1>4, <1>7, <1>8, <1>10, <1>11, OfOps4 DEF LO
<1> QED BY <1>12, <1>13, <1>14, OfTwo
        DEF i2c_stop, emio_i2c_stop, BothOut, Scl, Sda, LB


(***************************************************************************)
(* A byte sent, whose bits the slave counts and whose last it keeps.       *)
(***************************************************************************)
Third(k) == (k + 2) \div 3
Step3(k) == ((k + 2) % 3) + 1
SendBits(v, scl) ==
  [k \in 1 .. 3 * Bits |->
     <<Put(BitOf(v, Third(k)), scl), Put(Keep, 1), Put(Keep, 0)>>[Step3(k)]]
RecvBits ==
  [k \in 1 .. 3 * Bits |-> <<Put(Keep, 1), Sample, Put(Keep, 0)>>[Step3(k)]]

LEMMA Thirds ==
  ASSUME NEW i \in 1 .. Bits
  PROVE  /\ 3 * i - 2 \in 1 .. 3 * Bits /\ 3 * i - 1 \in 1 .. 3 * Bits
         /\ 3 * i \in 1 .. 3 * Bits
         /\ Third(3 * i - 2) = i /\ Step3(3 * i - 2) = 1
         /\ Third(3 * i - 1) = i /\ Step3(3 * i - 1) = 2
         /\ Third(3 * i) = i /\ Step3(3 * i) = 3
BY BitsOK DEF Third, Step3

LEMMA SendBitsOps ==
  ASSUME NEW v, NEW scl \in {0, Keep}
  PROVE  /\ SendBits(v, scl) \in Seq(Ops) /\ Len(SendBits(v, scl)) = 3 * Bits
         /\ \A i \in 1 .. Bits :
              /\ SendBits(v, scl)[3 * i - 2] = Put(BitOf(v, i), scl)
              /\ SendBits(v, scl)[3 * i - 1] = Put(Keep, 1)
              /\ SendBits(v, scl)[3 * i] = Put(Keep, 0)
<1> DEFINE n == 3 * Bits
           s == SendBits(v, scl)
           Of(k) == <<Put(BitOf(v, Third(k)), scl), Put(Keep, 1), Put(Keep, 0)>>
<1>0. n \in Nat
  BY BitsOK
<1>1. ASSUME NEW k \in 1 .. n PROVE Of(k)[Step3(k)] \in Ops
  <2>1. Step3(k) \in {1, 2, 3}
    BY <1>0 DEF Step3
  <2>2. BitOf(v, Third(k)) \in 0 .. 2
    BY BitOfBit DEF Bit
  <2>3. /\ Put(BitOf(v, Third(k)), scl) \in Ops /\ Put(Keep, 1) \in Ops
        /\ Put(Keep, 0) \in Ops
    BY <2>2, OpsOK DEF Keep
  <2> QED BY <2>1, <2>3
<1>2. s = [k \in 1 .. n |-> Of(k)[Step3(k)]]
  BY DEF SendBits
<1> HIDE DEF s, n, Of
<1>3. s \in Seq(Ops) /\ Len(s) = n
  BY <1>0, <1>1, <1>2
<1>4. ASSUME NEW i \in 1 .. Bits
      PROVE  /\ s[3 * i - 2] = Put(BitOf(v, i), scl) /\ s[3 * i - 1] = Put(Keep, 1)
             /\ s[3 * i] = Put(Keep, 0)
  BY <1>2, Thirds DEF Of, n
<1> QED BY <1>3, <1>4 DEF s, n

LEMMA RecvBitsOps ==
  /\ RecvBits \in Seq(Ops) /\ Len(RecvBits) = 3 * Bits
  /\ \A i \in 1 .. Bits : /\ RecvBits[3 * i - 2] = Put(Keep, 1)
                          /\ RecvBits[3 * i - 1] = Sample
                          /\ RecvBits[3 * i] = Put(Keep, 0)
<1> DEFINE n == 3 * Bits
           s == RecvBits
           Of == <<Put(Keep, 1), Sample, Put(Keep, 0)>>
<1>0. n \in Nat
  BY BitsOK
<1>1. ASSUME NEW k \in 1 .. n PROVE Of[Step3(k)] \in Ops
  <2>1. Step3(k) \in {1, 2, 3}
    BY <1>0 DEF Step3
  <2>2. Put(Keep, 1) \in Ops /\ Sample \in Ops /\ Put(Keep, 0) \in Ops
    BY OpsOK
  <2> QED BY <2>1, <2>2
<1>2. s = [k \in 1 .. n |-> Of[Step3(k)]]
  BY DEF RecvBits
<1> HIDE DEF s, n, Of
<1>3. s \in Seq(Ops) /\ Len(s) = n
  BY <1>0, <1>1, <1>2
<1>4. ASSUME NEW i \in 1 .. Bits
      PROVE  /\ s[3 * i - 2] = Put(Keep, 1) /\ s[3 * i - 1] = Sample
             /\ s[3 * i] = Put(Keep, 0)
  BY <1>2, Thirds DEF Of, n
<1> QED BY <1>3, <1>4 DEF s, n

LEMMA FitsMore ==
  ASSUME NEW c, NEW A, NEW o, NEW B, NEW V, Fits(c, A, o, B), B \subseteq V
  PROVE  Fits(c, A, o, V)
BY DEF Fits

LEMMA LastBit ==
  ASSUME NEW v \in Nat
  PROVE  BitOf(v, Bits) = v % 2
<1>1. Bits - Bits = 0 /\ 2^0 = 1 /\ v \div 1 = v /\ v % 2 \in {0, 1}
  BY BitsOK
<1>2. v \div 2^(Bits - Bits) = v
  BY <1>1
<1> QED BY <1>1, <1>2 DEF BitOf

(* The bits of v go to a slave in a mode of M, which may then acknowledge  *)
(* them in a mode of M2.                                                   *)
LEMMA SendBitsOutline ==
  ASSUME NEW c, NEW v \in Nat, NEW scl \in {0, Keep},
         NEW M \in SUBSET Taking, NEW M2,
         \A s \in Taken(M, Bits) : \A t :
           s.sh % 2 = v % 2 /\ FallsTo(c, s, t) => t \in Acks(c, M2) \cup Refusing
  PROVE  Outline(c, Low({Out}, Bit, Un(Taken(M, 0))), SendBits(v, scl),
                 Low({Out}, Bit, Asked(c, M2)))
<1> DEFINE Last(n, b) == {s \in Taken(M, n) : s.sh % 2 = b}
           I == [i \in 0 .. Bits |-> IF i = Bits THEN Low({Out}, Bit, Asked(c, M2))
                                     ELSE Low({Out}, Bit, Un(Taken(M, i)))]
           J == [i \in 1 .. Bits |-> Low({Out}, {BitOf(v, i)}, Un(Taken(M, i - 1)))]
           K == [i \in 1 .. Bits |-> High({Out}, {BitOf(v, i)}, Un(Last(i, BitOf(v, i))))]
           S == SendBits(v, scl)
<1>1. /\ I \in [0 .. Bits -> Asserts] /\ J \in [1 .. Bits -> Asserts]
      /\ K \in [1 .. Bits -> Asserts]
  <2>1. \A n, b : Taken(M, n) \in SUBSET Calm /\ Last(n, b) \in SUBSET Calm
    BY SetsOfSlaves
  <2> HIDE DEF Last
  <2>2. \A i \in 0 .. Bits : I[i] \in Asserts
    BY <2>1, CalmLines, AskedOK
  <2>3. \A i \in 1 .. Bits : J[i] \in Asserts /\ K[i] \in Asserts
    BY <2>1, CalmLines
  <2> QED BY <2>2, <2>3
<1>2. ASSUME NEW i \in 1 .. Bits
      PROVE  /\ Fits(c, I[i - 1], S[3 * i - 2], J[i])
             /\ Fits(c, J[i], S[3 * i - 1], K[i])
             /\ Fits(c, K[i], S[3 * i], I[i])
  <2> DEFINE b == BitOf(v, i)
             m == i - 1
  <2>0. b \in Bit /\ b \in 0 .. 2 /\ b # Keep
    BY BitOfBit DEF Bit, Keep
  <2>1. /\ S[3 * i - 2] = Put(b, scl) /\ S[3 * i - 1] = Put(Keep, 1)
        /\ S[3 * i] = Put(Keep, 0)
    BY SendBitsOps
  <2>2. /\ m \in Nat /\ i = m + 1 /\ m \in 0 .. Bits /\ i \in 0 .. Bits /\ m # Bits
    BY BitsOK
  <2>3. /\ I[m] = Low({Out}, Bit, Un(Taken(M, m)))
        /\ J[i] = Low({Out}, {b}, Un(Taken(M, m)))
        /\ K[i] = High({Out}, {b}, Un(Last(i, b)))
        /\ I[i] = IF i = Bits THEN Low({Out}, Bit, Asked(c, M2))
                  ELSE Low({Out}, Bit, Un(Taken(M, i)))
    BY <2>2
  <2> HIDE DEF b, m, I, J, K, S
  <2>4. Fits(c, I[m], Put(b, scl), J[i])
    BY <2>0, <2>3, LowPut
  <2>5. Fits(c, J[i], Put(Keep, 1), K[i])
    <3>1. ASSUME NEW s \in Slaves, NEW k \in Bit, <<s, k>> \in Un(Taken(M, m))
          PROVE  s.scl = 1 /\ s.sda = 1 /\ <<Rise(s, b), k>> \in Un(Last(i, b))
      <4>1. /\ s \in Slaves /\ s.sda = 1 /\ s.scl = 1 /\ s.mode \in Taking /\ s.mode \in M
            /\ s.ack = FALSE /\ s.n = m /\ k = 0
        BY <3>1 DEF Un, Taken, Calm
      <4>2. /\ Rise(s, b) \in Slaves /\ Rise(s, b).mode = s.mode /\ Rise(s, b).ack = FALSE
            /\ Rise(s, b).sda = 1 /\ Rise(s, b).scl = 1
        BY <2>0, <4>1, RiseFields
      <4>3. Rise(s, b).n = i /\ Rise(s, b).sh % 2 = b
        BY <2>0, <2>2, <4>1, RiseBit
      <4> QED BY <4>1, <4>2, <4>3 DEF Un, Taken, Calm
    <3> HIDE DEF Last
    <3> QED BY <2>0, <2>3, <3>1, RiseOut
  <2>6. Fits(c, K[i], Put(Keep, 0), I[i])
    <3> DEFINE T == IF i = Bits THEN Asked(c, M2) ELSE Un(Taken(M, i))
    <3>1. ASSUME NEW s \in Slaves, NEW k \in Bit, <<s, k>> \in Un(Last(i, b))
          PROVE  /\ s.scl = 1 /\ s.sda = 1
                 /\ \A t : FallsTo(c, s, t) => <<t, k>> \in T
      <4>1. /\ s \in Slaves /\ s.sda = 1 /\ s.scl = 1 /\ s.mode \in Taking /\ s.mode \in M
            /\ s.ack = FALSE /\ s.n = i /\ s.sh % 2 = b /\ k = 0 /\ s \in Taken(M, i)
        BY <3>1 DEF Un, Taken, Calm
      <4>2. ASSUME NEW t, FallsTo(c, s, t) PROVE <<t, k>> \in T
        <5>1. CASE i = Bits
          <6>1. s \in Taken(M, Bits) /\ s.sh % 2 = v % 2
            BY <4>1, <5>1, LastBit DEF b
          <6>2. t \in Acks(c, M2) \cup Refusing
            BY <4>2, <6>1
          <6> QED BY <4>1, <5>1, <6>2 DEF Asked, Un
        <5>2. CASE i # Bits
          <6>1. t = s
            BY <4>1, <4>2, <5>2 DEF FallsTo, Taking
          <6> QED BY <4>1, <5>2, <6>1 DEF Un
        <5> QED BY <5>1, <5>2
      <4> QED BY <4>1, <4>2
    <3>2. Low({Out}, {b}, T) \subseteq I[i]
      BY <2>0, <2>3 DEF Low
    <3> HIDE DEF T, Last
    <3>3. Fits(c, K[i], Put(Keep, 0), Low({Out}, {b}, T))
      BY <2>0, <2>3, <3>1, FallOut
    <3> QED BY <3>2, <3>3, FitsMore
  <2>7. m = i - 1
    BY DEF m
  <2> QED BY <2>1, <2>4, <2>5, <2>6, <2>7
<1>3. S \in Seq(Ops) /\ Len(S) = 3 * Bits
  BY SendBitsOps
<1>4. I[0] = Low({Out}, Bit, Un(Taken(M, 0))) /\ I[Bits] = Low({Out}, Bit, Asked(c, M2))
  BY BitsOK
<1> HIDE DEF I, J, K, S
<1>5. Outline(c, I[0], S, I[Bits])
  BY <1>1, <1>2, <1>3, OfBits
<1> QED BY <1>4, <1>5 DEF S

(* What follows the last bit: the address, or a byte taken.                *)
Answers(M, v) == IF M = Takers \/ v % 2 = 0 THEN Takers ELSE {"send"}

LEMMA SlaveAnswers ==
  ASSUME NEW c, NEW v \in Nat, NEW M \in {{"addr"}, Takers},
         NEW s \in Taken(M, Bits), NEW t, s.sh % 2 = v % 2, FallsTo(c, s, t)
  PROVE  t \in Acks(c, Answers(M, v)) \cup Refusing
<1>1. /\ s \in Slaves /\ s.sda = 1 /\ s.scl = 1 /\ s.mode \in M
      /\ s.ack = FALSE /\ s.n = Bits
  BY DEF Taken, Calm
<1>2. s.mode = "addr" <=> M # Takers
  BY <1>1 DEF Takers
<1>3. s.mode \in Taking /\ ~(s.mode \in {"idle", "deaf"}) /\ s.mode # "send"
  BY <1>1 DEF Takers, Taking
<1>4. t \in Slaves /\ t.n = 0
      /\ \/ t.mode = "deaf" /\ t.sda = s.sda /\ t.scl = s.scl
         \/ /\ t.ack = TRUE /\ t.sda = 0 /\ t.sh = 0
            /\ t.scl = s.scl \/ c.stretch = TRUE
            /\ \/ s.mode = "addr" /\ s.sh % 2 = 0 /\ t.mode = "reg"
               \/ s.mode = "addr" /\ s.sh % 2 = 1 /\ t.mode = "send"
               \/ s.mode # "addr" /\ t.mode \in {"reg", "data"}
  BY <1>1, <1>3 DEF FallsTo
<1>5. CASE t.mode = "deaf" /\ t.sda = s.sda /\ t.scl = s.scl
  BY <1>1, <1>4, <1>5 DEF Refusing, Calm
<1>6. CASE /\ t.ack = TRUE /\ t.sda = 0 /\ t.sh = 0
           /\ t.scl = s.scl \/ c.stretch = TRUE
           /\ \/ s.mode = "addr" /\ s.sh % 2 = 0 /\ t.mode = "reg"
              \/ s.mode = "addr" /\ s.sh % 2 = 1 /\ t.mode = "send"
              \/ s.mode # "addr" /\ t.mode \in {"reg", "data"}
  <2>1. t.mode \in Answers(M, v)
    BY <1>2, <1>6 DEF Answers, Takers
  <2> QED BY <1>1, <1>4, <1>6, <2>1 DEF Acks
<1> QED BY <1>4, <1>5, <1>6

LEMMA SendOutline ==
  ASSUME NEW c, NEW v \in Nat, NEW M \in {{"addr"}, Takers}
  PROVE  LET P == Low({Out}, Bit, Un(Taken(M, 0)))
             Q == Low({In}, Bit, Asked(c, Answers(M, v)))
         IN  Outline(c, P, i2c_send_byte(v), Q) /\ Outline(c, P, emio_i2c_send_byte(v), Q)
<1> DEFINE P == Low({Out}, Bit, Un(Taken(M, 0)))
           V == Low({Out}, Bit, Asked(c, Answers(M, v)))
           Q == Low({In}, Bit, Asked(c, Answers(M, v)))
<1>1. P \in Asserts /\ V \in Asserts /\ Q \in Asserts
  BY CalmLines, SetsOfSlaves, AskedOK
<1>2. /\ Fits(c, P, Dir(Out, Out), P) /\ Fits(c, P, Dir(Out, Keep), P)
      /\ Fits(c, P, Dir(Keep, Out), P) /\ Fits(c, V, Dir(Keep, Out), V)
      /\ Fits(c, V, Dir(In, Out), Q) /\ Fits(c, V, Dir(In, Keep), Q)
  BY LowDir DEF Or, In, Out, Keep
<1>3. Fits(c, P, Put(Keep, 0), P)
  BY LowPut DEF Keep, Bit
<1>4. Outline(c, P, SendBits(v, 0), V) /\ Outline(c, P, SendBits(v, Keep), V)
  <2>1. M \in SUBSET Taking
    BY DEF Takers, Taking
  <2>2. \A s \in Taken(M, Bits) : \A t : s.sh % 2 = v % 2 /\ FallsTo(c, s, t)
          => t \in Acks(c, Answers(M, v)) \cup Refusing
    BY SlaveAnswers
  <2> QED BY <2>1, <2>2, SendBitsOutline
<1>5. /\ Dir(Out, Out) \in Ops /\ Dir(Keep, Out) \in Ops /\ Dir(Out, Keep) \in Ops
      /\ Dir(In, Out) \in Ops /\ Dir(In, Keep) \in Ops /\ Put(Keep, 0) \in Ops
  BY OpsOK
<1> HIDE DEF P, V, Q
<1>6. /\ Outline(c, P, <<Dir(Out, Out), Put(Keep, 0)>>, P)
      /\ Outline(c, P, <<Dir(Out, Keep), Dir(Keep, Out), Put(Keep, 0)>>, P)
      /\ Outline(c, V, <<Dir(In, Out)>>, Q)
      /\ Outline(c, V, <<Dir(Keep, Out), Dir(In, Keep)>>, Q)
  BY <1>1, <1>2, <1>3, <1>5, OfOne, OfOps2, OfOps3
<1>7. /\ i2c_send_byte(v) = <<Dir(Out, Out), Put(Keep, 0)>> \o SendBits(v, 0)
                            \o <<Dir(In, Out)>>
      /\ emio_i2c_send_byte(v) = <<Dir(Out, Keep), Dir(Keep, Out), Put(Keep, 0)>>
                                 \o SendBits(v, Keep) \o <<Dir(Keep, Out), Dir(In, Keep)>>
  BY DEF i2c_send_byte, emio_i2c_send_byte, EachBit, SendBits, Third, Step3, Sda, Scl, SdaIn
<1>8. Outline(c, P, i2c_send_byte(v), Q)
  BY <1>4, <1>6, <1>7, OfTwo
<1>9. Outline(c, P, emio_i2c_send_byte(v), Q)
  BY <1>4, <1>6, <1>7, OfTwo
<1> QED BY <1>8, <1>9 DEF P, Q

(***************************************************************************)
(* A byte received, whose bits the slave counts, and the master's answer.  *)
(***************************************************************************)
LEMMA RecvBitsOutline ==
  ASSUME NEW c
  PROVE  Outline(c, Low({In}, Bit, Un(Sending(0))), RecvBits, Low({In}, Bit, Un(Asking)))
<1> DEFINE I == [i \in 0 .. Bits |-> IF i = Bits THEN Low({In}, Bit, Un(Asking))
                                     ELSE Low({In}, Bit, Un(Sending(i)))]
           J == [i \in 1 .. Bits |-> High({In}, Bit, Un(Sending(i)))]
<1>1. I \in [0 .. Bits -> Asserts] /\ J \in [1 .. Bits -> Asserts]
  <2>1. \A i \in 0 .. Bits : I[i] \in Asserts
    BY SendingOK, CalmLines, SetsOfSlaves
  <2>2. \A i \in 1 .. Bits : J[i] \in Asserts
    BY SendingOK
  <2> QED BY <2>1, <2>2
<1>2. ASSUME NEW i \in 1 .. Bits
      PROVE  /\ Fits(c, I[i - 1], RecvBits[3 * i - 2], J[i])
             /\ Fits(c, J[i], RecvBits[3 * i - 1], J[i])
             /\ Fits(c, J[i], RecvBits[3 * i], I[i])
  <2> DEFINE m == i - 1
             T == IF i = Bits THEN Asking ELSE Sending(i)
  <2>1. /\ RecvBits[3 * i - 2] = Put(Keep, 1) /\ RecvBits[3 * i - 1] = Sample
        /\ RecvBits[3 * i] = Put(Keep, 0)
    BY RecvBitsOps
  <2>2. /\ m \in Nat /\ i = m + 1 /\ m \in 0 .. Bits /\ i \in 0 .. Bits /\ m # Bits
    BY BitsOK
  <2>3. /\ I[m] = Low({In}, Bit, Un(Sending(m))) /\ J[i] = High({In}, Bit, Un(Sending(i)))
        /\ I[i] = Low({In}, Bit, Un(T))
    BY <2>2
  <2>4. ASSUME NEW s \in Slaves, NEW k \in Bit, <<s, k>> \in Un(Sending(m))
        PROVE  s.scl = 1 /\ <<Rise(s, s.sda), k>> \in Un(Sending(i))
    <3>1. /\ s.mode = "send" /\ s.ack = FALSE /\ s.n = m /\ s.scl = 1 /\ k = 0
          /\ s.sda \in Bit
      BY <2>4 DEF Un, Sending, Slaves
    <3> HIDE DEF m
    <3>2. /\ Rise(s, s.sda) \in Slaves /\ Rise(s, s.sda).mode = "send"
          /\ Rise(s, s.sda).ack = FALSE /\ Rise(s, s.sda).scl = 1
          /\ Rise(s, s.sda).n = m + 1
      BY <3>1, RiseFields, RiseSent
    <3> QED BY <2>2, <3>1, <3>2 DEF Un, Sending
  <2>5. ASSUME NEW s \in Slaves, NEW k \in Bit, <<s, k>> \in Un(Sending(i))
        PROVE  s.scl = 1 /\ \A t : FallsTo(c, s, t) => <<t, k>> \in Un(T)
    <3>1. /\ s.mode = "send" /\ s.ack = FALSE /\ s.n = i /\ s.scl = 1 /\ k = 0
      BY <2>5 DEF Un, Sending
    <3>2. ASSUME NEW t, FallsTo(c, s, t) PROVE t \in T
      <4>1. /\ t \in Slaves /\ t.mode = "send" /\ t.n = i /\ t.scl = 1
            /\ i = Bits => t.ack = TRUE /\ t.sda = 1
            /\ i # Bits => t.ack = FALSE
        BY <3>1, <3>2 DEF FallsTo, Taking
      <4> QED BY <4>1 DEF Asking, Calm, Sending
    <3> QED BY <3>1, <3>2 DEF Un
  <2> HIDE DEF m, I, J, T
  <2>6. Fits(c, I[m], Put(Keep, 1), J[i])
    BY <2>3, <2>4, RiseIn
  <2>7. Fits(c, J[i], Sample, J[i])
    BY SampleFits
  <2>8. Fits(c, J[i], Put(Keep, 0), I[i])
    BY <2>3, <2>5, FallIn
  <2>9. m = i - 1
    BY DEF m
  <2> QED BY <2>1, <2>6, <2>7, <2>8, <2>9
<1>3. I[0] = Low({In}, Bit, Un(Sending(0))) /\ I[Bits] = Low({In}, Bit, Un(Asking))
  BY BitsOK
<1> HIDE DEF I, J
<1>4. Outline(c, I[0], RecvBits, I[Bits])
  BY <1>1, <1>2, RecvBitsOps, OfBits
<1> QED BY <1>3, <1>4

LEMMA RecvOutline ==
  ASSUME NEW c
  PROVE  LET P == Low(Ways, Bit, Un(Sending(0)))
         IN  /\ Outline(c, P, i2c_recv_byte, Phase(c, "sent"))
             /\ Outline(c, P, emio_i2c_recv_byte, Phase(c, "sent"))
<1> DEFINE P == Low(Ways, Bit, Un(Sending(0)))
           A == Low({In}, Bit, Un(Sending(0)))
           B == Low({In}, Bit, Un(Asking))
           Q == Low({Out}, Bit, Un(Asking))
<1>1. P \in Asserts /\ A \in Asserts /\ B \in Asserts /\ Q \in Asserts
  BY SendingOK, CalmLines, SetsOfSlaves
<1>2. /\ Fits(c, P, Dir(In, Out), A) /\ Fits(c, P, Dir(In, Keep), A)
      /\ Fits(c, A, Dir(Keep, Out), A)
      /\ Fits(c, B, Dir(Out, Out), Q) /\ Fits(c, B, Dir(Out, Keep), Q)
  BY LowDir DEF Or, In, Out, Keep, Ways
<1>3. Fits(c, A, Put(Keep, 0), A)
  BY LowPut DEF Keep, Bit
<1>4. Outline(c, A, RecvBits, B)
  BY RecvBitsOutline
<1>5. /\ Dir(Out, Out) \in Ops /\ Dir(Keep, Out) \in Ops /\ Dir(Out, Keep) \in Ops
      /\ Dir(In, Out) \in Ops /\ Dir(In, Keep) \in Ops /\ Put(Keep, 0) \in Ops
  BY OpsOK
<1>6. Phase(c, "sent") = Q
  BY DEF Phase
<1> HIDE DEF P, A, B, Q
<1>7. /\ Outline(c, P, <<Dir(In, Out), Put(Keep, 0)>>, A)
      /\ Outline(c, P, <<Dir(In, Keep), Dir(Keep, Out), Put(Keep, 0)>>, A)
      /\ Outline(c, B, <<Dir(Out, Out)>>, Q)
      /\ Outline(c, B, <<Dir(Out, Keep)>>, Q)
  BY <1>1, <1>2, <1>3, <1>5, OfOne, OfOps2, OfOps3
<1>8. /\ i2c_recv_byte = <<Dir(In, Out), Put(Keep, 0)>> \o RecvBits \o <<Dir(Out, Out)>>
      /\ emio_i2c_recv_byte = <<Dir(In, Keep), Dir(Keep, Out), Put(Keep, 0)>>
                              \o RecvBits \o <<Dir(Out, Keep)>>
  BY DEF i2c_recv_byte, emio_i2c_recv_byte, EachBit, RecvBits, Third, Step3, Scl
<1>9. Outline(c, P, i2c_recv_byte, Q)
  BY <1>4, <1>7, <1>8, OfTwo
<1>10. Outline(c, P, emio_i2c_recv_byte, Q)
  BY <1>4, <1>7, <1>8, OfTwo
<1> QED BY <1>6, <1>9, <1>10 DEF P

(* i2c_ack has the slave send its next byte, i2c_nack has it stop.         *)
LEMMA AnswerOutline ==
  ASSUME NEW c, NEW v \in Bit
  PROVE  LET T == IF v = 0 THEN Sending(0) ELSE Refusing
             P == Low({Out}, Bit, Un(Asking))
             Q == Low(Ways, Bit, Un(T))
         IN  /\ Outline(c, P, Answer(v), Q)
             /\ v = 0 => Outline(c, P, emio_i2c_ack, Q)
             /\ v = 1 => Outline(c, P, emio_i2c_nack, Q)
<1> DEFINE T == IF v = 0 THEN Sending(0) ELSE Refusing
           Told1 == {s \in Asking : s.sh = v}
           P == Low({Out}, Bit, Un(Asking))
           A == Low({Out}, {v}, Un(Asking))
           B == High({Out}, {v}, Un(Told1))
           V == Low({Out}, {v}, Un(T))
           Q == Low(Ways, Bit, Un(T))
<1>1. /\ P \in Asserts /\ A \in Asserts /\ B \in Asserts /\ V \in Asserts
      /\ Q \in Asserts
  <2>1. Told1 \in SUBSET Calm /\ Asking \in SUBSET Calm /\ Refusing \in SUBSET Calm
    BY SetsOfSlaves
  <2> HIDE DEF Told1
  <2> QED BY <2>1, SendingOK, CalmLines
<1>2. /\ Fits(c, P, Dir(Out, Out), P) /\ Fits(c, P, Dir(Out, Keep), P)
      /\ Fits(c, P, Dir(Keep, Out), P)
      /\ Fits(c, V, Dir(In, Out), Low({In}, {v}, Un(T)))
      /\ Fits(c, V, Dir(Keep, Out), V)
      /\ Fits(c, V, Dir(In, Keep), Low({In}, {v}, Un(T)))
  <2> HIDE DEF T
  <2> QED BY LowDir DEF Or, In, Out, Keep
<1>3. Low({In}, {v}, Un(T)) \subseteq Q
  BY DEF Low, Ways
<1>4. Fits(c, V, Dir(In, Out), Q) /\ Fits(c, V, Dir(In, Keep), Q)
  BY <1>2, <1>3, FitsMore
<1>5. Fits(c, P, Put(v, 0), A) /\ Fits(c, P, Put(Keep, 0), P) /\ Fits(c, P, Put(v, Keep), A)
  BY LowPut DEF Keep, Bit
<1>6. Fits(c, A, Put(v, 1), B) /\ Fits(c, A, Put(Keep, 1), B)
  <2>1. ASSUME NEW s \in Slaves, NEW k \in Bit, <<s, k>> \in Un(Asking)
        PROVE  s.scl = 1 /\ s.sda = 1 /\ <<Rise(s, v), k>> \in Un(Told1)
    <3>1. /\ s.scl = 1 /\ s.sda = 1 /\ s.mode = "send" /\ s.ack = TRUE /\ k = 0
      BY <2>1 DEF Un, Asking, Calm
    <3>2. /\ Rise(s, v) \in Slaves /\ Rise(s, v).mode = "send" /\ Rise(s, v).ack = TRUE
          /\ Rise(s, v).sda = 1 /\ Rise(s, v).scl = 1 /\ Rise(s, v).sh = v
      BY <3>1, RiseFields, RiseAnswer
    <3> QED BY <3>1, <3>2 DEF Un, Asking, Calm
  <2> HIDE DEF Told1
  <2> QED BY <2>1, RiseOut
<1>7. Fits(c, B, Put(v, 0), V) /\ Fits(c, B, Put(Keep, 0), V)
  <2>1. ASSUME NEW s \in Slaves, NEW k \in Bit, <<s, k>> \in Un(Told1)
        PROVE  s.scl = 1 /\ s.sda = 1 /\ \A t : FallsTo(c, s, t) => <<t, k>> \in Un(T)
    <3>1. /\ s.scl = 1 /\ s.sda = 1 /\ s.mode = "send" /\ s.ack = TRUE /\ k = 0
          /\ s.sh = v
      BY <2>1 DEF Un, Asking, Calm
    <3>2. ASSUME NEW t, FallsTo(c, s, t) PROVE t \in T
      <4>1. /\ t \in Slaves /\ t.ack = FALSE /\ t.n = 0 /\ t.scl = 1
            /\ v = 1 => t.mode = "deaf" /\ t.sda = 1
            /\ v # 1 => t.mode = "send"
        BY <3>1, <3>2 DEF FallsTo, Taking
      <4> QED BY <4>1 DEF Bit, Sending, Refusing, Calm
    <3> QED BY <3>1, <3>2 DEF Un
  <2> HIDE DEF Told1, T
  <2> QED BY <2>1, FallOut
<1>8. /\ Dir(Out, Out) \in Ops /\ Dir(Keep, Out) \in Ops /\ Dir(Out, Keep) \in Ops
      /\ Dir(In, Out) \in Ops /\ Dir(In, Keep) \in Ops /\ Put(Keep, 0) \in Ops
      /\ Put(Keep, 1) \in Ops /\ Put(v, 0) \in Ops /\ Put(v, 1) \in Ops
      /\ Put(v, Keep) \in Ops
  BY OpsOK DEF Bit
<1> HIDE DEF P, A, B, V, Q
<1>9. Outline(c, P, Answer(v), Q)
  BY <1>1, <1>2, <1>4, <1>5, <1>6, <1>7, <1>8, OfOps5 DEF Answer
<1>10. /\ Outline(c, P, <<Dir(Keep, Out), Dir(Out, Keep)>>, P)
       /\ Outline(c, P, <<Put(Keep, 0), Put(v, Keep), Put(Keep, 1), Put(Keep, 0)>>, V)
       /\ Outline(c, V, <<Dir(Keep, Out), Dir(In, Keep)>>, Q)
  BY <1>1, <1>2, <1>4, <1>5, <1>6, <1>7, <1>8, OfOps2, OfOps4
<1>11. Outline(c, P, <<Dir(Out, Keep), Dir(Keep, Out), Put(Keep, 0), Put(v, Keep),
                       Put(Keep, 1), Put(Keep, 0)>>, V)
  BY <1>1, <1>2, <1>5, <1>6, <1>7, <1>8, OfOps6
<1>12. v = 0 => Outline(c, P, emio_i2c_ack, Q)
  BY <1>10, OfTwo DEF emio_i2c_ack, BothOut, SdaIn, Scl, Sda
<1>13. v = 1 => Outline(c, P, emio_i2c_nack, Q)
  BY <1>10, <1>11, OfTwo DEF emio_i2c_nack, SdaIn, Scl, Sda
<1> QED BY <1>9, <1>12, <1>13 DEF P, Q

(***************************************************************************)
(* The acknowledge of a byte sent: read while scl is high, which the slave *)
(* may put off when the call allows it; a refusal leaves the slave deaf.   *)
(***************************************************************************)
Seen(c, M) == Un(Acks(c, M)) \cup (Refusing \X {1})
IsUp(S) == {z \in S : z[1].scl = 1}
Ends(M) == IF M = Takers THEN Taken(Takers, 0) ELSE Sending(0)

LEMMA AskedRises ==
  ASSUME NEW c, NEW M \in {Takers, {"send"}}, NEW s \in Acks(c, M) \cup Refusing
  PROVE  /\ Rise(s, s.sda) \in Acks(c, M) \cup Refusing
         /\ Rise(s, s.sda).scl = s.scl /\ Rise(s, s.sda).sda = s.sda
<1>1. s \in Slaves /\ s.sda \in Bit
  BY DEF Acks, Refusing, Calm, Slaves
<1>2. Rise(s, s.sda).scl = s.scl /\ Rise(s, s.sda).sda = s.sda
  BY <1>1, RiseFields
<1>3. CASE s \in Refusing
  <2>1. Rise(s, s.sda) = s
    BY <1>1, <1>3, RiseQuiet DEF Refusing
  <2> QED BY <1>2, <2>1
<1>4. CASE s \in Acks(c, M) /\ M = Takers
  <2>1. s.ack = TRUE /\ s.mode # "send"
    BY <1>4 DEF Acks, Takers
  <2>2. Rise(s, s.sda) = s
    BY <1>1, <2>1, RiseQuiet
  <2> QED BY <1>2, <2>2
<1>5. CASE s \in Acks(c, M) /\ M = {"send"}
  <2>1. /\ s.ack = TRUE /\ s.mode = "send" /\ s.sda = 0 /\ s.n = 0
        /\ s.scl = 1 \/ c.stretch = TRUE
    BY <1>5 DEF Acks
  <2>2. /\ Rise(s, s.sda) \in Slaves /\ Rise(s, s.sda).mode = "send"
        /\ Rise(s, s.sda).ack = TRUE /\ Rise(s, s.sda).sda = 0
        /\ Rise(s, s.sda).sh = 0 /\ Rise(s, s.sda).n = 0
    BY <1>1, <2>1, RiseFields, RiseAnswer
  <2> QED BY <1>2, <1>5, <2>1, <2>2 DEF Acks
<1> QED BY <1>3, <1>4, <1>5

LEMMA SeenFalls ==
  ASSUME NEW c, NEW M \in {Takers, {"send"}}, NEW s, NEW k, <<s, k>> \in Seen(c, M),
         s.scl = 1, NEW t, FallsTo(c, s, t)
  PROVE  <<t, k>> \in Told(Ends(M))
<1>1. CASE s \in Refusing /\ k = 1
  <2>1. t = s
    BY <1>1 DEF FallsTo, Refusing, Taking
  <2> QED BY <1>1, <2>1 DEF Told
<1>2. CASE s \in Acks(c, M) /\ k = 0
  <2>1. /\ s.mode \in M /\ s.ack = TRUE /\ s.n = 0 /\ s.sh = 0
    BY <1>2 DEF Acks
  <2>2. CASE M = Takers
    <3>1. /\ t \in Slaves /\ t.mode = s.mode /\ t.n = 0 /\ t.ack = FALSE /\ t.sda = 1
          /\ t.scl = 1
      BY <2>1, <2>2 DEF FallsTo, Takers, Taking
    <3> QED BY <1>2, <2>1, <2>2, <3>1 DEF Told, Un, Ends, Taken, Calm
  <2>3. CASE M = {"send"}
    <3>1. t \in Slaves /\ t.mode = "send" /\ t.ack = FALSE /\ t.n = 0 /\ t.scl = 1
      BY <2>1, <2>3 DEF FallsTo, Taking
    <3>2. M # Takers
      BY <2>3 DEF Takers
    <3> QED BY <1>2, <3>1, <3>2 DEF Told, Un, Ends, Sending
  <2> QED BY <2>2, <2>3
<1> QED BY <1>1, <1>2 DEF Seen, Un

LEMMA EndsOK ==
  ASSUME NEW M
  PROVE  \A D, L : Low(D, L, Told(Ends(M))) \in Asserts
BY TakenOK, SendingOK DEF Ends

(* From the lines a byte sent has left to those with scl low again.        *)
LEMMA RackHigh ==
  ASSUME NEW c, NEW M \in {Takers, {"send"}}, c.stretch = FALSE
  PROVE  LET A == Low({In}, Bit, Asked(c, M))
             B == High({In}, Bit, Asked(c, M))
             V == High({In}, Bit, Seen(c, M))
         IN  /\ B \in Asserts /\ V \in Asserts
             /\ Fits(c, A, Put(Keep, 1), B) /\ Fits(c, B, Check, V)
             /\ Fits(c, V, Dir(Keep, Out), V)
             /\ Fits(c, V, Put(Keep, 0), Low({In}, Bit, Told(Ends(M))))
<1>1. ASSUME NEW s \in Slaves, NEW k \in Bit, <<s, k>> \in Asked(c, M)
      PROVE  /\ s.scl = 1 /\ <<Rise(s, s.sda), k>> \in Asked(c, M)
             /\ <<s, s.sda>> \in Seen(c, M)
  <2>1. s \in Acks(c, M) \cup Refusing /\ k = 0
    BY <1>1 DEF Asked, Un
  <2>2. s.scl = 1 /\ (s \in Acks(c, M) => s.sda = 0) /\ (s \in Refusing => s.sda = 1)
    BY <2>1 DEF Acks, Refusing, Calm
  <2> QED BY <2>1, <2>2, AskedRises DEF Asked, Un, Seen
<1>2. ASSUME NEW s \in Slaves, NEW k \in Bit, <<s, k>> \in Seen(c, M)
      PROVE  s.scl = 1 /\ \A t : FallsTo(c, s, t) => <<t, k>> \in Told(Ends(M))
  <2>1. s.scl = 1
    BY <1>2 DEF Seen, Un, Acks, Refusing, Calm
  <2> QED BY <1>2, <2>1, SeenFalls
<1>3. High({In}, Bit, Asked(c, M)) \in Asserts /\ High({In}, Bit, Seen(c, M)) \in Asserts
  <2>1. Out \notin {In}
    BY DEF In, Out
  <2> QED BY <1>1, <1>2, <2>1, HighOK
<1>4. /\ Fits(c, Low({In}, Bit, Asked(c, M)), Put(Keep, 1), High({In}, Bit, Asked(c, M)))
      /\ Fits(c, High({In}, Bit, Asked(c, M)), Check, High({In}, Bit, Seen(c, M)))
  BY <1>1, RiseIn, CheckHigh
<1>5. Fits(c, High({In}, Bit, Seen(c, M)), Dir(Keep, Out), High({In}, Bit, Seen(c, M)))
  BY HighDir DEF Ways
<1>6. Fits(c, High({In}, Bit, Seen(c, M)), Put(Keep, 0), Low({In}, Bit, Told(Ends(M))))
  BY <1>2, FallIn
<1> QED BY <1>3, <1>4, <1>5, <1>6

LEMMA RackLoose ==
  ASSUME NEW c, NEW M \in {Takers, {"send"}}
  PROVE  LET A == Low({In}, Bit, Asked(c, M))
             B == Loose(Asked(c, M))
             V == Loose(IsUp(Asked(c, M)))
             W == Loose(IsUp(Seen(c, M)))
         IN  /\ B \in Asserts /\ V \in Asserts /\ W \in Asserts
             /\ Fits(c, A, Dir(In, In), B) /\ Fits(c, B, Wait, V) /\ Fits(c, V, Check, W)
             /\ Fits(c, W, Dir(In, Out), Low({In}, Bit, Told(Ends(M))))
<1>1. ASSUME NEW s \in Slaves, NEW k \in Bit, <<s, k>> \in Asked(c, M)
      PROVE  /\ <<Rise(s, s.sda), k>> \in Asked(c, M)
             /\ s.scl = 0 => <<Rise(LetGo(s), s.sda), k>> \in Asked(c, M)
             /\ <<s, s.sda>> \in Seen(c, M)
  <2>1. s \in Acks(c, M) \cup Refusing /\ k = 0
    BY <1>1 DEF Asked, Un
  <2>2. (s \in Acks(c, M) => s.sda = 0) /\ (s \in Refusing => s.sda = 1 /\ s.scl = 1)
    BY <2>1 DEF Acks, Refusing, Calm
  <2>3. s.scl = 0 => LetGo(s) \in Acks(c, M) \cup Refusing /\ LetGo(s).sda = s.sda
    BY <2>1, <2>2, AcksLetGo, LetGoFields
  <2>4. s.scl = 0 => Rise(LetGo(s), s.sda) \in Acks(c, M) \cup Refusing
    <3> SUFFICES ASSUME s.scl = 0
                 PROVE  Rise(LetGo(s), s.sda) \in Acks(c, M) \cup Refusing
      OBVIOUS
    <3>1. Rise(LetGo(s), LetGo(s).sda) \in Acks(c, M) \cup Refusing
      BY <2>3, AskedRises
    <3> QED BY <2>3, <3>1
  <2> QED BY <2>1, <2>2, <2>4, AskedRises DEF Asked, Un, Seen
<1>2. ASSUME NEW s \in Slaves, NEW k \in Bit, <<s, k>> \in IsUp(Seen(c, M))
      PROVE  s.scl = 1 /\ \A t : FallsTo(c, s, t) => <<t, k>> \in Told(Ends(M))
  <2>1. s.scl = 1 /\ <<s, k>> \in Seen(c, M)
    BY <1>2 DEF IsUp
  <2> QED BY <2>1, SeenFalls
<1>3. ASSUME NEW s \in Slaves, NEW k \in Bit, <<s, k>> \in IsUp(Asked(c, M))
      PROVE  s.scl = 1 /\ <<s, s.sda>> \in IsUp(Seen(c, M))
  BY <1>1, <1>3 DEF IsUp
<1>4. /\ Loose(Asked(c, M)) \in Asserts /\ Loose(IsUp(Asked(c, M))) \in Asserts
      /\ Loose(IsUp(Seen(c, M))) \in Asserts
  <2>1. \A s \in Slaves, k \in Bit : <<s, k>> \in IsUp(Asked(c, M)) => s.scl = 1
    BY DEF IsUp
  <2>2. \A s \in Slaves, k \in Bit : <<s, k>> \in IsUp(Seen(c, M)) => s.scl = 1
    BY DEF IsUp
  <2>3. Loose(Asked(c, M)) \in Asserts
    BY <1>1, LooseOK
  <2>4. Loose(IsUp(Asked(c, M))) \in Asserts
    BY <2>1, LooseOK
  <2>5. Loose(IsUp(Seen(c, M))) \in Asserts
    BY <2>2, LooseOK
  <2> QED BY <2>3, <2>4, <2>5
<1>5. Fits(c, Low({In}, Bit, Asked(c, M)), Dir(In, In), Loose(Asked(c, M)))
  BY <1>1, LooseFits
<1>6. Fits(c, Loose(Asked(c, M)), Wait, Loose(IsUp(Asked(c, M))))
  <2>1. \A s \in Slaves, k \in Bit : <<s, k>> \in Asked(c, M) /\ s.scl = 1
                                     => <<s, k>> \in IsUp(Asked(c, M))
    BY DEF IsUp
  <2> QED BY <2>1, WaitFits
<1>7. Fits(c, Loose(IsUp(Asked(c, M))), Check, Loose(IsUp(Seen(c, M))))
  BY <1>3, CheckLoose
<1>8. Fits(c, Loose(IsUp(Seen(c, M))), Dir(In, Out), Low({In}, Bit, Told(Ends(M))))
  BY <1>2, LooseEnds
<1> QED BY <1>4, <1>5, <1>6, <1>7, <1>8

LEMMA RackOutline ==
  ASSUME NEW c, NEW M \in {Takers, {"send"}}, c.stretch \in BOOLEAN
  PROVE  LET P == Low({In}, Bit, Asked(c, M))
             Q == Low({Out}, Bit, Told(Ends(M)))
         IN  /\ Outline(c, P, i2c_recv_ack(c.stretch), Q)
             /\ c.stretch = FALSE => Outline(c, P, emio_i2c_recv_ack(c.stretch), Q)
<1> DEFINE P == Low({In}, Bit, Asked(c, M))
           B == High({In}, Bit, Asked(c, M))
           V == High({In}, Bit, Seen(c, M))
           B2 == Loose(Asked(c, M))
           V2 == Loose(IsUp(Asked(c, M)))
           W2 == Loose(IsUp(Seen(c, M)))
           E == Low({In}, Bit, Told(Ends(M)))
           F == Low({Out}, Bit, Told(Ends(M)))
<1>1. /\ P \in Asserts /\ E \in Asserts /\ F \in Asserts
  BY AskedOK, EndsOK
<1>2. /\ Fits(c, P, Dir(In, Out), P) /\ Fits(c, P, Dir(In, Keep), P)
      /\ Fits(c, P, Dir(Keep, Out), P)
      /\ Fits(c, E, Dir(Out, Out), F) /\ Fits(c, E, Dir(Out, Keep), F)
  BY LowDir DEF Or, In, Out, Keep
<1>3. Fits(c, P, Put(Keep, 0), P) /\ Fits(c, E, Put(Keep, 0), E)
  BY LowPut DEF Keep, Bit
<1>4. /\ Fits(c, E, Put(1, 0), E) /\ Fits(c, F, Put(1, Keep), F)
      /\ Fits(c, F, Put(1, 0), F)
  <2>1. /\ Fits(c, E, Put(1, 0), Low({In}, {1}, Told(Ends(M))))
        /\ Fits(c, F, Put(1, 0), Low({Out}, {1}, Told(Ends(M))))
        /\ Fits(c, F, Put(1, Keep), Low({Out}, {1}, Told(Ends(M))))
    BY LowPut DEF Keep
  <2>2. /\ Low({In}, {1}, Told(Ends(M))) \subseteq E
        /\ Low({Out}, {1}, Told(Ends(M))) \subseteq F
    BY DEF Low, Bit
  <2> HIDE DEF E, F
  <2> QED BY <2>1, <2>2, FitsMore
<1>5. Fits(c, F, Put(Keep, 0), F)
  BY LowPut DEF Keep, Bit
<1>6. c.stretch = FALSE =>
        /\ B \in Asserts /\ V \in Asserts
        /\ Fits(c, P, Put(Keep, 1), B) /\ Fits(c, B, Check, V)
        /\ Fits(c, V, Dir(Keep, Out), V) /\ Fits(c, V, Put(Keep, 0), E)
  BY RackHigh
<1>7. /\ B2 \in Asserts /\ V2 \in Asserts /\ W2 \in Asserts
      /\ Fits(c, P, Dir(In, In), B2) /\ Fits(c, B2, Wait, V2) /\ Fits(c, V2, Check, W2)
      /\ Fits(c, W2, Dir(In, Out), E)
  BY RackLoose
<1>8. /\ Dir(Out, Out) \in Ops /\ Dir(Keep, Out) \in Ops /\ Dir(Out, Keep) \in Ops
      /\ Dir(In, Out) \in Ops /\ Dir(In, Keep) \in Ops /\ Dir(In, In) \in Ops
      /\ Put(Keep, 0) \in Ops /\ Put(Keep, 1) \in Ops /\ Put(1, 0) \in Ops
      /\ Put(1, Keep) \in Ops /\ Check \in Ops /\ Wait \in Ops
  BY OpsOK
<1> HIDE DEF P, B, V, B2, V2, W2, E, F
<1>9. Outline(c, P, <<Dir(In, Out), Put(Keep, 0)>>, P)
  BY <1>1, <1>2, <1>3, <1>8, OfOps2
<1>10. CASE c.stretch = TRUE
  <2>1. /\ Outline(c, P, <<Dir(In, In), Wait, Check, Dir(In, Out)>>, E)
        /\ Outline(c, E, <<Put(Keep, 0)>>, E)
        /\ Outline(c, E, <<Put(1, 0)>>, E)
        /\ Outline(c, E, <<Dir(Out, Out), Put(1, 0)>>, F)
    BY <1>1, <1>2, <1>3, <1>4, <1>7, <1>8, OfOne, OfOps2, OfOps4
  <2>2. i2c_recv_ack(c.stretch) =
          <<Dir(In, Out), Put(Keep, 0)>> \o <<Dir(In, In), Wait, Check, Dir(In, Out)>>
          \o <<Put(Keep, 0)>> \o <<Put(1, 0)>> \o <<Dir(Out, Out), Put(1, 0)>>
    BY <1>10 DEF i2c_recv_ack
  <2>3. Outline(c, P, i2c_recv_ack(c.stretch), F)
    BY <1>9, <2>1, <2>2, OfTwo
  <2> QED BY <1>10, <2>3 DEF P, F
<1>11. CASE c.stretch = FALSE
  <2>1. /\ Outline(c, P, <<Put(Keep, 1), Check>>, V)
        /\ Outline(c, V, <<Put(Keep, 0)>>, E)
        /\ Outline(c, E, <<>>, E)
        /\ Outline(c, E, <<Dir(Out, Out), Put(1, 0)>>, F)
    BY <1>1, <1>2, <1>4, <1>6, <1>8, <1>11, OfOne, OfOps2, OfNone
  <2>2. i2c_recv_ack(c.stretch) =
          <<Dir(In, Out), Put(Keep, 0)>> \o <<Put(Keep, 1), Check>>
          \o <<Put(Keep, 0)>> \o <<>> \o <<Dir(Out, Out), Put(1, 0)>>
    BY <1>11 DEF i2c_recv_ack
  <2>3. Outline(c, P, i2c_recv_ack(c.stretch), F)
    BY <1>9, <2>1, <2>2, OfTwo
  <2>4. /\ Outline(c, P, <<Dir(In, Keep), Dir(Keep, Out), Put(Keep, 0)>>, P)
        /\ Outline(c, P, <<Put(Keep, 1)>>, B)
        /\ Outline(c, B, <<Check, Dir(Keep, Out), Put(Keep, 0)>>, E)
    BY <1>1, <1>2, <1>3, <1>6, <1>8, <1>11, OfOne, OfOps3
  <2>5. Outline(c, E, <<Dir(Out, Keep), Put(1, Keep), Put(Keep, 0)>>, F)
    BY <1>1, <1>2, <1>4, <1>5, <1>8, OfOps3
  <2>6. emio_i2c_recv_ack(c.stretch) =
          <<Dir(In, Keep), Dir(Keep, Out), Put(Keep, 0)>> \o <<Put(Keep, 1)>>
          \o <<Check, Dir(Keep, Out), Put(Keep, 0)>> \o <<>>
          \o <<Dir(Out, Keep), Put(1, Keep), Put(Keep, 0)>>
    BY <1>11 DEF emio_i2c_recv_ack, Scl, Sda
  <2>7. Outline(c, P, emio_i2c_recv_ack(c.stretch), F)
    BY <2>1, <2>4, <2>5, <2>6, OfTwo
  <2> QED BY <2>3, <2>7 DEF P, F
<1> QED BY <1>10, <1>11

(***************************************************************************)
(* What a routine may be begun in, and what it leaves.                     *)
(***************************************************************************)
Leads(p, x, q) ==
  \/ x.r = "start" /\ p \in {"free", "taking"} /\ q = "addr"
  \/ x.r = "stop" /\ p \in {"taking", "closed"} /\ q = "free"
  \/ x.r = "send" /\ \/ p = "addr" /\ x.v % 2 = 0 /\ q = "askT"
                     \/ p = "addr" /\ x.v % 2 = 1 /\ q = "askS"
                     \/ p = "taking" /\ q = "askT"
  \/ x.r = "rack" /\ \/ p = "askT" /\ q = "taking"
                     \/ p = "askS" /\ q = "sending"
  \/ x.r = "recv" /\ p = "sending" /\ q = "sent"
  \/ x.r = "ack" /\ p = "sent" /\ q = "sending"
  \/ x.r = "nack" /\ p = "sent" /\ q = "closed"

(* emio_i2c.c's calls never allow clock stretching.                        *)
Drives(c) == /\ c.drv \in {"xgpio", "emio"} /\ c.stretch \in BOOLEAN
             /\ c.drv = "emio" => c.stretch = FALSE

LEMMA ReadyLines ==
  ASSUME NEW c
  PROVE  /\ Ready(c, "free") = FreeLines
         /\ Ready(c, "addr") \subseteq Low({Out}, Bit, Un(Taken({"addr"}, 0)))
         /\ Ready(c, "taking") \subseteq Low({Out}, Bit, Un(Taken(Takers, 0)))
         /\ Ready(c, "askT") \subseteq Low({In}, Bit, Asked(c, Takers))
         /\ Ready(c, "askS") \subseteq Low({In}, Bit, Asked(c, {"send"}))
         /\ Ready(c, "sending") \subseteq Low(Ways, Bit, Un(Sending(0)))
         /\ Ready(c, "sent") \subseteq Low({Out}, Bit, Un(Asking))
         /\ Ready(c, "closed") \subseteq Low(Ways, Bit, Un(Refusing))
<1>1. Ready(c, "free") = FreeLines
  BY DEF Ready, Phase, FreeLines
<1>2. Ready(c, "addr") \subseteq Low({Out}, Bit, Un(Taken({"addr"}, 0)))
  BY DEF Ready, Phase, Low, Bit
<1>3. ASSUME NEW S, NEW s, NEW k, <<s, k>> \in Told(S), k = 0 PROVE <<s, k>> \in Un(S)
  BY <1>3 DEF Told, Un
<1>4. Ready(c, "taking") \subseteq Low({Out}, Bit, Un(Taken(Takers, 0)))
  BY <1>3 DEF Ready, Phase, Low
<1>5. Ready(c, "sending") \subseteq Low(Ways, Bit, Un(Sending(0)))
  BY <1>3 DEF Ready, Phase, Low
<1>6. /\ Ready(c, "askT") \subseteq Low({In}, Bit, Asked(c, Takers))
      /\ Ready(c, "askS") \subseteq Low({In}, Bit, Asked(c, {"send"}))
  BY DEF Ready, Phase
<1>7. /\ Ready(c, "sent") \subseteq Low({Out}, Bit, Un(Asking))
      /\ Ready(c, "closed") \subseteq Low(Ways, Bit, Un(Refusing))
  BY DEF Ready, Phase
<1> QED BY <1>1, <1>2, <1>4, <1>5, <1>6, <1>7

(* A bus in use is one to stop, and, while the slave takes bytes, one to   *)
(* start a second time.                                                    *)
LEMMA ReadyToEnd ==
  ASSUME NEW c
  PROVE  /\ Ready(c, "taking") \subseteq OutLines
         /\ Ready(c, "taking") \subseteq Low(Ways, Bit, Un(Calm))
         /\ Ready(c, "closed") \subseteq Low(Ways, Bit, Un(Calm))
<1>1. Low({Out}, Bit, Un(Taken(Takers, 0))) \subseteq OutLines
  BY SetsOfSlaves DEF Low, Un, OutLines
<1>2. /\ Un(Taken(Takers, 0)) \subseteq Un(Calm) /\ Un(Refusing) \subseteq Un(Calm)
  BY SetsOfSlaves DEF Un
<1>3. /\ Low({Out}, Bit, Un(Taken(Takers, 0))) \subseteq Low(Ways, Bit, Un(Calm))
      /\ Low(Ways, Bit, Un(Refusing)) \subseteq Low(Ways, Bit, Un(Calm))
  BY <1>2 DEF Low, Ways
<1> QED BY <1>1, <1>3, ReadyLines

LEMMA PhaseFields ==
  ASSUME NEW c
  PROVE  /\ Phase(c, "free") = FreeLines
         /\ Phase(c, "askT") = Low({In}, Bit, Asked(c, Takers))
         /\ Phase(c, "askS") = Low({In}, Bit, Asked(c, {"send"}))
         /\ Phase(c, "taking") = Low({Out}, Bit, Told(Ends(Takers)))
         /\ Low({Out}, Bit, Told(Ends({"send"}))) \subseteq Phase(c, "sending")
         /\ Low(Ways, Bit, Un(Sending(0))) \subseteq Phase(c, "sending")
         /\ Phase(c, "closed") = Low(Ways, Bit, Un(Refusing))
<1>1. Ends(Takers) = Taken(Takers, 0) /\ Ends({"send"}) = Sending(0)
  BY DEF Ends, Takers
<1>2. Low({Out}, Bit, Told(Sending(0))) \subseteq Low(Ways, Bit, Told(Sending(0)))
  BY DEF Low, Ways
<1>3. Low(Ways, Bit, Un(Sending(0))) \subseteq Low(Ways, Bit, Told(Sending(0)))
  BY DEF Low, Told
<1> QED BY <1>1, <1>2, <1>3 DEF Phase

(* A routine run where it may be leaves what it should, and fights with    *)
(* the slave over nothing but sda, while scl is low.                       *)
LEMMA RoutineOutline ==
  ASSUME NEW c, Drives(c), NEW p, NEW q, NEW x \in Routines, Leads(p, x, q)
  PROVE  Outline(c, Ready(c, p), Routine(c, x), Phase(c, q))
<1>0. c.drv = "xgpio" \/ (c.drv = "emio" /\ c.stretch = FALSE)
  BY DEF Drives
<1>1. CASE x.r = "start"
  <2>1. p \in {"free", "taking"} /\ q = "addr"
    BY <1>1 DEF Leads
  <2>2. Routine(c, x) \in {i2c_start, emio_i2c_start}
    BY <1>0, <1>1 DEF Routine
  <2>3. /\ Outline(c, FreeLines, Routine(c, x), Phase(c, "addr"))
        /\ Outline(c, OutLines, Routine(c, x), Phase(c, "addr"))
    BY <2>2, StartOutline
  <2>4. Ready(c, p) \subseteq FreeLines \/ Ready(c, p) \subseteq OutLines
    BY <2>1, ReadyLines, ReadyToEnd
  <2> QED BY <2>1, <2>3, <2>4, OfLess
<1>2. CASE x.r = "stop"
  <2>1. p \in {"taking", "closed"} /\ q = "free"
    BY <1>2 DEF Leads
  <2>2. Routine(c, x) \in {i2c_stop, emio_i2c_stop}
    BY <1>0, <1>2 DEF Routine
  <2>3. Outline(c, Low(Ways, Bit, Un(Calm)), Routine(c, x), FreeLines)
    BY <2>2, StopOutline
  <2>4. Ready(c, p) \subseteq Low(Ways, Bit, Un(Calm)) /\ Phase(c, q) = FreeLines
    BY <2>1, ReadyToEnd, PhaseFields
  <2> QED BY <2>3, <2>4, OfLess
<1>3. CASE x.r = "send"
  <2>1. x.v \in Nat
    BY DEF Routines
  <2>2. Routine(c, x) \in {i2c_send_byte(x.v), emio_i2c_send_byte(x.v)}
    BY <1>0, <1>3 DEF Routine
  <2>3. PICK M \in {{"addr"}, Takers} :
          /\ Ready(c, p) \subseteq Low({Out}, Bit, Un(Taken(M, 0)))
          /\ Phase(c, q) = Low({In}, Bit, Asked(c, Answers(M, x.v)))
    <3>1. CASE p = "addr" /\ x.v % 2 = 0 /\ q = "askT"
      BY <3>1, ReadyLines, PhaseFields DEF Answers
    <3>2. CASE p = "addr" /\ x.v % 2 = 1 /\ q = "askS"
      <4>1. {"addr"} # Takers
        BY DEF Takers
      <4>2. Answers({"addr"}, x.v) = {"send"}
        BY <3>2, <4>1 DEF Answers
      <4> QED BY <3>2, <4>2, ReadyLines, PhaseFields
    <3>3. CASE p = "taking" /\ q = "askT"
      BY <3>3, ReadyLines, PhaseFields DEF Answers
    <3> QED BY <1>3, <3>1, <3>2, <3>3 DEF Leads
  <2>4. Outline(c, Low({Out}, Bit, Un(Taken(M, 0))), Routine(c, x),
                Low({In}, Bit, Asked(c, Answers(M, x.v))))
    BY <2>1, <2>2, SendOutline
  <2> QED BY <2>3, <2>4, OfLess
<1>4. CASE x.r = "rack"
  <2>1. PICK M \in {Takers, {"send"}} :
          /\ Ready(c, p) \subseteq Low({In}, Bit, Asked(c, M))
          /\ Low({Out}, Bit, Told(Ends(M))) \subseteq Phase(c, q)
    <3>1. CASE p = "askT" /\ q = "taking"
      BY <3>1, ReadyLines, PhaseFields
    <3>2. CASE p = "askS" /\ q = "sending"
      BY <3>2, ReadyLines, PhaseFields
    <3> QED BY <1>4, <3>1, <3>2 DEF Leads
  <2>2. Outline(c, Low({In}, Bit, Asked(c, M)), Routine(c, x),
                Low({Out}, Bit, Told(Ends(M))))
    BY <1>0, <1>4, RackOutline DEF Routine, Drives
  <2> QED BY <2>1, <2>2, OfLess
<1>5. CASE x.r = "recv"
  <2>1. p = "sending" /\ q = "sent"
    BY <1>5 DEF Leads
  <2>2. Routine(c, x) \in {i2c_recv_byte, emio_i2c_recv_byte}
    BY <1>0, <1>5 DEF Routine
  <2>3. Outline(c, Low(Ways, Bit, Un(Sending(0))), Routine(c, x), Phase(c, "sent"))
    BY <2>2, RecvOutline
  <2>4. Ready(c, p) \subseteq Low(Ways, Bit, Un(Sending(0)))
    BY <2>1, ReadyLines
  <2> QED BY <2>1, <2>3, <2>4, OfLess
<1>6. CASE x.r = "ack"
  <2>1. p = "sent" /\ q = "sending"
    BY <1>6 DEF Leads
  <2>2. Routine(c, x) \in {Answer(0), emio_i2c_ack}
    BY <1>0, <1>6 DEF Routine, i2c_ack
  <2>3. Outline(c, Low({Out}, Bit, Un(Asking)), Routine(c, x),
                Low(Ways, Bit, Un(Sending(0))))
    BY <2>2, AnswerOutline DEF Bit
  <2>4. /\ Ready(c, p) \subseteq Low({Out}, Bit, Un(Asking))
        /\ Low(Ways, Bit, Un(Sending(0))) \subseteq Phase(c, q)
    BY <2>1, ReadyLines, PhaseFields
  <2> QED BY <2>3, <2>4, OfLess
<1>7. CASE x.r = "nack"
  <2>1. p = "sent" /\ q = "closed"
    BY <1>7 DEF Leads
  <2>2. Routine(c, x) \in {Answer(1), emio_i2c_nack}
    BY <1>0, <1>7 DEF Routine, i2c_nack
  <2>3. Outline(c, Low({Out}, Bit, Un(Asking)), Routine(c, x),
                Low(Ways, Bit, Un(Refusing)))
    <3>1. 1 # 0 /\ 1 \in Bit
      BY DEF Bit
    <3> QED BY <2>2, <3>1, AnswerOutline
  <2>4. /\ Ready(c, p) \subseteq Low({Out}, Bit, Un(Asking))
        /\ Low(Ways, Bit, Un(Refusing)) = Phase(c, q)
    BY <2>1, ReadyLines, PhaseFields
  <2> QED BY <2>3, <2>4, OfLess
<1> QED BY <1>1, <1>2, <1>3, <1>4, <1>5, <1>6, <1>7 DEF Routines, Names

LEMMA RoutineOps ==
  ASSUME NEW c, Drives(c), NEW x \in Routines
  PROVE  Routine(c, x) \in Seq(Ops)
<1>1. x.v % 2 \in {0, 1}
  BY DEF Routines
<1>2. \E p, q : Leads(p, x, q)
  BY <1>1 DEF Leads, Routines, Names
<1> QED BY <1>2, RoutineOutline DEF Outline

(***************************************************************************)
(* Transfers: the phase before each routine, and after the last.           *)
(***************************************************************************)
Chain(p, t, q) ==
  /\ t \in Seq(Routines)
  /\ \E h \in [0 .. Len(t) -> Phases] :
       /\ h[0] = p /\ h[Len(t)] = q
       /\ \A k \in 1 .. Len(t) : Leads(h[k - 1], t[k], h[k])

LEMMA ChainNone ==
  ASSUME NEW p \in Phases
  PROVE  Chain(p, <<>>, p)
<1> DEFINE h == [k \in 0 .. 0 |-> p]
<1>1. h \in [0 .. 0 -> Phases] /\ h[0] = p
  OBVIOUS
<1>2. Len(<<>>) = 0 /\ 1 .. 0 = {} /\ <<>> \in Seq(Routines)
  OBVIOUS
<1> HIDE DEF h
<1> QED BY <1>1, <1>2 DEF Chain

LEMMA ChainEnds ==
  ASSUME NEW p, NEW q, Chain(p, <<>>, q)
  PROVE  p = q
BY DEF Chain

LEMMA ChainOne ==
  ASSUME NEW p \in Phases, NEW q \in Phases, NEW x \in Routines, Leads(p, x, q)
  PROVE  Chain(p, <<x>>, q)
<1> DEFINE h == [k \in 0 .. 1 |-> IF k = 0 THEN p ELSE q]
           t == <<x>>
<1>1. h \in [0 .. 1 -> Phases] /\ h[0] = p /\ h[1] = q
  OBVIOUS
<1>2. t \in Seq(Routines) /\ Len(t) = 1 /\ t[1] = x
  OBVIOUS
<1>3. ASSUME NEW k \in 1 .. Len(t) PROVE Leads(h[k - 1], t[k], h[k])
  <2>1. k = 1 /\ k - 1 = 0
    BY <1>2
  <2> QED BY <1>1, <1>2, <2>1
<1> HIDE DEF h, t
<1>4. Chain(p, t, q)
  BY <1>1, <1>2, <1>3 DEF Chain
<1> QED BY <1>4 DEF t

LEMMA ChainTwo ==
  ASSUME NEW p, NEW q, NEW r, NEW s, NEW t, Chain(p, s, q), Chain(q, t, r)
  PROVE  Chain(p, s \o t, r)
<1> DEFINE m == Len(s)
           n == Len(t)
           u == s \o t
<1>0. s \in Seq(Routines) /\ t \in Seq(Routines)
  BY DEF Chain
<1>1. PICK a \in [0 .. m -> Phases] :
        /\ a[0] = p /\ a[m] = q
        /\ \A k \in 1 .. m : Leads(a[k - 1], s[k], a[k])
  BY DEF Chain
<1>2. PICK b \in [0 .. n -> Phases] :
        /\ b[0] = q /\ b[n] = r
        /\ \A k \in 1 .. n : Leads(b[k - 1], t[k], b[k])
  BY DEF Chain
<1>3. /\ m \in Nat /\ n \in Nat /\ Len(u) = m + n /\ u \in Seq(Routines)
      /\ \A k \in 1 .. m : u[k] = s[k]
      /\ \A k \in m + 1 .. m + n : u[k] = t[k - m]
  BY <1>0, ConcatProperties
<1> DEFINE d == [k \in 0 .. m + n |-> IF k <= m THEN a[k] ELSE b[k - m]]
<1>4. d \in [0 .. m + n -> Phases]
  BY <1>3
<1>5. d[0] = p
  BY <1>1, <1>3
<1>6. d[m + n] = r
  <2>1. CASE n = 0
    BY <2>1, <1>1, <1>2, <1>3
  <2>2. CASE n # 0
    BY <2>2, <1>2, <1>3
  <2> QED BY <2>1, <2>2
<1>7. ASSUME NEW k \in 1 .. m + n PROVE Leads(d[k - 1], u[k], d[k])
  <2>1. CASE k <= m
    <3>1. k \in 1 .. m /\ k - 1 <= m /\ k - 1 \in 0 .. m + n /\ k \in 0 .. m + n
      BY <2>1, <1>3
    <3>2. d[k] = a[k] /\ d[k - 1] = a[k - 1] /\ u[k] = s[k]
      BY <3>1, <1>3
    <3> HIDE DEF d, u
    <3> QED BY <3>1, <3>2, <1>1
  <2>2. CASE k > m
    <3>1. /\ k - m \in 1 .. n /\ ~(k <= m) /\ k \in 0 .. m + n /\ k - 1 \in 0 .. m + n
          /\ k \in m + 1 .. m + n /\ (k - 1) - m = (k - m) - 1
          /\ k - 1 <= m => k - 1 = m /\ (k - m) - 1 = 0
      BY <2>2, <1>3
    <3>2. d[k] = b[k - m] /\ d[k - 1] = b[(k - m) - 1] /\ u[k] = t[k - m]
      BY <3>1, <1>1, <1>2, <1>3
    <3> HIDE DEF d, u
    <3> QED BY <3>1, <3>2, <1>2
  <2> QED BY <2>1, <2>2, <1>3
<1> HIDE DEF d, u
<1>8. Chain(p, u, r)
  BY <1>3, <1>4, <1>5, <1>6, <1>7 DEF Chain
<1> QED BY <1>8 DEF u

LEMMA ChainTail ==
  ASSUME NEW p, NEW q, NEW t, t # <<>>, Chain(p, t, q)
  PROVE  /\ Head(t) \in Routines /\ Tail(t) \in Seq(Routines)
         /\ \E r \in Phases : Leads(p, Head(t), r) /\ Chain(r, Tail(t), q)
<1> DEFINE n == Len(t)
           w == Tail(t)
<1>0. t \in Seq(Routines)
  BY DEF Chain
<1>1. PICK h \in [0 .. n -> Phases] :
        /\ h[0] = p /\ h[n] = q
        /\ \A k \in 1 .. n : Leads(h[k - 1], t[k], h[k])
  BY DEF Chain
<1>2. /\ n \in Nat /\ n >= 1 /\ Head(t) = t[1] /\ t[1] \in Routines /\ w \in Seq(Routines)
      /\ Len(w) = n - 1 /\ \A k \in 1 .. n - 1 : w[k] = t[k + 1]
  BY <1>0, HeadTailProperties
<1> DEFINE g == [k \in 0 .. n - 1 |-> h[k + 1]]
<1>3. g \in [0 .. n - 1 -> Phases] /\ g[0] = h[1] /\ g[n - 1] = h[n] /\ h[1] \in Phases
  BY <1>2
<1>4. Leads(p, Head(t), h[1])
  <2>1. 1 \in 1 .. n /\ 1 - 1 = 0
    BY <1>2
  <2> QED BY <1>1, <1>2, <2>1
<1>5. ASSUME NEW k \in 1 .. n - 1 PROVE Leads(g[k - 1], w[k], g[k])
  <2>1. /\ k + 1 \in 1 .. n /\ (k + 1) - 1 = k /\ (k - 1) + 1 = k
        /\ k - 1 \in 0 .. n - 1 /\ k \in 0 .. n - 1
    BY <1>2
  <2>2. g[k - 1] = h[k] /\ g[k] = h[k + 1] /\ w[k] = t[k + 1]
    BY <1>2, <2>1
  <2> HIDE DEF g, w
  <2> QED BY <1>1, <2>1, <2>2
<1> HIDE DEF g, w
<1>6. Chain(h[1], w, q)
  BY <1>1, <1>2, <1>3, <1>5 DEF Chain
<1> QED BY <1>2, <1>3, <1>4, <1>6 DEF w

LEMMA BytesAreNat ==
  ASSUME NEW s \in Seq(Byte), NEW x \in Nat
  PROVE  /\ <<x>> \o s \in Seq(Nat) /\ Len(<<x>> \o s) >= 1 /\ (<<x>> \o s)[1] = x
         /\ \A v \in Byte : /\ (<<x>> \o s) \o <<v>> \in Seq(Nat)
                            /\ Len((<<x>> \o s) \o <<v>>) >= 1
                            /\ ((<<x>> \o s) \o <<v>>)[1] = x
<1> DEFINE u == <<x>>
           t == u \o s
<1>1. Byte \subseteq Nat
  BY DEF Byte
<1>2. s \in Seq(Nat) /\ Len(s) \in Nat
  BY <1>1, SeqMonotonic, LenProperties
<1>3. u \in Seq(Nat) /\ Len(u) = 1 /\ u[1] = x
  OBVIOUS
<1> HIDE DEF u
<1>4. t \in Seq(Nat) /\ Len(t) = 1 + Len(s) /\ t[1] = x
  <2>1. u \o s \in Seq(Nat) /\ Len(u \o s) = Len(u) + Len(s)
    BY <1>2, <1>3, ConcatProperties
  <2>2. \A i \in 1 .. Len(u) + Len(s) :
          (u \o s)[i] = IF i <= Len(u) THEN u[i] ELSE s[i - Len(u)]
    BY <1>2, <1>3, ConcatProperties
  <2>3. 1 \in 1 .. Len(u) + Len(s) /\ 1 <= Len(u)
    BY <1>2, <1>3
  <2>4. (u \o s)[1] = u[1]
    BY <2>2, <2>3
  <2> QED BY <1>3, <2>1, <2>4
<1> HIDE DEF t
<1>5. ASSUME NEW v \in Byte
      PROVE  t \o <<v>> \in Seq(Nat) /\ Len(t \o <<v>>) >= 1 /\ (t \o <<v>>)[1] = x
  <2> DEFINE w == <<v>>
  <2>1. w \in Seq(Nat) /\ Len(w) = 1
    BY <1>1
  <2>2. 1 \in 1 .. Len(t) + 1 /\ 1 <= Len(t) /\ Len(t) \in Nat
    BY <1>2, <1>4
  <2> HIDE DEF w
  <2>3. t \o w \in Seq(Nat) /\ Len(t \o w) = Len(t) + 1 /\ (t \o w)[1] = x
    <3>1. t \o w \in Seq(Nat) /\ Len(t \o w) = Len(t) + Len(w)
      BY <1>4, <2>1, ConcatProperties
    <3>2. \A i \in 1 .. Len(t) + Len(w) :
            (t \o w)[i] = IF i <= Len(t) THEN t[i] ELSE w[i - Len(t)]
      BY <1>4, <2>1, ConcatProperties
    <3>3. (t \o w)[1] = t[1]
      BY <2>1, <2>2, <3>2
    <3> QED BY <1>4, <2>1, <3>1, <3>3
  <2> QED BY <2>2, <2>3 DEF w
<1>6. Len(t) >= 1
  BY <1>2, <1>4
<1> QED BY <1>4, <1>5, <1>6 DEF t, u

LEMMA RoutineRecords ==
  /\ \A v \in Nat : /\ R("send", v) \in Routines /\ R("send", v).r = "send"
                    /\ R("send", v).v = v
  /\ \A r \in Names : R(r, 0) \in Routines /\ R(r, 0).r = r
BY DEF R, Routines, Names

(* The bytes of a transfer, its first the slave's address: to be written   *)
(* to, or, alone, to be read from.                                         *)
LEMMA SentChain ==
  ASSUME NEW s \in Seq(Nat), Len(s) >= 1, s[1] % 2 = 0 \/ Len(s) = 1
  PROVE  Chain("addr", Sent(s), IF s[1] % 2 = 0 THEN "taking" ELSE "sending")
<1> DEFINE n == Len(s)
           asked == IF s[1] % 2 = 0 THEN "askT" ELSE "askS"
           told == IF s[1] % 2 = 0 THEN "taking" ELSE "sending"
           h == [k \in 0 .. 2 * n |-> IF k = 0 THEN "addr"
                                      ELSE IF k % 2 = 1 THEN asked ELSE told]
           t == Sent(s)
<1>1. /\ n \in Nat /\ n >= 1 /\ \A k \in 1 .. n : s[k] \in Nat
      /\ s[1] % 2 \in {0, 1}
  OBVIOUS
<1>2. asked \in Phases /\ told \in Phases /\ "addr" \in Phases
  BY DEF Phases
<1>3. h \in [0 .. 2 * n -> Phases]
  <2> HIDE DEF asked, told, n
  <2> QED BY <1>2
<1>4. h[0] = "addr" /\ h[2 * n] = told
  <2>1. 0 \in 0 .. 2 * n /\ 2 * n \in 0 .. 2 * n /\ 2 * n # 0 /\ (2 * n) % 2 # 1
    BY <1>1
  <2> HIDE DEF asked, told, n
  <2> QED BY <2>1
<1>5. ASSUME NEW k \in 1 .. 2 * n
      PROVE  t[k] \in Routines /\ Leads(h[k - 1], t[k], h[k])
  <2>0. /\ k \in Nat /\ k - 1 \in 0 .. 2 * n /\ k \in 0 .. 2 * n /\ k # 0
    BY <1>1
  <2>1. CASE k % 2 = 1
    <3> DEFINE j == (k + 1) \div 2
    <3>1. j \in 1 .. n /\ k = 2 * j - 1 /\ (k - 1) % 2 # 1
      BY <1>1, <2>1
    <3>2. t[k] = R("send", s[j]) /\ s[j] \in Nat
      BY <1>1, <2>1, <3>1 DEF Sent
    <3>3. h[k] = asked /\ h[k - 1] = IF k = 1 THEN "addr" ELSE told
      <4> HIDE DEF asked, told, n
      <4> QED BY <2>0, <2>1, <3>1
    <3>4. t[k] \in Routines /\ t[k].r = "send" /\ t[k].v = s[j]
      BY <3>2, RoutineRecords
    <3>5. CASE k = 1
      <4>1. j = 1
        BY <3>1, <3>5
      <4> QED BY <1>1, <3>3, <3>4, <3>5, <4>1 DEF Leads
    <3>6. CASE k # 1
      <4>1. s[1] % 2 = 0
        BY <1>1, <3>1, <3>6
      <4> QED BY <3>3, <3>4, <3>6, <4>1 DEF Leads
    <3> QED BY <3>5, <3>6
  <2>2. CASE k % 2 # 1
    <3>1. (k - 1) % 2 = 1 /\ k - 1 # 0
      BY <2>0, <2>2
    <3>2. t[k] = R("rack", 0)
      BY <2>2 DEF Sent
    <3>3. h[k] = told /\ h[k - 1] = asked
      <4> HIDE DEF asked, told, n
      <4> QED BY <2>0, <2>2, <3>1
    <3>4. t[k] \in Routines /\ t[k].r = "rack"
      BY <3>2, RoutineRecords DEF Names
    <3> QED BY <3>3, <3>4 DEF Leads
  <2> QED BY <2>1, <2>2
<1>6. t \in Seq(Routines) /\ Len(t) = 2 * n
  <2> DEFINE m == 2 * n
  <2>1. t = [k \in 1 .. m |-> t[k]] /\ m \in Nat
    BY <1>1 DEF Sent
  <2>2. \A k \in 1 .. m : t[k] \in Routines
    BY <1>5
  <2> HIDE DEF t, m
  <2>3. t \in Seq(Routines) /\ Len(t) = m
    BY <2>1, <2>2
  <2> QED BY <2>3 DEF m
<1> HIDE DEF h, t, n, told
<1>7. Chain("addr", t, told)
  BY <1>3, <1>4, <1>5, <1>6 DEF Chain
<1> QED BY <1>7 DEF t, told

LEMMA ReceivedChain ==
  ASSUME NEW n \in Nat, n > 0
  PROVE  Chain("sending", Received(n), "closed")
<1> DEFINE h == [k \in 0 .. 2 * n |-> IF k = 2 * n THEN "closed"
                                      ELSE IF k % 2 = 1 THEN "sent" ELSE "sending"]
           t == Received(n)
<1>1. h \in [0 .. 2 * n -> Phases]
  BY DEF Phases
<1>2. h[0] = "sending" /\ h[2 * n] = "closed"
  OBVIOUS
<1>3. ASSUME NEW k \in 1 .. 2 * n
      PROVE  t[k] \in Routines /\ Leads(h[k - 1], t[k], h[k])
  <2>0. /\ k \in Nat /\ k - 1 \in 0 .. 2 * n /\ k \in 0 .. 2 * n /\ k - 1 # 2 * n
        /\ (2 * n) % 2 # 1
    OBVIOUS
  <2>1. CASE k % 2 = 1
    <3>1. (k - 1) % 2 # 1 /\ k # 2 * n
      BY <2>0, <2>1
    <3>2. t[k] = R("recv", 0)
      BY <2>1 DEF Received
    <3>3. h[k] = "sent" /\ h[k - 1] = "sending"
      BY <2>0, <2>1, <3>1
    <3>4. t[k] \in Routines /\ t[k].r = "recv"
      BY <3>2, RoutineRecords DEF Names
    <3> QED BY <3>3, <3>4 DEF Leads
  <2>2. CASE k % 2 # 1
    <3>1. (k - 1) % 2 = 1
      BY <2>0, <2>2
    <3>2. t[k] = R(IF k = 2 * n THEN "nack" ELSE "ack", 0)
      BY <2>2 DEF Received
    <3>3. h[k] = (IF k = 2 * n THEN "closed" ELSE "sending") /\ h[k - 1] = "sent"
      BY <2>0, <2>2, <3>1
    <3>4. t[k] \in Routines /\ t[k].r = IF k = 2 * n THEN "nack" ELSE "ack"
      BY <3>2, RoutineRecords DEF Names
    <3> QED BY <3>3, <3>4 DEF Leads
  <2> QED BY <2>1, <2>2
<1>4. t \in Seq(Routines) /\ Len(t) = 2 * n
  <2> DEFINE m == 2 * n
  <2>1. t = [k \in 1 .. m |-> t[k]] /\ m \in Nat
    BY DEF Received
  <2>2. \A k \in 1 .. m : t[k] \in Routines
    BY <1>3
  <2> HIDE DEF t, m
  <2>3. t \in Seq(Routines) /\ Len(t) = m
    BY <2>1, <2>2
  <2> QED BY <2>3 DEF m
<1> HIDE DEF h, t
<1>5. Chain("sending", t, "closed")
  BY <1>1, <1>2, <1>3, <1>4 DEF Chain
<1> QED BY <1>5 DEF t

LEMMA StartStopChains ==
  /\ Chain("free", StartR, "addr") /\ Chain("taking", StartR, "addr")
  /\ Chain("taking", StopR, "free") /\ Chain("closed", StopR, "free")
<1>1. /\ R("start", 0) \in Routines /\ R("start", 0).r = "start"
      /\ R("stop", 0) \in Routines /\ R("stop", 0).r = "stop"
  BY RoutineRecords DEF Names
<1>2. /\ "free" \in Phases /\ "addr" \in Phases /\ "taking" \in Phases
      /\ "closed" \in Phases
  BY DEF Phases
<1>3. /\ Leads("free", R("start", 0), "addr") /\ Leads("taking", R("start", 0), "addr")
      /\ Leads("taking", R("stop", 0), "free") /\ Leads("closed", R("stop", 0), "free")
  BY <1>1 DEF Leads
<1> QED BY <1>1, <1>2, <1>3, ChainOne DEF StartR, StopR

(* The transfers of the calls.                                             *)
LEMMA WriteChains ==
  ASSUME NEW dev \in Nat, NEW s \in Seq(Byte)
  PROVE  /\ Chain("free", i2c_write(dev, s, "BUS_STOP"), "free")
         /\ Chain("free", i2c_write(dev, s, "NO_STOP"), "taking")
         /\ \A v \in Byte : Chain("free", reg_write(dev, s, v), "free")
<1> DEFINE x == 2 * dev
           a == <<x>> \o s
           b(v) == a \o <<v>>
<1>1. x \in Nat /\ x % 2 = 0
  OBVIOUS
<1>2. /\ i2c_write(dev, s, "BUS_STOP") = (StartR \o Sent(a)) \o StopR
      /\ i2c_write(dev, s, "NO_STOP") = (StartR \o Sent(a)) \o <<>>
      /\ \A v : reg_write(dev, s, v) = (StartR \o Sent(b(v))) \o StopR
  BY DEF i2c_write, reg_write
<1> HIDE DEF x
<1>3. /\ a \in Seq(Nat) /\ Len(a) >= 1 /\ a[1] = x
      /\ \A v \in Byte : b(v) \in Seq(Nat) /\ Len(b(v)) >= 1 /\ b(v)[1] = x
  BY <1>1, BytesAreNat
<1> HIDE DEF a, b
<1>4. Chain("addr", Sent(a), "taking")
  BY <1>1, <1>3, SentChain
<1>5. Chain("taking", <<>>, "taking")
  BY ChainNone DEF Phases
<1>6. Chain("free", StartR \o Sent(a), "taking")
  BY <1>4, StartStopChains, ChainTwo
<1>7. ASSUME NEW v \in Byte PROVE Chain("free", reg_write(dev, s, v), "free")
  <2>1. Chain("addr", Sent(b(v)), "taking")
    BY <1>1, <1>3, SentChain
  <2>2. Chain("free", StartR \o Sent(b(v)), "taking")
    BY <2>1, StartStopChains, ChainTwo
  <2> QED BY <1>2, <2>2, StartStopChains, ChainTwo
<1> QED BY <1>2, <1>5, <1>6, <1>7, StartStopChains, ChainTwo

LEMMA ReadChains ==
  ASSUME NEW dev \in Nat, NEW s \in Seq(Byte), NEW n \in Nat
  PROVE  /\ Chain("free", reg_read(dev, s), "free")
         /\ n > 0 => Chain("taking", i2c_read(dev, n), "free")
<1> DEFINE a == <<2 * dev>> \o s
           b == <<2 * dev + 1>>
<1>0. /\ 2 * dev \in Nat /\ (2 * dev) % 2 = 0 /\ 2 * dev + 1 \in Nat
      /\ (2 * dev + 1) % 2 # 0
  OBVIOUS
<1>1. a \in Seq(Nat) /\ Len(a) >= 1 /\ a[1] = 2 * dev
  <2> DEFINE x == 2 * dev
  <2>1. x \in Nat
    BY <1>0
  <2> HIDE DEF x
  <2>2. /\ <<x>> \o s \in Seq(Nat) /\ Len(<<x>> \o s) >= 1 /\ (<<x>> \o s)[1] = x
    BY <2>1, BytesAreNat
  <2> QED BY <2>2 DEF x
<1>2. b \in Seq(Nat) /\ Len(b) = 1 /\ b[1] = 2 * dev + 1
  OBVIOUS
<1>3. reg_read(dev, s) = ((((StartR \o Sent(a)) \o StartR) \o Sent(b)) \o Received(1))
                         \o StopR
  BY DEF reg_read
<1>4. i2c_read(dev, n) = ((StartR \o Sent(b)) \o Received(n)) \o StopR
  BY DEF i2c_read
<1> HIDE DEF a, b
<1>5. Chain("addr", Sent(a), "taking")
  BY <1>0, <1>1, SentChain
<1>6. Chain("addr", Sent(b), "sending")
  <2>1. b[1] % 2 # 0 /\ Len(b) >= 1
    BY <1>0, <1>2
  <2> QED BY <1>2, <2>1, SentChain
<1>7. /\ Chain("sending", Received(1), "closed")
      /\ n > 0 => Chain("sending", Received(n), "closed")
  BY ReceivedChain
<1>8. Chain("free", (StartR \o Sent(a)) \o StartR, "addr")
  BY <1>5, StartStopChains, ChainTwo
<1>9. Chain("free", (((StartR \o Sent(a)) \o StartR) \o Sent(b)) \o Received(1), "closed")
  BY <1>6, <1>7, <1>8, ChainTwo
<1>10. Chain("taking", StartR \o Sent(b), "sending")
  BY <1>6, StartStopChains, ChainTwo
<1>11. n > 0 => Chain("taking", (StartR \o Sent(b)) \o Received(n), "closed")
  BY <1>7, <1>10, ChainTwo
<1> QED BY <1>3, <1>4, <1>9, <1>11, StartStopChains, ChainTwo

(***************************************************************************)
(* The transfers still to begin, one or two at first.                      *)
(***************************************************************************)
Plans(p, fs) ==
  \/ fs = <<>> /\ p = "free"
  \/ \E t : fs = <<t>> /\ Chain(p, t, "free")
  \/ \E t, u, q : fs = <<t, u>> /\ Chain(p, t, q) /\ Chain(q, u, "free")

LEMMA PlansTail ==
  ASSUME NEW p, NEW fs, fs # <<>>, Plans(p, fs)
  PROVE  \E q : /\ Chain(p, Head(fs), q) /\ Plans(q, Tail(fs))
                /\ Len(Tail(fs)) = Len(fs) - 1
<1>1. ASSUME NEW t, fs = <<t>>, Chain(p, t, "free")
      PROVE  /\ Chain(p, Head(fs), "free") /\ Plans("free", Tail(fs))
             /\ Len(Tail(fs)) = Len(fs) - 1
  <2>1. Head(fs) = t /\ Tail(fs) = <<>> /\ Len(fs) = 1
    BY <1>1
  <2> QED BY <1>1, <2>1 DEF Plans
<1>2. ASSUME NEW t, NEW u, NEW q, fs = <<t, u>>, Chain(p, t, q), Chain(q, u, "free")
      PROVE  /\ Chain(p, Head(fs), q) /\ Plans(q, Tail(fs))
             /\ Len(Tail(fs)) = Len(fs) - 1
  <2>1. Head(fs) = t /\ Tail(fs) = <<u>> /\ Len(fs) = 2 /\ Len(<<u>>) = 1
    BY <1>2
  <2> QED BY <1>2, <2>1 DEF Plans
<1> QED BY <1>1, <1>2 DEF Plans

LEMMA PlansLen ==
  ASSUME NEW p, NEW fs, Plans(p, fs)
  PROVE  /\ fs \in Seq(Seq(Routines)) /\ Len(fs) \in 0 .. 2
         /\ Len(fs) = 0 => fs = <<>> /\ p = "free"
<1>1. CASE fs = <<>> /\ p = "free"
  BY <1>1
<1>2. CASE \E t : fs = <<t>> /\ Chain(p, t, "free")
  <2>1. PICK t : fs = <<t>> /\ t \in Seq(Routines)
    BY <1>2 DEF Chain
  <2>2. fs \in Seq(Seq(Routines)) /\ Len(fs) = 1
    BY <2>1
  <2> QED BY <2>2
<1>3. CASE \E t, u, q : fs = <<t, u>> /\ Chain(p, t, q) /\ Chain(q, u, "free")
  <2>1. PICK t, u : fs = <<t, u>> /\ t \in Seq(Routines) /\ u \in Seq(Routines)
    BY <1>3 DEF Chain
  <2>2. fs \in Seq(Seq(Routines)) /\ Len(fs) = 2
    BY <2>1
  <2> QED BY <2>2
<1> QED BY <1>1, <1>2, <1>3 DEF Plans

LEMMA CallFields ==
  ASSUME NEW drv, NEW b, NEW st, NEW dev, NEW addr, NEW bytes, NEW n, NEW fs
  PROVE  /\ Call(drv, b, st, dev, addr, bytes, n, fs).drv = drv
         /\ Call(drv, b, st, dev, addr, bytes, n, fs).b = b
         /\ Call(drv, b, st, dev, addr, bytes, n, fs).stretch = st
         /\ Call(drv, b, st, dev, addr, bytes, n, fs).frames = fs
BY DEF Call

LEMMA CallsOK ==
  ASSUME NEW c \in Calls
  PROVE  /\ c.b \in Buses /\ Drives(c) /\ Plans("free", c.frames)
         /\ Len(c.frames) \in 1 .. 2
<1>1. /\ c.b \in Buses /\ c.dev \in Nat /\ c.n \in Nat
      /\ c.addr \in Seq(Byte) /\ c.bytes \in Seq(Byte)
      /\ \/ \E st \in BOOLEAN, v \in Byte : c = RegWrite(c.b, st, c.dev, c.addr, v)
         \/ \E st \in BOOLEAN : c = RegRead(c.b, st, c.dev, c.addr)
         \/ \E drv \in {"xgpio", "emio"} :
              \/ c = PageWrite(drv, c.b, c.dev, c.addr, c.bytes)
              \/ c.n > 0 /\ c = EepromReadData(drv, c.b, c.dev, c.addr, c.n)
  BY CallsAssumption
<1> DEFINE dev == c.dev
           addr == c.addr
           bytes == c.bytes
           n == c.n
<1>3. ASSUME NEW st \in BOOLEAN, NEW v \in Byte, c = RegWrite(c.b, st, dev, addr, v)
      PROVE  /\ Drives(c) /\ Plans("free", c.frames) /\ Len(c.frames) = 1
  <2>1. /\ c.drv = "xgpio" /\ c.stretch = st
        /\ c.frames = <<reg_write(dev, addr, v)>>
    BY <1>3, CallFields DEF RegWrite
  <2>2. Chain("free", reg_write(dev, addr, v), "free")
    BY <1>1, WriteChains
  <2> HIDE DEF dev, addr
  <2> QED BY <2>1, <2>2 DEF Drives, Plans
<1>4. ASSUME NEW st \in BOOLEAN, c = RegRead(c.b, st, dev, addr)
      PROVE  /\ Drives(c) /\ Plans("free", c.frames) /\ Len(c.frames) = 1
  <2>1. /\ c.drv = "xgpio" /\ c.stretch = st
        /\ c.frames = <<reg_read(dev, addr)>>
    BY <1>4, CallFields DEF RegRead
  <2>2. Chain("free", reg_read(dev, addr), "free")
    BY <1>1, ReadChains
  <2> HIDE DEF dev, addr
  <2> QED BY <2>1, <2>2 DEF Drives, Plans
<1>5. ASSUME NEW drv \in {"xgpio", "emio"}, c = PageWrite(drv, c.b, dev, addr, bytes)
      PROVE  /\ Drives(c) /\ Plans("free", c.frames) /\ Len(c.frames) = 1
  <2> DEFINE s == addr \o bytes
           fs == <<i2c_write(dev, s, "BUS_STOP")>>
  <2>1. c.drv = drv /\ c.stretch = FALSE /\ c.frames = fs
    <3>1. c = Call(drv, c.b, FALSE, dev, addr, bytes, 0, fs)
      BY <1>5 DEF PageWrite
    <3> HIDE DEF fs, dev, addr, bytes
    <3> QED BY <3>1 DEF Call
  <2>2. s \in Seq(Byte)
    BY <1>1, ConcatProperties
  <2> HIDE DEF s, dev, addr, bytes
  <2>3. Chain("free", i2c_write(dev, s, "BUS_STOP"), "free")
    BY <1>1, <2>2, WriteChains DEF dev
  <2> QED BY <2>1, <2>3 DEF Drives, Plans
<1>6. ASSUME NEW drv \in {"xgpio", "emio"}, n > 0,
             c = EepromReadData(drv, c.b, dev, addr, n)
      PROVE  /\ Drives(c) /\ Plans("free", c.frames) /\ Len(c.frames) = 2
  <2> DEFINE fs == <<i2c_write(dev, addr, "NO_STOP"), i2c_read(dev, n)>>
  <2>1. c.drv = drv /\ c.stretch = FALSE /\ c.frames = fs
    <3>1. c = Call(drv, c.b, FALSE, dev, addr, <<>>, n, fs)
      BY <1>6 DEF EepromReadData
    <3> HIDE DEF fs, dev, addr, n
    <3> QED BY <3>1 DEF Call
  <2>2. /\ Chain("free", i2c_write(dev, addr, "NO_STOP"), "taking")
        /\ Chain("taking", i2c_read(dev, n), "free")
    BY <1>1, <1>6, WriteChains, ReadChains
  <2> HIDE DEF dev, addr, n
  <2> QED BY <2>1, <2>2 DEF Drives, Plans
<1> QED BY <1>1, <1>3, <1>4, <1>5, <1>6

(***************************************************************************)
(* The steps of the pins.                                                  *)
(***************************************************************************)
Typed ==
  /\ dir \in [Pins -> Ways] /\ latch \in [Pins -> Bit]
  /\ slave \in [Buses -> Slaves] /\ check \in Bit /\ lost \in BOOLEAN
  /\ call \in Calls \cup {None}
  /\ ops \in Seq(Ops) /\ todo \in Seq(Routines) /\ frames \in Seq(Seq(Routines))

LEMMA LevelOf ==
  ASSUME NEW b, NEW d, NEW l, NEW s
  PROVE  /\ Wire(d, l, s, <<b, "sda">>) = Lev(d[<<b, "sda">>], l[<<b, "sda">>], s.sda)
         /\ Wire(d, l, s, <<b, "scl">>) = Lev(d[<<b, "scl">>], l[<<b, "scl">>], s.scl)
BY DEF Wire, Pulls, Lev

LEMMA LineOf ==
  ASSUME NEW b
  PROVE  /\ Line(b).ds = dir[<<b, "sda">>] /\ Line(b).dc = dir[<<b, "scl">>]
         /\ Line(b).ls = latch[<<b, "sda">>] /\ Line(b).lc = latch[<<b, "scl">>]
         /\ Line(b).s = slave[b] /\ Line(b).ck = check
         /\ Level(<<b, "sda">>) = SdaOf(Line(b)) /\ Level(<<b, "scl">>) = SclOf(Line(b))
<1>1. /\ Line(b).ds = dir[<<b, "sda">>] /\ Line(b).dc = dir[<<b, "scl">>]
      /\ Line(b).ls = latch[<<b, "sda">>] /\ Line(b).lc = latch[<<b, "scl">>]
      /\ Line(b).s = slave[b] /\ Line(b).ck = check
  BY DEF Line
<1>2. /\ Level(<<b, "sda">>) = Wire(dir, latch, slave[b], <<b, "sda">>)
      /\ Level(<<b, "scl">>) = Wire(dir, latch, slave[b], <<b, "scl">>)
  BY DEF Level
<1> QED BY <1>1, <1>2, LevelOf DEF SdaOf, SclOf

LEMMA PinsOf ==
  ASSUME NEW b \in Buses
  PROVE  <<b, "sda">> \in Pins /\ <<b, "scl">> \in Pins
BY DEF Pins

LEMMA LineTyped ==
  ASSUME Typed, NEW b \in Buses
  PROVE  Line(b) \in Lines
<1>1. /\ Line(b).ds \in Ways /\ Line(b).dc \in Ways /\ Line(b).ls \in Bit
      /\ Line(b).lc \in Bit /\ Line(b).s \in Slaves /\ Line(b).ck \in Bit
  BY LineOf, PinsOf DEF Typed
<1> QED BY <1>1 DEF Line, Lines

(* What Drive does with a bus: its slave hears the pins move.              *)
LEMMA DriveHears ==
  ASSUME NEW d, NEW l, Drive(d, l), slave \in [Buses -> Slaves], call \in Calls
  PROVE  /\ dir' = d /\ latch' = l /\ slave' \in [Buses -> Slaves]
         /\ \A b \in Buses :
              HearsTo(call, slave[b],
                      SdaOf(Line(b)), Lev(d[<<b, "sda">>], l[<<b, "sda">>], slave[b].sda),
                      SclOf(Line(b)), Lev(d[<<b, "scl">>], l[<<b, "scl">>], slave[b].scl),
                      slave'[b])
<1> DEFINE hears == [b \in Buses |-> Hears(b, d, l)]
<1>1. PICK h \in [Buses -> UNION {hears[b] : b \in Buses}] :
        (\A b \in Buses : h[b] \in hears[b]) /\ slave' = h
  BY DEF Drive
<1>2. call.stretch \in BOOLEAN
  BY CallsOK DEF Drives
<1>3. ASSUME NEW b \in Buses
      PROVE  /\ slave'[b] \in Slaves
             /\ HearsTo(call, slave[b],
                      SdaOf(Line(b)), Lev(d[<<b, "sda">>], l[<<b, "sda">>], slave[b].sda),
                      SclOf(Line(b)), Lev(d[<<b, "scl">>], l[<<b, "scl">>], slave[b].scl),
                      slave'[b])
  <2>1. slave'[b] \in Hears(b, d, l)
    BY <1>1
  <2>2. slave[b] \in Slaves
    OBVIOUS
  <2>3. /\ slave'[b] \in Slaves
        /\ HearsTo(call, slave[b],
                   Level(<<b, "sda">>), Wire(d, l, slave[b], <<b, "sda">>),
                   Level(<<b, "scl">>), Wire(d, l, slave[b], <<b, "scl">>), slave'[b])
    BY <1>2, <2>1, <2>2, HearsOK
  <2> QED BY <2>3, LineOf, LevelOf
<1>4. slave' \in [Buses -> Slaves]
  <2> HIDE DEF hears
  <2> QED BY <1>1, <1>3
<1> QED BY <1>3, <1>4 DEF Drive

LEMMA NamedPins ==
  ASSUME NEW o
  PROVE  /\ Named(o, <<call.b, "sda">>) = o.sda /\ Named(o, <<call.b, "scl">>) = o.scl
         /\ \A b, w : b # call.b => Named(o, <<b, w>>) = Keep
BY DEF Named

LEMMA DirectedPins ==
  ASSUME Typed, NEW o \in Ops
  PROVE  /\ Directed(o) \in [Pins -> Ways]
         /\ call.b \in Buses =>
              /\ Directed(o)[<<call.b, "sda">>] = Or(o.sda, dir[<<call.b, "sda">>])
              /\ Directed(o)[<<call.b, "scl">>] = Or(o.scl, dir[<<call.b, "scl">>])
         /\ \A b \in Buses, w \in {"sda", "scl"} :
              b # call.b => Directed(o)[<<b, w>>] = dir[<<b, w>>]
<1>1. ASSUME NEW p \in Pins PROVE Directed(o)[p] \in Ways
  <2>1. Named(o, p) \in 0 .. 2 /\ dir[p] \in Ways
    BY DEF Named, Ops, Keep, Typed
  <2> QED BY <2>1 DEF Directed, Ways, In, Out, Keep
<1>2. Directed(o) \in [Pins -> Ways]
  BY <1>1 DEF Directed
<1>3. call.b \in Buses =>
        /\ Directed(o)[<<call.b, "sda">>] = Or(o.sda, dir[<<call.b, "sda">>])
        /\ Directed(o)[<<call.b, "scl">>] = Or(o.scl, dir[<<call.b, "scl">>])
  BY NamedPins, PinsOf DEF Directed, Or
<1>4. ASSUME NEW b \in Buses, NEW w \in {"sda", "scl"}, b # call.b
      PROVE  Directed(o)[<<b, w>>] = dir[<<b, w>>]
  BY <1>4, NamedPins, PinsOf DEF Directed
<1> QED BY <1>2, <1>3, <1>4

LEMMA WrittenPins ==
  ASSUME Typed, NEW o \in Ops
  PROVE  /\ Written(o) \in [Pins -> Bit]
         /\ call.b \in Buses =>
              /\ Written(o)[<<call.b, "sda">>]
                   = Or(o.sda, Pin(call, SdaOf(Line(call.b)), latch[<<call.b, "sda">>]))
              /\ Written(o)[<<call.b, "scl">>]
                   = Or(o.scl, Pin(call, SclOf(Line(call.b)), latch[<<call.b, "scl">>]))
<1>1. ASSUME NEW p \in Pins PROVE Written(o)[p] \in Bit
  <2>1. Named(o, p) \in 0 .. 2 /\ latch[p] \in Bit /\ Level(p) \in Bit
    BY DEF Named, Ops, Keep, Typed, Level, Wire, Bit
  <2> QED BY <2>1 DEF Written, Bit, Keep
<1>2. Written(o) \in [Pins -> Bit]
  BY <1>1 DEF Written
<1>3. ASSUME call.b \in Buses
      PROVE  /\ Written(o)[<<call.b, "sda">>]
                  = Or(o.sda, Pin(call, SdaOf(Line(call.b)), latch[<<call.b, "sda">>]))
             /\ Written(o)[<<call.b, "scl">>]
                  = Or(o.scl, Pin(call, SclOf(Line(call.b)), latch[<<call.b, "scl">>]))
  <2>1. /\ Level(<<call.b, "sda">>) = SdaOf(Line(call.b))
        /\ Level(<<call.b, "scl">>) = SclOf(Line(call.b))
    BY LineOf
  <2>2. <<call.b, "sda">> \in Pins /\ <<call.b, "scl">> \in Pins
    BY <1>3, PinsOf
  <2> QED BY <2>1, <2>2, NamedPins DEF Written, Or, Pin
<1> QED BY <1>2, <1>3


(* The line of the call's own bus: what the operation makes of it.         *)
LEMMA OwnLine ==
  ASSUME Typed, call \in Calls, NEW o \in Ops, o.k \in {"dir", "put"},
         o.k = "dir" => Drive(Directed(o), latch),
         o.k = "put" => Drive(dir, Written(o)),
         UNCHANGED <<call, check>>
  PROVE  /\ dir' \in [Pins -> Ways] /\ latch' \in [Pins -> Bit]
         /\ slave' \in [Buses -> Slaves]
         /\ After(call, o, Line(call.b), Line(call.b)')
<1> DEFINE b == call.b
           x == Line(b)
           y == Line(b)'
           ps == <<b, "sda">>
           pc == <<b, "scl">>
<1>1. b \in Buses /\ slave \in [Buses -> Slaves] /\ slave[b] \in Slaves
  BY CallsOK DEF Typed
<1>2. /\ x.ds = dir[ps] /\ x.dc = dir[pc] /\ x.ls = latch[ps] /\ x.lc = latch[pc]
      /\ x.s = slave[b] /\ x.ck = check
  BY LineOf
<1>3. /\ y.ds = dir'[ps] /\ y.dc = dir'[pc] /\ y.ls = latch'[ps] /\ y.lc = latch'[pc]
      /\ y.s = slave'[b] /\ y.ck = check
  BY DEF Line
<1>4. ASSUME dir' \in [Pins -> Ways], latch' \in [Pins -> Bit],
             slave' \in [Buses -> Slaves]
      PROVE  y \in Lines
  <2>1. ps \in Pins /\ pc \in Pins /\ check \in Bit
    BY <1>1, PinsOf DEF Typed
  <2> QED BY <1>1, <1>4, <2>1 DEF Line, Lines
<1>5. CASE o.k = "dir"
  <2>1. /\ dir' = Directed(o) /\ latch' = latch /\ slave' \in [Buses -> Slaves]
        /\ HearsTo(call, slave[b],
                   SdaOf(x), Lev(Directed(o)[ps], latch[ps], slave[b].sda),
                   SclOf(x), Lev(Directed(o)[pc], latch[pc], slave[b].scl),
                   slave'[b])
    BY <1>1, <1>5, DriveHears
  <2>2. /\ dir' \in [Pins -> Ways] /\ latch' \in [Pins -> Bit]
        /\ dir'[ps] = Or(o.sda, dir[ps]) /\ dir'[pc] = Or(o.scl, dir[pc])
    BY <1>1, <2>1, DirectedPins DEF Typed
  <2>3. y \in Lines
    BY <1>4, <2>1, <2>2
  <2> HIDE DEF x, y, b, ps, pc
  <2>4. Moves(call, o, x, y)
    BY <1>2, <1>3, <1>5, <2>1, <2>2 DEF Moves
  <2>5. After(call, o, x, y)
    BY <1>5, <2>3, <2>4 DEF After
  <2> QED BY <2>1, <2>2, <2>5 DEF x, y, b
<1>6. CASE o.k = "put"
  <2>1. /\ dir' = dir /\ latch' = Written(o) /\ slave' \in [Buses -> Slaves]
        /\ HearsTo(call, slave[b],
                   SdaOf(x), Lev(dir[ps], Written(o)[ps], slave[b].sda),
                   SclOf(x), Lev(dir[pc], Written(o)[pc], slave[b].scl),
                   slave'[b])
    BY <1>1, <1>6, DriveHears
  <2>2. /\ dir' \in [Pins -> Ways] /\ latch' \in [Pins -> Bit]
        /\ latch'[ps] = Or(o.sda, Pin(call, SdaOf(x), latch[ps]))
        /\ latch'[pc] = Or(o.scl, Pin(call, SclOf(x), latch[pc]))
    BY <1>1, <2>1, WrittenPins DEF Typed
  <2>3. y \in Lines
    BY <1>4, <2>1, <2>2
  <2> HIDE DEF x, y, b, ps, pc
  <2>4. Moves(call, o, x, y)
    BY <1>2, <1>3, <1>6, <2>1, <2>2 DEF Moves
  <2>5. After(call, o, x, y)
    BY <1>6, <2>3, <2>4 DEF After
  <2> QED BY <2>1, <2>2, <2>5 DEF x, y, b
<1> QED BY <1>5, <1>6

(* A bus that is free, and is not the call's, stays as it was: its pins are *)
(* inputs, whatever is written to them.                                     *)
LEMMA OtherLine ==
  ASSUME Typed, call \in Calls, NEW o \in Ops, NEW b \in Buses, b # call.b, Free(b),
         o.k \in {"dir", "put"},
         o.k = "dir" => Drive(Directed(o), latch),
         o.k = "put" => Drive(dir, Written(o))
  PROVE  Free(b)'
<1> DEFINE ps == <<b, "sda">>
           pc == <<b, "scl">>
<1>1. /\ dir[ps] = In /\ dir[pc] = In /\ slave[b].mode = "idle"
      /\ Level(ps) = 1 /\ Level(pc) = 1
  BY DEF Free
<1>2. PICK d, l : Drive(d, l) /\ d[ps] = In /\ d[pc] = In
  <2>1. /\ Directed(o)[ps] = dir[ps] /\ Directed(o)[pc] = dir[pc]
    BY DirectedPins
  <2> QED BY <1>1, <2>1
<1>3. /\ dir' = d /\ latch' = l
      /\ HearsTo(call, slave[b],
                 SdaOf(Line(b)), Lev(d[ps], l[ps], slave[b].sda),
                 SclOf(Line(b)), Lev(d[pc], l[pc], slave[b].scl), slave'[b])
  BY <1>2, DriveHears DEF Typed
<1>4. slave[b] \in Slaves
  BY DEF Typed
<1>5. /\ SdaOf(Line(b)) = 1 /\ SclOf(Line(b)) = 1
      /\ SdaOf(Line(b)) = Lev(In, latch[ps], slave[b].sda)
      /\ SclOf(Line(b)) = Lev(In, latch[pc], slave[b].scl)
  BY <1>1, LineOf DEF SdaOf, SclOf
<1>6. slave[b].sda # 0 /\ slave[b].scl # 0
  BY <1>5 DEF Lev
<1>7. Lev(d[ps], l[ps], slave[b].sda) = 1 /\ Lev(d[pc], l[pc], slave[b].scl) = 1
  BY <1>2, <1>6 DEF Lev, In, Out
<1>8. slave'[b] = slave[b]
  BY <1>3, <1>4, <1>5, <1>7, HearSame
<1>9. Level(ps)' = 1 /\ Level(pc)' = 1
  <2>1. /\ Level(ps)' = Lev(d[ps], l[ps], slave[b].sda)
        /\ Level(pc)' = Lev(d[pc], l[pc], slave[b].scl)
    BY <1>3, <1>8, LevelOf DEF Level
  <2> QED BY <1>7, <2>1
<1> QED BY <1>1, <1>2, <1>3, <1>8, <1>9 DEF Free

LEMMA FreeLine ==
  ASSUME Typed, NEW b \in Buses, check = 0
  PROVE  Free(b) <=> Line(b) \in FreeLines
<1>1. Line(b) \in Lines /\ slave[b] \in Slaves
  BY LineTyped DEF Typed
<1>2. Free(b) => Line(b) \in FreeLines
  <2> SUFFICES ASSUME Free(b) PROVE Line(b) \in FreeLines
    OBVIOUS
  <2>1. /\ Line(b).ds = In /\ Line(b).dc = In /\ slave[b].mode = "idle"
        /\ SdaOf(Line(b)) = 1 /\ SclOf(Line(b)) = 1
    BY LineOf DEF Free
  <2>2. slave[b].sda = 1 /\ slave[b].scl = 1
    <3>1. /\ SdaOf(Line(b)) = Lev(In, latch[<<b, "sda">>], slave[b].sda)
          /\ SclOf(Line(b)) = Lev(In, latch[<<b, "scl">>], slave[b].scl)
      BY <2>1, LineOf DEF SdaOf, SclOf
    <3>2. slave[b].sda \in Bit /\ slave[b].scl \in Bit
      BY <1>1 DEF Slaves
    <3> QED BY <2>1, <3>1, <3>2 DEF Lev, Bit
  <2> QED BY <1>1, <2>1, <2>2, LineOf DEF FreeLines, AtRest, Calm
<1>3. Line(b) \in FreeLines => Free(b)
  <2> SUFFICES ASSUME Line(b) \in FreeLines PROVE Free(b)
    OBVIOUS
  <2>1. /\ Line(b).ds = In /\ Line(b).dc = In /\ slave[b].mode = "idle"
        /\ slave[b].sda = 1 /\ slave[b].scl = 1
    BY LineOf DEF FreeLines, AtRest, Calm
  <2>2. SdaOf(Line(b)) = 1 /\ SclOf(Line(b)) = 1
    <3>1. /\ SdaOf(Line(b)) = Lev(In, latch[<<b, "sda">>], slave[b].sda)
          /\ SclOf(Line(b)) = Lev(In, latch[<<b, "scl">>], slave[b].scl)
      BY <2>1, LineOf DEF SdaOf, SclOf
    <3> QED BY <2>1, <3>1 DEF Lev, In, Out
  <2> QED BY <2>1, <2>2, LineOf DEF Free
<1> QED BY <1>2, <1>3

(***************************************************************************)
(* The invariant.                                                          *)
(***************************************************************************)
Resting == call = None => /\ ops = <<>> /\ todo = <<>> /\ frames = <<>> /\ check = 0
(* Nothing of a call's transfers is under way before the first has begun.  *)
Fresh == call # None =>
           /\ Len(frames) <= Len(call.frames)
           /\ Len(frames) = Len(call.frames) => ops = <<>> /\ todo = <<>> /\ check = 0
OthersFree == ~lost => \A b \in Buses : call = None \/ b # call.b => Free(b)
OnCourse == ~lost /\ call # None =>
              \E p, q \in Phases : /\ Outline(call, {Line(call.b)}, ops, Phase(call, p))
                                   /\ Chain(p, todo, q) /\ Plans(q, frames)
Inv == Typed /\ Resting /\ Fresh /\ OthersFree /\ OnCourse

LEMMA NoneIsNoCall == None \notin Calls
<1>1. Len(None.frames) = 0
  BY DEF None
<1> QED BY <1>1, CallsOK

(* What an operation leaves has an outline again.                          *)
LEMMA OpStep ==
  ASSUME Inv, call \in Calls, ops # <<>>, ops' = Tail(ops),
         UNCHANGED <<call, frames, todo, lost>>,
         After(call, Head(ops), Line(call.b), Line(call.b)')
  PROVE  Fresh' /\ OnCourse'
<1>1. Fresh'
  BY NoneIsNoCall DEF Inv, Fresh
<1>2. ASSUME ~lost
      PROVE  \E p, q \in Phases :
               /\ Outline(call, {Line(call.b)'}, Tail(ops), Phase(call, p))
               /\ Chain(p, todo, q) /\ Plans(q, frames)
  <2>1. PICK p \in Phases, q \in Phases :
          /\ Outline(call, {Line(call.b)}, ops, Phase(call, p))
          /\ Chain(p, todo, q) /\ Plans(q, frames)
    BY <1>2, NoneIsNoCall DEF Inv, OnCourse
  <2>2. PICK V \in Asserts : /\ Fits(call, {Line(call.b)}, Head(ops), V)
                             /\ Outline(call, V, Tail(ops), Phase(call, p))
    BY <2>1, OutlineTail
  <2>3. {Line(call.b)'} \subseteq V
    BY <2>2 DEF Fits
  <2>4. Outline(call, {Line(call.b)'}, Tail(ops), Phase(call, p))
    BY <2>2, <2>3, OfLess
  <2> QED BY <2>1, <2>4
<1>3. OnCourse'
  BY <1>2 DEF OnCourse
<1> QED BY <1>1, <1>3

LEMMA TypedOps ==
  ASSUME Typed, ops # <<>>
  PROVE  Head(ops) \in Ops /\ Tail(ops) \in Seq(Ops)
BY HeadTailProperties DEF Typed

(***************************************************************************)
(* The invariant, step by step.                                            *)
(***************************************************************************)
LEMMA InitInv ==
  ASSUME Init
  PROVE  Inv
<1>1. Idle \in Slaves /\ Idle.mode = "idle" /\ Idle.sda = 1 /\ Idle.scl = 1
  BY DEF Idle, Slaves, Modes, Bit
<1>2. Typed
  <2>1. /\ dir \in [Pins -> Ways] /\ latch \in [Pins -> Bit]
        /\ slave \in [Buses -> Slaves]
    BY <1>1 DEF Init, Ways, Bit
  <2>2. <<>> \in Seq(Ops) /\ <<>> \in Seq(Routines) /\ <<>> \in Seq(Seq(Routines))
    OBVIOUS
  <2> QED BY <2>1, <2>2 DEF Init, Typed, Bit
<1>3. ASSUME NEW b \in Buses PROVE Free(b)
  <2>1. /\ dir[<<b, "sda">>] = In /\ dir[<<b, "scl">>] = In /\ slave[b] = Idle
        /\ latch[<<b, "sda">>] = 1 /\ latch[<<b, "scl">>] = 1
    BY PinsOf DEF Init
  <2>2. Level(<<b, "sda">>) = 1 /\ Level(<<b, "scl">>) = 1
    BY <1>1, <2>1, LevelOf DEF Level, Lev
  <2> QED BY <1>1, <2>1, <2>2 DEF Free
<1> QED BY <1>2, <1>3 DEF Init, Inv, Resting, Fresh, OthersFree, OnCourse

(* The buses do not move: each free one stays free.                        *)
LEMMA FreeStill ==
  ASSUME UNCHANGED bus
  PROVE  \A b : /\ Free(b)' <=> Free(b)
                /\ check' = check => Line(b)' = Line(b)
BY DEF bus, pins, Free, Level, Wire, Pulls, Line

LEMMA BeginInv ==
  ASSUME Inv, NEW c \in Calls, Begin(c)
  PROVE  Inv'
<1>1. /\ call = None /\ call' = c /\ frames' = c.frames /\ check' = check
      /\ todo' = todo /\ ops' = ops /\ UNCHANGED bus
      /\ lost' = (\E b \in Buses : ~Free(b))
  BY DEF Begin
<1>2. ops = <<>> /\ todo = <<>> /\ check = 0 /\ Typed
  BY <1>1 DEF Inv, Resting
<1>3. /\ c.b \in Buses /\ Plans("free", c.frames) /\ c.frames \in Seq(Seq(Routines))
      /\ Len(c.frames) \in Nat
  BY CallsOK, PlansLen
<1>4. Typed'
  BY <1>1, <1>2, <1>3 DEF Typed, bus, pins
<1>5. Resting' /\ Fresh'
  BY <1>1, <1>2, <1>3, NoneIsNoCall DEF Resting, Fresh
<1>6. OthersFree'
  BY <1>1, FreeStill DEF OthersFree
<1>7. ASSUME ~lost' PROVE Outline(c, {Line(c.b)'}, <<>>, Phase(c, "free"))
  <2>1. Line(c.b) \in FreeLines
    BY <1>1, <1>2, <1>3, <1>7, FreeLine
  <2>2. Line(c.b)' = Line(c.b)
    BY <1>1, FreeStill
  <2>3. Outline(c, FreeLines, <<>>, FreeLines)
    BY OfNone, CalmLines
  <2> QED BY <2>1, <2>2, <2>3, PhaseFields, OfLess
<1>8. OnCourse'
  <2>1. Chain("free", <<>>, "free") /\ "free" \in Phases
    BY ChainNone DEF Phases
  <2> QED BY <1>1, <1>2, <1>3, <1>7, <2>1 DEF OnCourse
<1> QED BY <1>4, <1>5, <1>6, <1>8 DEF Inv

(* Between two operations of a call that is on course, the phase.          *)
LEMMA AtPhase ==
  ASSUME Inv, call # None, ~lost, ops = <<>>
  PROVE  /\ call \in Calls
         /\ \E p, q \in Phases : /\ Line(call.b) \in Phase(call, p)
                                 /\ Chain(p, todo, q) /\ Plans(q, frames)
<1>1. call \in Calls
  BY DEF Inv, Typed
<1>2. PICK p \in Phases, q \in Phases :
        /\ Outline(call, {Line(call.b)}, ops, Phase(call, p))
        /\ Chain(p, todo, q) /\ Plans(q, frames)
  BY DEF Inv, OnCourse
<1>3. Len(ops) = 0
  OBVIOUS
<1>4. Line(call.b) \in Phase(call, p)
  BY <1>2, <1>3 DEF Outline
<1> QED BY <1>1, <1>2, <1>4

LEMMA AtPhaseAgain ==
  ASSUME NEW c, NEW p \in Phases, NEW x, x \in Phase(c, p)
  PROVE  Outline(c, {x}, <<>>, Phase(c, p))
<1>1. Phase(c, p) \in Asserts
  <2>1. /\ FreeLines \in Asserts
        /\ Low({Out}, {0}, Un(Taken({"addr"}, 0))) \in Asserts
        /\ Low({Out}, Bit, Un(Asking)) \in Asserts
        /\ Low(Ways, Bit, Un(Refusing)) \in Asserts
    BY CalmLines, SetsOfSlaves
  <2>2. /\ Low({In}, Bit, Asked(c, Takers)) \in Asserts
        /\ Low({In}, Bit, Asked(c, {"send"})) \in Asserts
        /\ Low({Out}, Bit, Told(Taken(Takers, 0))) \in Asserts
        /\ Low(Ways, Bit, Told(Sending(0))) \in Asserts
    BY AskedOK, TakenOK, SendingOK
  <2> QED BY <2>1, <2>2 DEF Phase, Phases
<1>2. Outline(c, Phase(c, p), <<>>, Phase(c, p))
  BY <1>1, OfNone
<1> QED BY <1>2, OfLess

LEMMA NextRoutineInv ==
  ASSUME Inv, NextRoutine
  PROVE  Inv'
<1>1. /\ call # None /\ ops = <<>> /\ check = 0 /\ todo # <<>>
      /\ ops' = Routine(call, Head(todo)) /\ todo' = Tail(todo)
      /\ UNCHANGED <<bus, call, frames, check, lost>>
  BY DEF NextRoutine
<1>2. Typed /\ call \in Calls
  BY <1>1 DEF Inv, Typed
<1>3. Drives(call) /\ Head(todo) \in Routines /\ Tail(todo) \in Seq(Routines)
  BY <1>1, <1>2, CallsOK, HeadTailProperties DEF Typed
<1>4. Typed'
  BY <1>1, <1>2, <1>3, RoutineOps DEF Typed, bus, pins
<1>5. Resting' /\ Fresh'
  BY <1>1 DEF Inv, Resting, Fresh
<1>6. OthersFree'
  BY <1>1, FreeStill DEF Inv, OthersFree
<1>7. ASSUME ~lost
      PROVE  \E p, q \in Phases :
               /\ Outline(call, {Line(call.b)}, Routine(call, Head(todo)), Phase(call, p))
               /\ Chain(p, Tail(todo), q) /\ Plans(q, frames)
  <2>1. PICK p \in Phases, q \in Phases : /\ Line(call.b) \in Phase(call, p)
                                          /\ Chain(p, todo, q) /\ Plans(q, frames)
    BY <1>1, <1>7, AtPhase
  <2>2. PICK r \in Phases : Leads(p, Head(todo), r) /\ Chain(r, Tail(todo), q)
    BY <1>1, <2>1, ChainTail
  <2>3. {Line(call.b)} \subseteq Ready(call, p)
    BY <1>1, <2>1, LineOf DEF Ready
  <2>4. Outline(call, Ready(call, p), Routine(call, Head(todo)), Phase(call, r))
    BY <1>3, <2>2, RoutineOutline
  <2>5. Outline(call, {Line(call.b)}, Routine(call, Head(todo)), Phase(call, r))
    BY <2>3, <2>4, OfLess
  <2> QED BY <2>1, <2>2, <2>5
<1>8. OnCourse'
  <2>1. Line(call.b)' = Line(call.b)
    BY <1>1, FreeStill
  <2> QED BY <1>1, <1>7, <2>1 DEF OnCourse
<1> QED BY <1>4, <1>5, <1>6, <1>8 DEF Inv

(* Only lines whose slave has just refused a byte say so.                  *)
LEMMA RefusedLine ==
  ASSUME NEW c, NEW p \in Phases, NEW x \in Phase(c, p), x.ck = 1
  PROVE  [x EXCEPT !.ck = 0] \in Phase(c, "closed")
<1>1. \A S, s, k : <<s, k>> \in Un(S) => k = 0
  BY DEF Un
<1>2. p \in {"taking", "sending"}
  BY <1>1 DEF Phases, Phase, FreeLines, Low, Asked
<1>3. /\ x \in Lines /\ x.dc = Out /\ x.lc = 0 /\ x.ds \in Ways /\ x.ls \in Bit
      /\ <<x.s, x.ck>> \in Told(Taken(Takers, 0)) \cup Told(Sending(0))
  BY <1>2 DEF Phase, Low, Lines
<1>4. x.s \in Refusing
  BY <1>3 DEF Told, Un
<1> DEFINE y == [x EXCEPT !.ck = 0]
<1>5. /\ y \in Lines /\ y.dc = Out /\ y.lc = 0 /\ y.ds \in Ways /\ y.ls \in Bit
      /\ y.s = x.s /\ y.ck = 0
  BY <1>3 DEF Lines, Bit
<1> HIDE DEF y
<1>6. y \in Low(Ways, Bit, Un(Refusing))
  BY <1>4, <1>5 DEF Low, Un
<1> QED BY <1>6, PhaseFields DEF y

LEMMA RefusedByteInv ==
  ASSUME Inv, RefusedByte
  PROVE  Inv'
<1>1. /\ call # None /\ ops = <<>> /\ check = 1 /\ todo' = StopR /\ check' = 0
      /\ UNCHANGED <<bus, call, frames, ops>>
      /\ IF IgnoresStatus(call) THEN lost' = TRUE ELSE lost' = lost
  BY DEF RefusedByte
<1>2. Typed /\ call \in Calls
  BY <1>1 DEF Inv, Typed
<1>3. Chain("closed", StopR, "free") /\ StopR \in Seq(Routines)
  BY StartStopChains DEF Chain
<1>4. Typed'
  BY <1>1, <1>2, <1>3 DEF Typed, bus, pins, Bit
<1>5. Len(frames) <= Len(call.frames) /\ Len(frames) # Len(call.frames)
  BY <1>1 DEF Inv, Fresh
<1>6. Resting' /\ Fresh'
  BY <1>1, <1>5 DEF Resting, Fresh
<1>7. OthersFree'
  BY <1>1, FreeStill DEF Inv, OthersFree
<1>8. ASSUME ~lost'
      PROVE  /\ Outline(call, {Line(call.b)'}, <<>>, Phase(call, "closed"))
             /\ Plans("free", frames)
  <2>1. lost' = lost /\ ~IgnoresStatus(call)
    BY <1>1, <1>8
  <2>2. PICK p \in Phases, q \in Phases : /\ Line(call.b) \in Phase(call, p)
                                          /\ Chain(p, todo, q) /\ Plans(q, frames)
    BY <1>1, <1>8, <2>1, AtPhase
  <2>3. Line(call.b)' = [Line(call.b) EXCEPT !.ck = 0]
    BY <1>1 DEF Line, bus, pins
  <2>4. Line(call.b)' \in Phase(call, "closed")
    BY <1>1, <2>2, <2>3, LineOf, RefusedLine
  <2>5. Outline(call, {Line(call.b)'}, <<>>, Phase(call, "closed"))
    BY <2>4, AtPhaseAgain DEF Phases
  <2>6. Len(call.frames) = 1
    BY <1>2, <2>1, CallsOK DEF IgnoresStatus
  <2>7. Len(frames) \in Nat
    BY <1>2, LenProperties DEF Typed
  <2>8. Len(frames) = 0
    BY <1>5, <2>6, <2>7
  <2>9. frames = <<>> /\ q = "free"
    BY <2>2, <2>8, PlansLen
  <2> QED BY <2>2, <2>5, <2>9
<1>9. OnCourse'
  <2>1. "closed" \in Phases /\ "free" \in Phases
    BY DEF Phases
  <2> QED BY <1>1, <1>3, <1>8, <2>1 DEF OnCourse
<1> QED BY <1>4, <1>6, <1>7, <1>9 DEF Inv

LEMMA NextTransferInv ==
  ASSUME Inv, NextTransfer
  PROVE  Inv'
<1>1. /\ call # None /\ ops = <<>> /\ todo = <<>> /\ check = 0 /\ frames # <<>>
      /\ todo' = Head(frames) /\ frames' = Tail(frames)
      /\ UNCHANGED <<bus, call, ops, check, lost>>
  BY DEF NextTransfer, regs
<1>2. Typed /\ call \in Calls
  BY <1>1 DEF Inv, Typed
<1>3. /\ Head(frames) \in Seq(Routines) /\ Tail(frames) \in Seq(Seq(Routines))
      /\ Len(Tail(frames)) = Len(frames) - 1 /\ Len(frames) \in Nat
  BY <1>1, <1>2, HeadTailProperties, LenProperties DEF Typed
<1>4. Typed'
  BY <1>1, <1>2, <1>3 DEF Typed, bus, pins
<1>5. Resting' /\ Fresh'
  <2>1. Len(frames) <= Len(call.frames) /\ Len(call.frames) \in Nat
    BY <1>1, <1>2, CallsOK DEF Inv, Fresh
  <2>2. Len(frames') < Len(call.frames)
    BY <1>1, <1>3, <2>1
  <2> QED BY <1>1, <2>2 DEF Resting, Fresh
<1>6. OthersFree'
  BY <1>1, FreeStill DEF Inv, OthersFree
<1>7. ASSUME ~lost
      PROVE  \E p, q \in Phases :
               /\ Outline(call, {Line(call.b)}, <<>>, Phase(call, p))
               /\ Chain(p, Head(frames), q) /\ Plans(q, Tail(frames))
  <2>1. PICK p \in Phases, q \in Phases : /\ Line(call.b) \in Phase(call, p)
                                          /\ Chain(p, todo, q) /\ Plans(q, frames)
    BY <1>1, <1>7, AtPhase
  <2>2. p = q
    BY <1>1, <2>1, ChainEnds
  <2>3. PICK r : Chain(p, Head(frames), r) /\ Plans(r, Tail(frames))
    BY <1>1, <2>1, <2>2, PlansTail
  <2>4. r \in Phases
    <3>1. Len(Head(frames)) \in 0 .. Len(Head(frames))
      BY <1>3, LenProperties
    <3> QED BY <2>3, <3>1 DEF Chain
  <2>5. Outline(call, {Line(call.b)}, <<>>, Phase(call, p))
    BY <2>1, AtPhaseAgain
  <2> QED BY <2>3, <2>4, <2>5
<1>8. OnCourse'
  <2>1. Line(call.b)' = Line(call.b)
    BY <1>1, FreeStill
  <2> QED BY <1>1, <1>7, <2>1 DEF OnCourse
<1> QED BY <1>4, <1>5, <1>6, <1>8 DEF Inv

LEMMA ReturnInv ==
  ASSUME Inv, Return
  PROVE  Inv'
<1>1. /\ call # None /\ ops = <<>> /\ todo = <<>> /\ check = 0 /\ frames = <<>>
      /\ call' = None /\ UNCHANGED <<bus, frames, todo, ops, check, lost>>
  BY DEF Return, regs
<1>2. Typed'
  BY <1>1 DEF Inv, Typed, bus, pins
<1>3. Resting' /\ Fresh' /\ OnCourse'
  BY <1>1 DEF Resting, Fresh, OnCourse
<1>4. ASSUME ~lost, NEW b \in Buses PROVE Free(b)
  <2>1. CASE b # call.b
    BY <1>1, <1>4, <2>1 DEF Inv, OthersFree
  <2>2. CASE b = call.b
    <3>1. PICK p \in Phases, q \in Phases : /\ Line(call.b) \in Phase(call, p)
                                            /\ Chain(p, todo, q) /\ Plans(q, frames)
      BY <1>1, <1>4, AtPhase
    <3>2. p = q /\ Len(frames) = 0
      BY <1>1, <3>1, ChainEnds
    <3>3. q = "free"
      BY <3>1, <3>2, PlansLen
    <3>4. Line(b) \in FreeLines
      BY <2>2, <3>1, <3>2, <3>3, PhaseFields
    <3> QED BY <1>1, <3>4, FreeLine DEF Inv
  <2> QED BY <2>1, <2>2
<1>5. OthersFree'
  BY <1>1, <1>4, FreeStill DEF OthersFree
<1> QED BY <1>2, <1>3, <1>5 DEF Inv

(* There are operations left only while a call is under way.               *)
LEMMA Working ==
  ASSUME Inv, ops # <<>>
  PROVE  call \in Calls /\ call # None /\ call.b \in Buses /\ Typed
<1>1. call # None /\ Typed
  BY DEF Inv, Resting
<1> QED BY <1>1, CallsOK DEF Typed

LEMMA PinsInv ==
  ASSUME Inv, SetDataDirection \/ DiscreteWrite
  PROVE  Inv'
<1> DEFINE o == Head(ops)
<1>1. /\ ops # <<>> /\ ops' = Tail(ops) /\ o.k \in {"dir", "put"}
      /\ o.k = "dir" => Drive(Directed(o), latch)
      /\ o.k = "put" => Drive(dir, Written(o))
      /\ UNCHANGED <<call, frames, todo, check, lost>>
  BY DEF SetDataDirection, DiscreteWrite, Do, regs
<1>2. Typed /\ call \in Calls /\ call # None
  BY <1>1, Working
<1>3. o \in Ops /\ Tail(ops) \in Seq(Ops)
  BY <1>1, <1>2, TypedOps
<1> HIDE DEF o
<1>4. /\ dir' \in [Pins -> Ways] /\ latch' \in [Pins -> Bit]
      /\ slave' \in [Buses -> Slaves]
      /\ After(call, o, Line(call.b), Line(call.b)')
  BY <1>1, <1>2, <1>3, OwnLine
<1>5. Typed'
  BY <1>1, <1>2, <1>3, <1>4 DEF Typed
<1>6. Resting'
  BY <1>1, <1>2 DEF Resting
<1>7. Fresh' /\ OnCourse'
  BY <1>1, <1>2, <1>4, OpStep DEF o
<1>8. OthersFree'
  <2>1. ASSUME ~lost, NEW b \in Buses, b # call.b PROVE Free(b)'
    <3>1. Free(b)
      BY <2>1 DEF Inv, OthersFree
    <3> QED BY <1>1, <1>2, <1>3, <2>1, <3>1, OtherLine
  <2> QED BY <1>1, <1>2, <2>1 DEF OthersFree
<1> QED BY <1>5, <1>6, <1>7, <1>8 DEF Inv

LEMMA LooksInv ==
  ASSUME Inv, SampleBit \/ SampleAck \/ SclIsHigh
  PROVE  Inv'
<1> DEFINE o == Head(ops)
<1>1. /\ ops # <<>> /\ ops' = Tail(ops) /\ UNCHANGED <<bus, call, frames, todo, lost>>
      /\ \/ o.k = "sample" /\ check' = check
         \/ o.k = "check" /\ check' = Level(<<call.b, "sda">>)
         \/ o.k = "wait" /\ Level(<<call.b, "scl">>) = 1 /\ check' = check
  BY DEF SampleBit, SampleAck, SclIsHigh, Do, regs
<1>2. Typed /\ call \in Calls /\ call # None /\ call.b \in Buses
  BY <1>1, Working
<1>3. o \in Ops /\ Tail(ops) \in Seq(Ops)
  BY <1>1, <1>2, TypedOps
<1> HIDE DEF o
<1>4. /\ SdaOf(Line(call.b)) = Level(<<call.b, "sda">>) /\ SdaOf(Line(call.b)) \in Bit
      /\ SclOf(Line(call.b)) = Level(<<call.b, "scl">>)
  BY LineOf, LevBit DEF SdaOf
<1>5. Typed'
  BY <1>1, <1>2, <1>3, <1>4 DEF Typed, bus, pins
<1>6. Line(call.b)' \in Lines
  <2>1. Line(call.b)' = [Line(call.b) EXCEPT !.ck = check']
    BY <1>1 DEF Line, bus, pins
  <2>2. Line(call.b) \in Lines /\ check' \in Bit
    BY <1>2, <1>5, LineTyped DEF Typed
  <2> QED BY <2>1, <2>2 DEF Lines
<1>7. After(call, o, Line(call.b), Line(call.b)')
  <2>1. CASE check' = check
    <3>1. Line(call.b)' = Line(call.b)
      BY <1>1, <2>1, FreeStill
    <3>2. o.k = "sample" \/ (o.k = "wait" /\ SclOf(Line(call.b)) = 1)
          \/ (o.k = "check" /\ check = SdaOf(Line(call.b)))
      BY <1>1, <1>4, <2>1
    <3>3. Line(call.b) = [Line(call.b) EXCEPT !.ck = check]
      BY DEF Line
    <3> QED BY <1>6, <3>1, <3>2, <3>3 DEF After
  <2>2. CASE check' # check
    <3>1. o.k = "check" /\ check' = SdaOf(Line(call.b))
      BY <1>1, <1>4, <2>2
    <3>2. Line(call.b)' = [Line(call.b) EXCEPT !.ck = check']
      BY <1>1 DEF Line, bus, pins
    <3> QED BY <1>6, <3>1, <3>2 DEF After
  <2> QED BY <2>1, <2>2
<1>8. Fresh' /\ OnCourse'
  BY <1>1, <1>2, <1>7, OpStep DEF o
<1>9. Resting' /\ OthersFree'
  BY <1>1, <1>2, FreeStill DEF Inv, Resting, OthersFree
<1> QED BY <1>5, <1>8, <1>9 DEF Inv

LEMMA GiveUpInv ==
  ASSUME Inv, GiveUp
  PROVE  Inv'
<1>1. /\ ops # <<>> /\ ops' = Tail(ops) /\ lost' = TRUE
      /\ UNCHANGED <<bus, call, frames, todo, check>>
  BY DEF GiveUp, Do
<1>2. Typed /\ call # None /\ Tail(ops) \in Seq(Ops)
  BY <1>1, Working, TypedOps
<1>3. Typed'
  BY <1>1, <1>2 DEF Typed, bus, pins
<1>4. Resting' /\ Fresh' /\ OthersFree' /\ OnCourse'
  BY <1>1, <1>2 DEF Inv, Resting, Fresh, OthersFree, OnCourse
<1> QED BY <1>3, <1>4 DEF Inv

LEMMA ReleaseInv ==
  ASSUME Inv, NEW b \in Buses, Release(b)
  PROVE  Inv'
<1> DEFINE t == IF dir[<<b, "scl">>] = Out /\ latch[<<b, "scl">>] = 0 THEN LetGo(slave[b])
                ELSE Rise(LetGo(slave[b]), SdaOf(Line(b)))
<1>1. /\ slave[b].scl = 0 /\ slave' = [slave EXCEPT ![b] = t]
      /\ UNCHANGED <<dir, latch, call, frames, todo, ops, check, lost>>
  BY LineOf DEF Release, Pulls, LetGo, pins, prog, regs
<1>2. Typed /\ slave \in [Buses -> Slaves] /\ slave[b] \in Slaves
  BY DEF Inv, Typed
<1>3. t \in Slaves
  <2>1. SdaOf(Line(b)) \in Bit
    BY LevBit DEF SdaOf
  <2> QED BY <1>2, <2>1, LetGoFields, RiseFields
<1>4. Freed(Line(b), [Line(b) EXCEPT !.s = t])
  BY <1>1, LineOf DEF Freed
<1> HIDE DEF t
<1>5. slave' \in [Buses -> Slaves] /\ slave'[b] = t
      /\ \A d \in Buses : d # b => slave'[d] = slave[d]
  BY <1>1, <1>2, <1>3
<1>6. Typed'
  BY <1>1, <1>2, <1>5 DEF Typed
<1>7. Resting' /\ Fresh'
  BY <1>1 DEF Inv, Resting, Fresh
<1>8. ~Free(b)
  <2>1. Level(<<b, "scl">>) = Lev(dir[<<b, "scl">>], latch[<<b, "scl">>], slave[b].scl)
    BY LevelOf DEF Level
  <2>2. Level(<<b, "scl">>) = 0
    BY <1>1, <2>1 DEF Lev
  <2> QED BY <2>2 DEF Free
<1>9. ~lost => call # None /\ call.b = b
  BY <1>8 DEF Inv, OthersFree
<1>10. OthersFree'
  <2>1. ASSUME NEW d \in Buses, d # b, Free(d) PROVE Free(d)'
    <3>1. slave'[d] = slave[d] /\ dir' = dir /\ latch' = latch
      BY <1>1, <1>5, <2>1
    <3> QED BY <2>1, <3>1 DEF Free, Level
  <2> QED BY <1>1, <1>8, <1>9, <2>1 DEF Inv, OthersFree
<1>11. ASSUME ~lost
       PROVE  \E p, q \in Phases : /\ Outline(call, {Line(call.b)'}, ops, Phase(call, p))
                                   /\ Chain(p, todo, q) /\ Plans(q, frames)
  <2>1. call # None /\ call.b = b
    BY <1>9, <1>11
  <2>2. PICK p \in Phases, q \in Phases :
          /\ Outline(call, {Line(b)}, ops, Phase(call, p))
          /\ Chain(p, todo, q) /\ Plans(q, frames)
    BY <1>11, <2>1 DEF Inv, OnCourse
  <2>3. Line(b)' = [Line(b) EXCEPT !.s = t]
    BY <1>1, <1>5 DEF Line
  <2>4. Line(call.b)' = Line(b)'
    BY <1>1, <2>1
  <2>5. Outline(call, {Line(b)'}, ops, Phase(call, p))
    <3>1. PICK a \in [0 .. Len(ops) -> Asserts] :
            /\ {Line(b)} \subseteq a[0] /\ a[Len(ops)] \subseteq Phase(call, p)
            /\ \A k \in 1 .. Len(ops) : Fits(call, a[k - 1], ops[k], a[k])
      BY <2>2 DEF Outline
    <3>2. a[0] \in Asserts
      BY <1>2, LenProperties DEF Typed
    <3>3. {Line(b)'} \subseteq a[0]
      BY <1>4, <2>3, <3>1, <3>2 DEF Asserts
    <3> QED BY <1>2, <3>1, <3>3 DEF Outline, Typed
  <2> QED BY <2>2, <2>4, <2>5
<1>12. OnCourse'
  BY <1>1, <1>11 DEF OnCourse
<1> QED BY <1>6, <1>7, <1>10, <1>12 DEF Inv

LEMMA NextInv ==
  ASSUME Inv, [Next]_vars
  PROVE  Inv'
<1>1. CASE UNCHANGED vars
  <2>1. UNCHANGED <<bus, call, frames, todo, ops, check, lost>>
    BY <1>1 DEF vars, prog, regs
  <2>2. Typed' /\ Resting' /\ Fresh'
    BY <2>1 DEF Inv, Typed, Resting, Fresh, bus, pins
  <2>3. OthersFree'
    BY <2>1, FreeStill DEF Inv, OthersFree
  <2>4. Line(call.b)' = Line(call.b)
    BY <2>1, FreeStill
  <2>5. OnCourse'
    BY <2>1, <2>4 DEF Inv, OnCourse
  <2> QED BY <2>2, <2>3, <2>5 DEF Inv
<1>2. CASE \E c \in Calls : Begin(c)
  BY <1>2, BeginInv
<1>3. CASE Master
  BY <1>3, NextRoutineInv, RefusedByteInv, NextTransferInv, ReturnInv, PinsInv,
     LooksInv, GiveUpInv DEF Master
<1>4. CASE \E b \in Buses : Release(b)
  BY <1>4, ReleaseInv
<1> QED BY <1>1, <1>2, <1>3, <1>4 DEF Next

LEMMA InvAlways == Spec => []Inv
<1> QED BY InitInv, NextInv, PTL DEF Spec

(***************************************************************************)
(* What the runs check.                                                    *)
(***************************************************************************)
(* Between calls every bus of the port is free, whichever byte was refused *)
(* and however long a slave held scl low, unless the call passed over an   *)
(* error: i2c_nack before i2c_stop, and i2c_stop on every way out.         *)
THEOREM BusesAreReleased == Spec => []BusReleased
<1>1. Inv => BusReleased
  BY DEF Inv, OthersFree, BusReleased
<1> QED BY <1>1, InvAlways, PTL

(* A call on one bus of a port, each of whose writes sets the whole port,  *)
(* drives no pin of another bus and moves neither of its lines.            *)
THEOREM TheOtherBusesAreQuiet == Spec => []OtherBusesQuiet
<1>1. Inv => OtherBusesQuiet
  BY DEF Inv, OthersFree, OtherBusesQuiet
<1> QED BY <1>1, InvAlways, PTL

(* Master and slave drive a line against each other only over sda, and     *)
(* only while scl is low: no bit is read and no START or STOP seen there.  *)
THEOREM FightsAreHarmless == Spec => []FightsOnlyWhileLow
<1>1. ASSUME Inv, ~lost, NEW p \in Pins, Fights(p)
      PROVE  p[2] = "sda" /\ Level(<<p[1], "scl">>) = 0
  <2>1. PICK b \in Buses, w \in {"sda", "scl"} : p = <<b, w>>
    BY DEF Pins
  <2>2. /\ dir[<<b, w>>] = Out /\ latch[<<b, w>>] = 1
        /\ w = "sda" => slave[b].sda = 0
        /\ w = "scl" => slave[b].scl = 0
    BY <1>1, <2>1 DEF Fights
  <2>3. ~Free(b)
    BY <2>2 DEF Free, In, Out
  <2>4. call # None /\ b = call.b
    BY <1>1, <2>3 DEF Inv, OthersFree
  <2>5. Peaceful(Line(b))
    <3>1. PICK q : Outline(call, {Line(b)}, ops, q)
      BY <1>1, <2>4 DEF Inv, OnCourse
    <3>2. PICK A \in Asserts : Line(b) \in A
      BY <3>1, LenProperties DEF Outline
    <3> QED BY <3>2 DEF Asserts
  <2>6. w # "scl" /\ Level(<<b, "scl">>) = 0
    BY <2>2, <2>5, LineOf DEF Peaceful
  <2> QED BY <2>1, <2>6
<1>2. Inv => FightsOnlyWhileLow
  BY <1>1 DEF FightsOnlyWhileLow
<1> QED BY <1>2, InvAlways, PTL

=============================================================================
