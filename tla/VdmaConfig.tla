---------------------------- MODULE VdmaConfig -----------------------------
(***************************************************************************)
(* vdma.c: clearing the display and programming the AXI VDMA engines, one  *)
(* register write or memset a step, against engines that may still be      *)
(* running from before a warm restart.                                     *)
(*                                                                         *)
(* An engine has a channel that writes memory (S2MM) and one that reads it *)
(* (MM2S).  A channel takes its frame addresses and sizes over when its    *)
(* VSIZE register is written while its run bit is set; when the run bit is *)
(* cleared it stops after the frame it is in.  A frame store of a channel  *)
(* is named by its address register, 16 to a page of 32-bit engines.       *)
(***************************************************************************)
EXTENDS Loops

CONSTANTS
  NumEngines,   \* XPAR_XAXIVDMA_NUM_INSTANCES
  Hardware,     \* the builds: functions from engines to [width, stores, s2mm, mm2s]
  Paths         \* the functions that program them: "direct", "config"

Engines == 0 .. NumEngines - 1
Chans == {"S2MM", "MM2S"}

\* How many frame stores a function gives addresses to.
Limit(path, e, width) ==
  IF path = "direct" /\ width = 32 /\ e <= 1 THEN 32 ELSE 3

ASSUME VdmaAssumption ==
  /\ NumEngines \in 1 .. 8 /\ Paths \subseteq {"direct", "config"}
  /\ \A hw \in Hardware : hw \in [Engines ->
       [width : {32, 64}, stores : 1 .. 32, s2mm : BOOLEAN, mm2s : BOOLEAN]]

VARIABLES
  hw,       \* the build
  path,     \* which function main calls after clear_display
  after,    \* the engines with CFG_VDMA_n_AFTER_CLEAR
  eng,      \* eng[e][c]: the registers of a channel, and what it runs with
  todo,     \* the register writes and memsets still to come
  Status    \* "running", then what main sees

vdma_vars == <<hw, path, after, eng, todo, Status>>
build == <<hw, path, after>>

Has(e, c) == IF c = "S2MM" THEN hw[e].s2mm ELSE hw[e].mm2s

\* Values of registers: the address of a buffer, or a size.
V(what, e, i) == [what |-> what, e |-> e, i |-> i]
Buffer(e, i) == V("buffer", e, i)     \* FRAME_BUFFER_e_i, from 1
Size(what, e, c) == V(what, e, IF c = "S2MM" THEN 1 ELSE 2)  \* VDMA_e_W_WIDTH and so on
Garbage == V("garbage", 0, 0)

Unset == [i \in 1 .. 32 |-> Garbage]
Stopped == [run |-> FALSE, page |-> 0, store |-> Unset, stride |-> Garbage,
            hsize |-> Garbage, live |-> <<>>]

\* What a channel should run with.
Wanted(e, c) ==
  <<[i \in 1 .. hw[e].stores |-> Buffer(e, i)], Size("stride", e, c),
    Size("width", e, c), Size("height", e, c)>>

(***************************************************************************)
(* The engine: what a write to a register does.                            *)
(***************************************************************************)
ControlReg(c) == IF c = "S2MM" THEN \h30 ELSE \h00
PageReg(c) == IF c = "S2MM" THEN \h44 ELSE \h14
VsizeReg(c) == IF c = "S2MM" THEN \hA0 ELSE \h50
HsizeReg(c) == IF c = "S2MM" THEN \hA4 ELSE \h54
StrideReg(c) == IF c = "S2MM" THEN \hA8 ELSE \h58
StoreReg(c) == IF c = "S2MM" THEN \hAC ELSE \h5C

IsStore(c, off) == off >= StoreReg(c) /\ off < StoreReg(c) + 64

\* A channel of an engine h with the registers r takes v at off.
Takes(h, c, r, off, v) ==
  LET word == (off - StoreReg(c)) \div 4
      \* 64-bit engines: two words an address, the upper one 0
      store == IF h.width = 32 THEN 16 * r.page + word + 1 ELSE word \div 2 + 1
  IN  CASE off = ControlReg(c) -> [r EXCEPT !.run = (v.i = \h8B)]
        [] off = PageReg(c) /\ h.width = 32 -> [r EXCEPT !.page = v.i]
        [] off = StrideReg(c) -> [r EXCEPT !.stride = v]
        [] off = HsizeReg(c) -> [r EXCEPT !.hsize = v]
        [] off = VsizeReg(c) /\ r.run ->
             [r EXCEPT !.live = <<[i \in 1 .. h.stores |-> r.store[i]],
                                  r.stride, r.hsize, v>>]
        [] IsStore(c, off) /\ (h.width = 32 \/ word % 2 = 0) ->
             [r EXCEPT !.store[store] = v]
        [] OTHER -> r

(***************************************************************************)
(* The program: sequences of register writes, memsets and driver calls.    *)
(***************************************************************************)
W(e, off, v) == <<[k |-> "out", e |-> e, off |-> off, v |-> v]>>
Num(n) == V("number", 0, n)
Memset(e, i) == <<[k |-> "memset", e |-> e, off |-> 0, v |-> Buffer(e, i)]>>
Init1(e) == <<[k |-> "init", e |-> e, off |-> 0, v |-> Num(0)]>>
LeastOf(a, b) == IF a < b THEN a ELSE b

\* A channel: its control register, what its stores are given, its sizes, VSIZE last.
BugStaysStopped(e, c, stores) ==
  W(e, ControlReg(c), Num(\h8A)) \o stores
  \o W(e, StrideReg(c), Size("stride", e, c)) \o W(e, HsizeReg(c), Size("width", e, c))
  \o W(e, VsizeReg(c), Size("height", e, c))
Channel(e, c, stores) ==
  W(e, ControlReg(c), Num(\h8B)) \o stores
  \o W(e, StrideReg(c), Size("stride", e, c)) \o W(e, HsizeReg(c), Size("width", e, c))
  \o W(e, VsizeReg(c), Size("height", e, c))

\* The addresses as engines 0 and 1 get them: the second page from store 17 on,
\* and back to the first after store 32.
BugOnePage(e, c) ==
  ForEach(hw[e].stores, LAMBDA i :
    (IF i = 1 THEN W(e, PageReg(c), Num(0)) ELSE <<>>)
    \o W(e, StoreReg(c) + 4 * ((i - 1) % 16), Buffer(e, i)))
PagedStores(e, c) ==
  ForEach(hw[e].stores, LAMBDA i :
    (IF i = 1 THEN W(e, PageReg(c), Num(0)) ELSE <<>>)
    \o (IF i = 17 THEN W(e, PageReg(c), Num(1)) ELSE <<>>)
    \o W(e, StoreReg(c) + 4 * ((i - 1) % 16), Buffer(e, i))
    \o (IF i = 32 THEN W(e, PageReg(c), Num(0)) ELSE <<>>))

\* As the other engines get them: at most three.
ThreeStores(e, c) ==
  ForEach(LeastOf(3, hw[e].stores),
          LAMBDA i : W(e, StoreReg(c) + 4 * (i - 1), Buffer(e, i)))
WideStores(e, c) ==
  ForEach(LeastOf(3, hw[e].stores), LAMBDA i :
    W(e, StoreReg(c) + 8 * (i - 1), Buffer(e, i))
    \o W(e, StoreReg(c) + 8 * (i - 1) + 4, Num(0)))

S2mmPaged(e) == Channel(e, "S2MM", PagedStores(e, "S2MM"))
Mm2sPaged(e) == Channel(e, "MM2S", PagedStores(e, "MM2S"))
Three(e) ==
  Channel(e, "S2MM", ThreeStores(e, "S2MM")) \o Channel(e, "MM2S", ThreeStores(e, "MM2S"))
Wide(e) ==
  Channel(e, "S2MM", WideStores(e, "S2MM")) \o Channel(e, "MM2S", WideStores(e, "MM2S"))

vdma_config_m32_0 == S2mmPaged(0) \o Mm2sPaged(0)
vdma_config_m32_1 == S2mmPaged(1) \o Mm2sPaged(1)
vdma_config_m32_2 == Three(2)
vdma_config_m32_3 == Three(3)
vdma_config_m32_4 == Three(4)
vdma_config_m32_5 == Three(5)
vdma_config_m32_6 == Three(6)
vdma_config_m32_7 == Three(7)
vdma_config_m64_0 == Wide(0)
vdma_config_m64_1 == Wide(1)
vdma_config_m64_2 == Wide(2)
vdma_config_m64_3 == Wide(3)
vdma_config_m64_4 == Wide(4)
vdma_config_m64_5 == Wide(5)
vdma_config_m64_6 == Wide(6)
vdma_config_m64_7 == Wide(7)

\* The one of an engine that is built in: the width chooses.
ConfigOf(e) ==
  LET narrow == hw[e].width = 32
  IN  CASE e = 0 -> IF narrow THEN vdma_config_m32_0 ELSE vdma_config_m64_0
        [] e = 1 -> IF narrow THEN vdma_config_m32_1 ELSE vdma_config_m64_1
        [] e = 2 -> IF narrow THEN vdma_config_m32_2 ELSE vdma_config_m64_2
        [] e = 3 -> IF narrow THEN vdma_config_m32_3 ELSE vdma_config_m64_3
        [] e = 4 -> IF narrow THEN vdma_config_m32_4 ELSE vdma_config_m64_4
        [] e = 5 -> IF narrow THEN vdma_config_m32_5 ELSE vdma_config_m64_5
        [] e = 6 -> IF narrow THEN vdma_config_m32_6 ELSE vdma_config_m64_6
        [] e = 7 -> IF narrow THEN vdma_config_m32_7 ELSE vdma_config_m64_7

vdma_config_direct == ForEach(NumEngines, LAMBDA n : ConfigOf(n - 1))

\* Addresses come from an array of three.  Only channels the engine has are
\* programmed, and no page register is written.
vdma_reg_cfg(e) ==
  LET wide == hw[e].width = 64
      addr(i) == IF i <= 3 THEN Buffer(e, i) ELSE Garbage
      stores(c) == ForEach(hw[e].stores, LAMBDA i :
        W(e, StoreReg(c) + (IF wide THEN 8 ELSE 4) * (i - 1), addr(i))
        \o (IF wide THEN W(e, StoreReg(c) + 8 * (i - 1) + 4, Num(0)) ELSE <<>>))
  IN  (IF hw[e].s2mm THEN Channel(e, "S2MM", stores("S2MM")) ELSE <<>>)
      \o (IF hw[e].mm2s THEN Channel(e, "MM2S", stores("MM2S")) ELSE <<>>)

\* One engine of vdma_config: made ready, then set.
ReadyAndSet(e) == Init1(e) \o vdma_reg_cfg(e)
vdma_config == ForEach(NumEngines, LAMBDA n : ReadyAndSet(n - 1))

Stop(e, c) == W(e, ControlReg(c), Num(\h8A))
Cleared(e) == ForEach(LeastOf(3, hw[e].stores), LAMBDA i : Memset(e, i))
              \o (IF e \in after THEN ConfigOf(e) ELSE <<>>)

\* Engines 1 to 7: a channel is stopped if the engine has the OTHER channel.
StopCrossed(e) ==
  (IF hw[e].s2mm THEN Stop(e, "MM2S") ELSE <<>>)
  \o (IF hw[e].mm2s THEN Stop(e, "S2MM") ELSE <<>>)
clear_display_1 == StopCrossed(1) \o Cleared(1)
clear_display_2 == StopCrossed(2) \o Cleared(2)
clear_display_3 == StopCrossed(3) \o Cleared(3)
clear_display_4 == StopCrossed(4) \o Cleared(4)
clear_display_5 == StopCrossed(5) \o Cleared(5)
clear_display_6 == StopCrossed(6) \o Cleared(6)
clear_display_7 == StopCrossed(7) \o Cleared(7)
BugStopCrossed == StopCrossed(0) \o Cleared(0)
clear_display_0 ==
  (IF hw[0].s2mm THEN Stop(0, "S2MM") ELSE <<>>)
  \o (IF hw[0].mm2s THEN Stop(0, "MM2S") ELSE <<>>) \o Cleared(0)

clear_display ==
  ForEach(NumEngines, LAMBDA n :
    CASE n = 1 -> clear_display_0 [] n = 2 -> clear_display_1
      [] n = 3 -> clear_display_2 [] n = 4 -> clear_display_3
      [] n = 5 -> clear_display_4 [] n = 6 -> clear_display_5
      [] n = 7 -> clear_display_6 [] n = 8 -> clear_display_7)

(***************************************************************************)
(* Steps.                                                                  *)
(***************************************************************************)
\* An engine comes out of reset stopped, or runs on as programmed before a
\* restart of the processor alone.
Warm(e, c) ==
  [run |-> TRUE, page |-> IF hw[e].stores \in 17 .. 31 THEN 1 ELSE 0,
   live |-> Wanted(e, c), stride |-> Size("stride", e, c),
   hsize |-> Size("width", e, c),
   store |-> [i \in 1 .. 32 |-> IF i <= hw[e].stores THEN Buffer(e, i) ELSE Garbage]]

VdmaInit ==
  /\ hw \in Hardware /\ path \in Paths /\ after \in SUBSET Engines
  /\ \A e \in Engines : hw[e].stores <= Limit(path, e, hw[e].width)
  /\ \E warm \in BOOLEAN :
       eng = [e \in Engines |-> [c \in Chans |->
                IF warm /\ Has(e, c) THEN Warm(e, c) ELSE Stopped]]
  /\ todo = clear_display \o (IF path = "direct" THEN vdma_config_direct ELSE vdma_config)
  /\ Status = "running"

Doing(kind) == todo # <<>> /\ Head(todo).k = kind

Xil_Out32 ==
  /\ Doing("out") /\ todo' = Tail(todo)
  /\ LET w == Head(todo)
     IN  eng' = [eng EXCEPT ![w.e] =
                     [c \in Chans |-> Takes(hw[w.e], c, @[c], w.off, w.v)]]
  /\ UNCHANGED <<build, Status>>

memset ==
  /\ Doing("memset") /\ todo' = Tail(todo)
  /\ UNCHANGED <<build, eng, Status>>

\* The driver's initialisation succeeds, or main stops in an assertion.
vdma_init ==
  /\ Doing("init")
  /\ \/ todo' = Tail(todo) /\ UNCHANGED Status
     \/ todo' = <<>> /\ Status' = "FAILURE"
  /\ UNCHANGED <<build, eng>>

Finish ==
  /\ todo = <<>> /\ Status = "running" /\ Status' = "SUCCESS"
  /\ UNCHANGED <<build, eng, todo>>

\* A channel told to stop ends the frame it was in.
FrameEnds(e, c) ==
  /\ eng[e][c].live # <<>> /\ ~eng[e][c].run
  /\ eng' = [eng EXCEPT ![e][c].live = <<>>]
  /\ UNCHANGED <<build, todo, Status>>

Program == Xil_Out32 \/ memset \/ vdma_init \/ Finish
VdmaNext == Program \/ \E e \in Engines, c \in Chans : FrameEnds(e, c)

VdmaSpec == VdmaInit /\ [][VdmaNext]_vdma_vars /\ WF_vdma_vars(Program)

(***************************************************************************)
(* Properties.                                                             *)
(***************************************************************************)
\* A channel never moves a frame with a mixture of addresses and sizes: each
\* start takes over the addresses of all its frame stores, in its own engine's
\* buffers, and its own sizes (addresses before VSIZE, the page register right).
RunsAsConfigured ==
  \A e \in Engines, c \in Chans :
    Has(e, c) /\ eng[e][c].live # <<>> => eng[e][c].live = Wanted(e, c)

\* No buffer is cleared while a channel of its engine is told to run.  Engines
\* 1 to 7 with one channel are left out: the code asks for the other channel
\* before it stops this one.
ClearedAtRest ==
  Doing("memset") =>
    LET e == Head(todo).e
    IN  e = 0 \/ (hw[e].s2mm /\ hw[e].mm2s) => \A c \in Chans : ~eng[e][c].run

\* Whatever ran before, in the end every channel runs as configured, unless the
\* driver refused.
DisplayStarts ==
  <>[](\/ Status = "FAILURE"
       \/ \A e \in Engines, c \in Chans : Has(e, c) => eng[e][c].live = Wanted(e, c))

=============================================================================
