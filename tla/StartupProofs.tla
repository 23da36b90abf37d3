--------------------------- MODULE StartupProofs ---------------------------
(***************************************************************************)
(* Two parts: the video DMA's set-up (VdmaConfig), for every number of     *)
(* engines, every build and every path, and the start (Startup), for every *)
(* platform, every patience of the wait for an address and every bound of  *)
(* the counts.                                                             *)
(*                                                                         *)
(* The first is a proof outline.  What is left of the program carries, for *)
(* each channel, a set of register states before each of its operations;   *)
(* an operation takes every state of the set before it to the set after    *)
(* it.  An outline is put together as the program is: of one operation, of *)
(* two sequences, of a sequence for each of a loop.                        *)
(***************************************************************************)
EXTENDS Startup, VdmaConfig, FiniteSets, FiniteSetTheorems, SequenceTheorems,
        WellFoundedInduction, TLAPS

(***************************************************************************)
(* Values, operations, registers.                                          *)
(***************************************************************************)
Kinds == {"buffer", "stride", "width", "height", "number", "garbage"}
Val == [what : Kinds, e : Nat, i : Nat]
Op == [k : {"out", "memset", "init"}, e : Engines, off : Nat, v : Val]
Engine == [width : {32, 64}, stores : 1 .. 32, s2mm : BOOLEAN, mm2s : BOOLEAN]

(* Wanted, for an engine h.                                                *)
Right(h, e, c) ==
  <<[i \in 1 .. h.stores |-> Buffer(e, i)], Size("stride", e, c),
    Size("width", e, c), Size("height", e, c)>>

Regs(h, e, c) ==
  [run : BOOLEAN, page : {0, 1}, store : [1 .. 32 -> Val], stride : Val,
   hsize : Val, live : {<<>>, Right(h, e, c)}]

(* At any time: with one page, the page register is right.                 *)
Any(h, e, c) == {r \in Regs(h, e, c) : h.stores <= 16 => r.page = 0}

(* The sets of an outline: the end of a frame stays in them.               *)
Ended(r) == [r EXCEPT !.live = <<>>]
Asserts(h, e, c) ==
  {A \in SUBSET Any(h, e, c) : \A r \in A : Ended(r) \in A}

(* What an operation does to a channel.                                    *)
Does(h, e, c, r, o) ==
  IF o.k = "out" /\ o.e = e THEN Takes(h, c, r, o.off, o.v) ELSE r

(* The engines whose channels are all at rest when a buffer is cleared.    *)
Rests(h, e) == e = 0 \/ (h.s2mm /\ h.mm2s)

Fits(h, e, c, A, o, B) ==
  /\ \A r \in A : Does(h, e, c, r, o) \in B
  /\ o.k = "memset" /\ o.e = e /\ Rests(h, e) => \A r \in A : r.run = FALSE

Outline(h, e, c, P, s, Q) ==
  \E a \in [0 .. Len(s) -> Asserts(h, e, c)] :
    /\ P \subseteq a[0] /\ a[Len(s)] \subseteq Q
    /\ \A k \in 1 .. Len(s) : Fits(h, e, c, a[k - 1], s[k], a[k])

(***************************************************************************)
(* A set of numbers that is not empty has a least element: induction.      *)
(***************************************************************************)
LEMMA Least ==
  ASSUME NEW T \in SUBSET Nat, T # {}
  PROVE  \E m \in T : \A k \in T : m <= k
<1> DEFINE F == {0 .. k : k \in T}
           O == StrictSubsetOrdering(Nat)
<1>1. F \subseteq FiniteSubsetsOf(Nat) /\ F # {}
  <2>1. ASSUME NEW k \in T PROVE 0 .. k \in FiniteSubsetsOf(Nat)
    <3>1. IsFiniteSet(0 .. k)
      BY FS_Interval
    <3>2. 0 .. k \subseteq Nat
      OBVIOUS
    <3> QED BY <3>1, <3>2 DEF FiniteSubsetsOf
  <2> QED BY <2>1
<1>2. PICK x \in F : \A y \in F : ~(<<y, x>> \in O)
  <2>1. IsWellFoundedOn(O, FiniteSubsetsOf(Nat))
    BY FS_StrictSubsetOrderingWellFounded
  <2> HIDE DEF F, O
  <2> QED BY <1>1, <2>1, WFMin
<1>3. PICK m \in T : x = 0 .. m
  OBVIOUS
<1>4. ASSUME NEW k \in T, ~(m <= k) PROVE FALSE
  <2>1. /\ 0 .. k \subseteq 0 .. m /\ 0 .. k # 0 .. m
        /\ 0 .. k \in SUBSET Nat /\ 0 .. m \in SUBSET Nat
    BY <1>4
  <2>2. <<0 .. k, x>> \in O
    BY <1>3, <2>1 DEF StrictSubsetOrdering
  <2> QED BY <1>2, <2>2
<1> QED BY <1>4

(* What is true of 0 and of k + 1 when of k is true of all of 0 .. n; Bad  *)
(* is the set of numbers it is not true of.                                *)
LEMMA Steps ==
  ASSUME NEW n \in Nat, NEW Bad \in SUBSET (0 .. n),
         0 \notin Bad,
         \A k \in 0 .. n - 1 : k \notin Bad => k + 1 \notin Bad
  PROVE  Bad = {}
<1> SUFFICES ASSUME Bad # {} PROVE FALSE
  OBVIOUS
<1>1. PICK m \in Bad : \A k \in Bad : m <= k
  <2>1. Bad \in SUBSET Nat
    OBVIOUS
  <2> QED BY <2>1, Least
<1>2. m \in 1 .. n /\ m - 1 \in 0 .. n - 1 /\ m - 1 \notin Bad
  BY <1>1
<1>3. (m - 1) + 1 = m
  BY <1>2
<1> QED BY <1>1, <1>2, <1>3

(***************************************************************************)
(* InTurn: the sequences of a loop, one turn after the other.              *)
(***************************************************************************)
LEMMA Joined ==
  ASSUME NEW S, NEW n \in Nat, NEW ss \in [1 .. n -> Seq(S)]
  PROVE  \E f \in [0 .. n -> Seq(S)] :
           /\ f[0] = <<>>
           /\ \A i \in 1 .. n : f[i] = f[i - 1] \o ss[i]
           /\ InTurn(ss) = f[n]
<1> DEFINE Up(f, k) == /\ f[0] = <<>>
                       /\ \A i \in 1 .. k : f[i] = f[i - 1] \o ss[i]
           Has2(k) == \E f \in [0 .. k -> Seq(S)] : Up(f, k)
           Bad == {k \in 0 .. n : ~Has2(k)}
<1>1. 0 \notin Bad
  <2> DEFINE f == [i \in 0 .. 0 |-> <<>>]
  <2>1. f \in [0 .. 0 -> Seq(S)] /\ Up(f, 0)
    OBVIOUS
  <2> QED BY <2>1
<1>2. ASSUME NEW k \in 0 .. n - 1, k \notin Bad
      PROVE  k + 1 \notin Bad
  <2>0. k \in 0 .. n /\ k + 1 \in 1 .. n
    OBVIOUS
  <2>1. Has2(k)
    <3> HIDE DEF Has2
    <3> QED BY <1>2, <2>0
  <2>2. PICK f \in [0 .. k -> Seq(S)] : Up(f, k)
    BY <2>1
  <2> DEFINE g == [i \in 0 .. k + 1 |-> IF i <= k THEN f[i] ELSE f[k] \o ss[k + 1]]
  <2>3. f[k] \o ss[k + 1] \in Seq(S)
    BY <2>0, ConcatProperties
  <2>4. g \in [0 .. k + 1 -> Seq(S)]
    BY <2>3
  <2>5. ASSUME NEW i \in 1 .. k + 1 PROVE g[i] = g[i - 1] \o ss[i]
    <3>1. CASE i <= k
      <4>1. i \in 1 .. k /\ i \in 0 .. k + 1 /\ i - 1 \in 0 .. k + 1 /\ i - 1 <= k
        BY <3>1
      <4>2. g[i] = f[i] /\ g[i - 1] = f[i - 1]
        BY <4>1, <3>1
      <4>3. f[i] = f[i - 1] \o ss[i]
        BY <4>1, <2>2
      <4> QED BY <4>2, <4>3
    <3>2. CASE i = k + 1
      <4>1. ~(i <= k) /\ i - 1 = k /\ i \in 0 .. k + 1 /\ k \in 0 .. k + 1
        BY <3>2
      <4>2. g[i] = f[k] \o ss[k + 1] /\ g[i - 1] = f[k]
        BY <4>1
      <4>3. ss[k + 1] = ss[i] /\ g[i - 1] = g[k]
        BY <3>2
      <4>4. g[k] = f[k]
        BY <2>0
      <4> HIDE DEF g
      <4> QED BY <4>2, <4>3, <4>4, Zenon
    <3>3. i <= k \/ i = k + 1
      OBVIOUS
    <3> HIDE DEF g
    <3> QED BY <3>1, <3>2, <3>3, Zenon
  <2>6. g[0] = <<>>
    BY <2>2
  <2>7. Has2(k + 1)
    <3> HIDE DEF g
    <3> QED BY <2>4, <2>5, <2>6
  <2> HIDE DEF Has2
  <2> QED BY <2>7
<1>3. Bad = {}
  <2>1. Bad \in SUBSET (0 .. n)
    OBVIOUS
  <2> HIDE DEF Bad
  <2> QED BY <1>1, <1>2, <2>1, Steps
<1>4. PICK f \in [0 .. n -> Seq(S)] : Up(f, n)
  <2>1. Has2(n)
    <3> HIDE DEF Has2
    <3> QED BY <1>3
  <2> QED BY <2>1
<1> DEFINE Body(h) == [i \in 0 .. n |-> IF i = 0 THEN <<>> ELSE h[i - 1] \o ss[i]]
           h == CHOOSE h : h = Body(h)
<1>5. f = Body(f)
  <2>1. ASSUME NEW i \in 0 .. n PROVE f[i] = Body(f)[i]
    <3>1. CASE i = 0
      BY <3>1, <1>4
    <3>2. CASE i # 0
      <4>1. i \in 1 .. n
        BY <3>2
      <4> QED BY <3>2, <4>1, <1>4
    <3> QED BY <3>1, <3>2
  <2> QED BY <2>1
<1>6. h = Body(h)
  BY <1>5
<1>7. InTurn(ss) = h[n]
  <2>1. Len(ss) = n
    OBVIOUS
  <2> QED BY <2>1 DEF InTurn
<1> DEFINE Off == {k \in 0 .. n : h[k] # f[k]}
<1>8. 0 \notin Off
  BY <1>4, <1>6
<1>9. ASSUME NEW k \in 0 .. n - 1, k \notin Off PROVE k + 1 \notin Off
  <2>1. k + 1 \in 1 .. n /\ k + 1 \in 0 .. n /\ (k + 1) - 1 = k /\ k + 1 # 0 /\ k \in 0 .. n
    OBVIOUS
  <2>2. h[k + 1] = h[k] \o ss[k + 1]
    <3> HIDE DEF h
    <3> QED BY <1>6, <2>1
  <2>3. f[k + 1] = f[k] \o ss[k + 1]
    BY <1>4, <2>1
  <2>4. h[k] = f[k]
    BY <1>9, <2>1
  <2> QED BY <2>2, <2>3, <2>4
<1>10. Off = {}
  <2>1. Off \in SUBSET (0 .. n)
    OBVIOUS
  <2> HIDE DEF Off
  <2> QED BY <1>8, <1>9, <2>1, Steps
<1>11. h[n] = f[n]
  <2>0. n \in 0 .. n
    OBVIOUS
  <2>1. n \in 0 .. n /\ n \notin Off
    <3> HIDE DEF Off
    <3> QED BY <1>10, <2>0
  <2> HIDE DEF h
  <2> QED BY <2>1
<1> QED BY <1>4, <1>7, <1>11

LEMMA InTurnSeq ==
  ASSUME NEW S, NEW n \in Nat, NEW ss \in [1 .. n -> Seq(S)]
  PROVE  InTurn(ss) \in Seq(S)
<1>1. n \in 0 .. n
  OBVIOUS
<1>2. PICK f \in [0 .. n -> Seq(S)] :
        /\ f[0] = <<>>
        /\ \A i \in 1 .. n : f[i] = f[i - 1] \o ss[i]
        /\ InTurn(ss) = f[n]
  BY Joined
<1> QED BY <1>1, <1>2

(***************************************************************************)
(* Outlines.                                                               *)
(***************************************************************************)
LEMMA OfNone ==
  ASSUME NEW h, NEW e, NEW c, NEW P \in Asserts(h, e, c)
  PROVE  Outline(h, e, c, P, <<>>, P)
<1> DEFINE a == [k \in 0 .. 0 |-> P]
<1>1. a \in [0 .. 0 -> Asserts(h, e, c)] /\ a[0] = P /\ Len(<<>>) = 0
  OBVIOUS
<1>2. Len(<<>>) = 0 /\ 1 .. 0 = {}
  OBVIOUS
<1> HIDE DEF a
<1> QED BY <1>1, <1>2 DEF Outline

LEMMA OfLess ==
  ASSUME NEW h, NEW e, NEW c, NEW s, NEW P, NEW Q, NEW P1, NEW Q1,
         Outline(h, e, c, P, s, Q), P1 \subseteq P, Q \subseteq Q1
  PROVE  Outline(h, e, c, P1, s, Q1)
BY DEF Outline

LEMMA OfOne ==
  ASSUME NEW h, NEW e, NEW c, NEW P \in Asserts(h, e, c),
         NEW Q \in Asserts(h, e, c), NEW o, Fits(h, e, c, P, o, Q)
  PROVE  Outline(h, e, c, P, <<o>>, Q)
<1> DEFINE a == [k \in 0 .. 1 |-> IF k = 0 THEN P ELSE Q]
           s == <<o>>
<1>1. a \in [0 .. 1 -> Asserts(h, e, c)] /\ a[0] = P /\ a[1] = Q
  OBVIOUS
<1>2. Len(s) = 1 /\ s[1] = o
  OBVIOUS
<1>3. ASSUME NEW k \in 1 .. Len(s) PROVE Fits(h, e, c, a[k - 1], s[k], a[k])
  <2>1. k = 1 /\ k - 1 = 0
    BY <1>2
  <2> QED BY <1>1, <1>2, <2>1
<1> HIDE DEF a, s
<1>4. Outline(h, e, c, P, s, Q)
  BY <1>1, <1>2, <1>3 DEF Outline
<1> QED BY <1>4 DEF s

LEMMA OfTwo ==
  ASSUME NEW h, NEW e, NEW c, NEW S, NEW s \in Seq(S), NEW t \in Seq(S),
         NEW P, NEW Q, NEW R,
         Outline(h, e, c, P, s, Q), Outline(h, e, c, Q, t, R)
  PROVE  Outline(h, e, c, P, s \o t, R)
<1> DEFINE m == Len(s)
           n == Len(t)
           u == s \o t
<1>1. PICK a \in [0 .. m -> Asserts(h, e, c)] :
        /\ P \subseteq a[0] /\ a[m] \subseteq Q
        /\ \A k \in 1 .. m : Fits(h, e, c, a[k - 1], s[k], a[k])
  BY DEF Outline
<1>2. PICK b \in [0 .. n -> Asserts(h, e, c)] :
        /\ Q \subseteq b[0] /\ b[n] \subseteq R
        /\ \A k \in 1 .. n : Fits(h, e, c, b[k - 1], t[k], b[k])
  BY DEF Outline
<1>3. /\ m \in Nat /\ n \in Nat /\ Len(u) = m + n
      /\ \A k \in 1 .. m : u[k] = s[k]
      /\ \A k \in m + 1 .. m + n : u[k] = t[k - m]
  BY ConcatProperties
<1> DEFINE d == [k \in 0 .. m + n |-> IF k <= m THEN a[k] ELSE b[k - m]]
<1>4. d \in [0 .. m + n -> Asserts(h, e, c)]
  BY <1>3
<1>5. P \subseteq d[0]
  BY <1>1, <1>3
<1>6. d[m + n] \subseteq R
  <2>1. CASE n = 0
    BY <2>1, <1>1, <1>2, <1>3
  <2>2. CASE n # 0
    BY <2>2, <1>2, <1>3
  <2> QED BY <2>1, <2>2
<1>7. ASSUME NEW k \in 1 .. m + n PROVE Fits(h, e, c, d[k - 1], u[k], d[k])
  <2>1. CASE k <= m
    <3>1. k \in 1 .. m /\ k - 1 <= m /\ k - 1 \in 0 .. m + n /\ k \in 0 .. m + n
      BY <2>1, <1>3
    <3>2. d[k] = a[k] /\ d[k - 1] = a[k - 1] /\ u[k] = s[k]
      BY <3>1, <1>3
    <3> HIDE DEF d, u
    <3> QED BY <3>1, <3>2, <1>1
  <2>2. CASE k = m + 1
    <3>1. /\ 1 \in 1 .. n /\ k - m = 1 /\ ~(k <= m) /\ k - 1 = m /\ 1 - 1 = 0
          /\ m \in 0 .. m + n /\ k \in 0 .. m + n /\ k \in m + 1 .. m + n
      BY <2>2, <1>3
    <3>2. d[k] = b[1] /\ d[k - 1] = a[m] /\ u[k] = t[1]
      BY <3>1, <1>3
    <3>3. Fits(h, e, c, b[0], t[1], b[1]) /\ a[m] \subseteq b[0]
      BY <3>1, <1>1, <1>2
    <3> HIDE DEF d, u
    <3>4. Fits(h, e, c, a[m], t[1], b[1])
      BY <3>3 DEF Fits
    <3> QED BY <3>2, <3>4
  <2>3. CASE k > m + 1
    <3>1. /\ k - m \in 1 .. n /\ ~(k <= m) /\ ~(k - 1 <= m)
          /\ (k - 1) - m = (k - m) - 1
          /\ k - 1 \in 0 .. m + n /\ k \in 0 .. m + n /\ k \in m + 1 .. m + n
      BY <2>3, <1>3
    <3>2. d[k] = b[k - m] /\ d[k - 1] = b[(k - m) - 1] /\ u[k] = t[k - m]
      BY <3>1, <1>3
    <3> HIDE DEF d, u
    <3> QED BY <3>1, <3>2, <1>2
  <2> QED BY <2>1, <2>2, <2>3, <1>3
<1> HIDE DEF d, u
<1>8. Outline(h, e, c, P, u, R)
  BY <1>3, <1>4, <1>5, <1>6, <1>7 DEF Outline
<1> QED BY <1>8 DEF u

(* A loop: an assertion before and after each turn.                        *)
LEMMA OfLoop ==
  ASSUME NEW h, NEW e, NEW c, NEW S, NEW n \in Nat, NEW ss \in [1 .. n -> Seq(S)],
         NEW I \in [0 .. n -> Asserts(h, e, c)],
         \A i \in 1 .. n : Outline(h, e, c, I[i - 1], ss[i], I[i])
  PROVE  Outline(h, e, c, I[0], InTurn(ss), I[n])
<1>1. PICK f \in [0 .. n -> Seq(S)] :
        /\ f[0] = <<>>
        /\ \A i \in 1 .. n : f[i] = f[i - 1] \o ss[i]
        /\ InTurn(ss) = f[n]
  BY Joined
<1> DEFINE Bad == {k \in 0 .. n : ~Outline(h, e, c, I[0], f[k], I[k])}
<1>2. 0 \notin Bad
  <2>1. I[0] \in Asserts(h, e, c)
    OBVIOUS
  <2> QED BY <1>1, <2>1, OfNone
<1>3. ASSUME NEW k \in 0 .. n - 1, k \notin Bad PROVE k + 1 \notin Bad
  <2>1. k + 1 \in 1 .. n /\ (k + 1) - 1 = k /\ k \in 0 .. n
    OBVIOUS
  <2>2. Outline(h, e, c, I[0], f[k], I[k])
    BY <1>3, <2>1
  <2>3. Outline(h, e, c, I[k], ss[k + 1], I[k + 1])
    BY <2>1
  <2>4. f[k] \in Seq(S) /\ ss[k + 1] \in Seq(S) /\ f[k + 1] = f[k] \o ss[k + 1]
    BY <1>1, <2>1
  <2>5. Outline(h, e, c, I[0], f[k + 1], I[k + 1])
    BY <2>2, <2>3, <2>4, OfTwo
  <2> QED BY <2>5
<1>4. Bad = {}
  <2>1. Bad \in SUBSET (0 .. n)
    OBVIOUS
  <2> HIDE DEF Bad
  <2> QED BY <1>2, <1>3, <2>1, Steps
<1>5. n \in 0 .. n /\ n \notin Bad
  BY <1>4
<1> QED BY <1>1, <1>5

(* What does not touch the channel.                                        *)
Skips(h, e, c) ==
  {o \in Op : /\ ~(o.k = "memset" /\ o.e = e)
              /\ o.k = "out" /\ o.e = e =>
                   \A r \in Regs(h, e, c) : Takes(h, c, r, o.off, o.v) = r}

LEMMA OfSkips ==
  ASSUME NEW h, NEW e, NEW c, NEW P \in Asserts(h, e, c),
         NEW s \in Seq(Skips(h, e, c))
  PROVE  Outline(h, e, c, P, s, P)
<1> DEFINE a == [k \in 0 .. Len(s) |-> P]
<1>1. ASSUME NEW k \in 1 .. Len(s) PROVE Fits(h, e, c, P, s[k], P)
  <2>1. s[k] \in Skips(h, e, c)
    OBVIOUS
  <2>2. P \subseteq Regs(h, e, c)
    BY DEF Asserts, Any
  <2> QED BY <2>1, <2>2 DEF Fits, Skips, Does
<1>2. a \in [0 .. Len(s) -> Asserts(h, e, c)] /\ a[0] = P /\ a[Len(s)] = P
  OBVIOUS
<1>3. \A k \in 1 .. Len(s) : Fits(h, e, c, a[k - 1], s[k], a[k])
  BY <1>1
<1> QED BY <1>2, <1>3 DEF Outline

(***************************************************************************)
(* The registers of a channel, and writes to them.                         *)
(***************************************************************************)
ItsReg(c, off) ==
  \/ off \in {ControlReg(c), PageReg(c), VsizeReg(c), HsizeReg(c), StrideReg(c)}
  \/ IsStore(c, off)
Writes(e, c) == {o \in Op : o.k = "out" /\ o.e = e /\ ItsReg(c, o.off)}
OfEngine(e) == {o \in Op : o.e = e}

LEMMA RegNumbers ==
  ASSUME NEW c \in Chans
  PROVE  /\ ControlReg(c) \in Nat /\ PageReg(c) \in Nat /\ VsizeReg(c) \in Nat
         /\ HsizeReg(c) \in Nat /\ StrideReg(c) \in Nat /\ StoreReg(c) \in Nat
         /\ ControlReg(c) < PageReg(c) /\ PageReg(c) < VsizeReg(c)
         /\ VsizeReg(c) < HsizeReg(c) /\ HsizeReg(c) < StrideReg(c)
         /\ StrideReg(c) < StoreReg(c)
BY DEF Chans, ControlReg, PageReg, VsizeReg, HsizeReg, StrideReg, StoreReg

LEMMA NotIts ==
  ASSUME NEW h, NEW c \in Chans, NEW d \in Chans, c # d, NEW r, NEW off \in Nat,
         NEW v, ItsReg(d, off)
  PROVE  Takes(h, c, r, off, v) = r
<1>1. /\ off # ControlReg(c) /\ off # PageReg(c) /\ off # VsizeReg(c)
      /\ off # HsizeReg(c) /\ off # StrideReg(c) /\ ~IsStore(c, off)
  BY DEF Chans, ItsReg, ControlReg, PageReg, VsizeReg, HsizeReg, StrideReg,
         StoreReg, IsStore
<1> QED BY <1>1 DEF Takes

LEMMA WritesSkip ==
  ASSUME NEW h, NEW c \in Chans, NEW d \in Chans, NEW e, NEW m,
         e # m \/ c # d
  PROVE  Writes(m, d) \subseteq Skips(h, e, c)
<1> SUFFICES ASSUME NEW o \in Writes(m, d) PROVE o \in Skips(h, e, c)
  OBVIOUS
<1>1. o \in Op /\ o.k = "out" /\ o.e = m /\ ItsReg(d, o.off) /\ o.off \in Nat
  BY DEF Writes, Op
<1>2. CASE e # m
  BY <1>1, <1>2 DEF Skips
<1>3. CASE c # d
  BY <1>1, <1>3, NotIts DEF Skips
<1> QED BY <1>1, <1>2, <1>3

LEMMA OfEngineSkip ==
  ASSUME NEW h, NEW c, NEW e, NEW m, e # m
  PROVE  OfEngine(m) \subseteq Skips(h, e, c)
BY DEF OfEngine, Skips

LEMMA SeqOf ==
  ASSUME NEW S, NEW T, S \subseteq T, NEW s \in Seq(S)
  PROVE  s \in Seq(T)
BY SeqMonotonic

LEMMA WritesOf ==
  ASSUME NEW e \in Engines, NEW c \in Chans, NEW off \in Nat, ItsReg(c, off),
         NEW v \in Val
  PROVE  W(e, off, v) \in Seq(Writes(e, c))
<1>1. [k |-> "out", e |-> e, off |-> off, v |-> v] \in Writes(e, c)
  BY DEF Writes, Op
<1> QED BY <1>1 DEF W

LEMMA ValOK ==
  ASSUME NEW e \in Engines, NEW i \in Nat
  PROVE  /\ Buffer(e, i) \in Val /\ Num(i) \in Val /\ Garbage \in Val
         /\ \A c : /\ Size("stride", e, c) \in Val /\ Size("width", e, c) \in Val
                   /\ Size("height", e, c) \in Val
<1>1. e \in Nat
  BY VdmaAssumption DEF Engines
<1>2. \A w \in Kinds, m \in Nat, j \in Nat : V(w, m, j) \in Val
  BY DEF V, Val
<1>3. \A w \in Kinds : \A c : Size(w, e, c) \in Val
  BY <1>1, <1>2 DEF Size
<1> QED BY <1>1, <1>2, <1>3 DEF Buffer, Num, Garbage, Kinds

(***************************************************************************)
(* The assertions of a channel.                                            *)
(***************************************************************************)
(* Told to stop.                                                           *)
Halted(h, e, c) == {r \in Any(h, e, c) : r.run = FALSE}
(* Running, the first i stores have their buffers, the page is one of p.   *)
Placed(h, e, c, i, p) ==
  {r \in Any(h, e, c) : /\ r.run = TRUE /\ r.page \in p
                        /\ \A j \in 1 .. i : r.store[j] = Buffer(e, j)}
Pages == {0, 1}
Strided(h, e, c) ==
  {r \in Placed(h, e, c, h.stores, Pages) : r.stride = Size("stride", e, c)}
Lined(h, e, c) == {r \in Strided(h, e, c) : r.hsize = Size("width", e, c)}

LEMMA Dead ==
  ASSUME NEW h, NEW e, NEW c, NEW r \in Regs(h, e, c)
  PROVE  /\ Ended(r) \in Regs(h, e, c)
         /\ Ended(r).run = r.run /\ Ended(r).page = r.page
         /\ Ended(r).store = r.store /\ Ended(r).stride = r.stride
         /\ Ended(r).hsize = r.hsize
BY DEF Regs, Ended

LEMMA AssertsOK ==
  ASSUME NEW h, NEW e, NEW c
  PROVE  /\ Any(h, e, c) \in Asserts(h, e, c)
         /\ Halted(h, e, c) \in Asserts(h, e, c)
         /\ \A i, p : Placed(h, e, c, i, p) \in Asserts(h, e, c)
         /\ Strided(h, e, c) \in Asserts(h, e, c)
         /\ Lined(h, e, c) \in Asserts(h, e, c)
<1>1. \A r \in Any(h, e, c) : Ended(r) \in Any(h, e, c)
  BY Dead DEF Any
<1>2. \A r \in Halted(h, e, c) : Ended(r) \in Halted(h, e, c)
  BY Dead, <1>1 DEF Halted, Any
<1>3. \A i, p : \A r \in Placed(h, e, c, i, p) : Ended(r) \in Placed(h, e, c, i, p)
  BY Dead, <1>1 DEF Placed, Any
<1>4. \A r \in Strided(h, e, c) : Ended(r) \in Strided(h, e, c)
  BY Dead, <1>3 DEF Strided, Placed, Any
<1>5. \A r \in Lined(h, e, c) : Ended(r) \in Lined(h, e, c)
  BY Dead, <1>4 DEF Lined, Strided, Placed, Any
<1>6. /\ Halted(h, e, c) \subseteq Any(h, e, c)
      /\ \A i, p : Placed(h, e, c, i, p) \subseteq Any(h, e, c)
      /\ Strided(h, e, c) \subseteq Any(h, e, c)
      /\ Lined(h, e, c) \subseteq Any(h, e, c)
  BY DEF Halted, Placed, Strided, Lined
<1> QED BY <1>1, <1>2, <1>3, <1>4, <1>5, <1>6 DEF Asserts

(***************************************************************************)
(* What each write takes the channel from and to.                          *)
(***************************************************************************)
LEMMA OfWrite ==
  ASSUME NEW h, NEW e \in Engines, NEW c, NEW P \in Asserts(h, e, c),
         NEW Q \in Asserts(h, e, c), NEW off, NEW v,
         \A r \in P : Takes(h, c, r, off, v) \in Q
  PROVE  Outline(h, e, c, P, W(e, off, v), Q)
<1> DEFINE o == [k |-> "out", e |-> e, off |-> off, v |-> v]
<1>1. Fits(h, e, c, P, o, Q)
  BY DEF Fits, Does
<1> QED BY <1>1, OfOne DEF W

LEMMA GivenControl ==
  ASSUME NEW h, NEW c \in Chans, NEW r, NEW v, NEW off, off = ControlReg(c)
  PROVE  Takes(h, c, r, off, v) =
           [r EXCEPT !.run = (v.i = \h8B)]
<1>1. /\ off # PageReg(c) /\ off # StrideReg(c) /\ off # HsizeReg(c)
      /\ off # VsizeReg(c) /\ ~IsStore(c, off)
  BY RegNumbers DEF IsStore
<1> QED BY <1>1 DEF Takes

LEMMA GivenPage ==
  ASSUME NEW h, NEW c \in Chans, NEW r, NEW v, NEW off, off = PageReg(c), h.width = 32
  PROVE  Takes(h, c, r, off, v) =
           [r EXCEPT !.page = v.i]
<1>1. /\ off # ControlReg(c) /\ off # StrideReg(c) /\ off # HsizeReg(c)
      /\ off # VsizeReg(c) /\ ~IsStore(c, off)
  BY RegNumbers DEF IsStore
<1> QED BY <1>1 DEF Takes

LEMMA GivenStride ==
  ASSUME NEW h, NEW c \in Chans, NEW r, NEW v, NEW off, off = StrideReg(c)
  PROVE  Takes(h, c, r, off, v) =
           [r EXCEPT !.stride = v]
<1>1. /\ off # ControlReg(c) /\ off # PageReg(c) /\ off # HsizeReg(c)
      /\ off # VsizeReg(c) /\ ~IsStore(c, off)
  BY RegNumbers DEF IsStore
<1> QED BY <1>1 DEF Takes

LEMMA GivenHsize ==
  ASSUME NEW h, NEW c \in Chans, NEW r, NEW v, NEW off, off = HsizeReg(c)
  PROVE  Takes(h, c, r, off, v) =
           [r EXCEPT !.hsize = v]
<1>1. /\ off # ControlReg(c) /\ off # PageReg(c) /\ off # StrideReg(c)
      /\ off # VsizeReg(c) /\ ~IsStore(c, off)
  BY RegNumbers DEF IsStore
<1> QED BY <1>1 DEF Takes

LEMMA GivenVsize ==
  ASSUME NEW h, NEW c \in Chans, NEW r, NEW v, NEW off, off = VsizeReg(c), r.run
  PROVE  Takes(h, c, r, off, v) =
           [r EXCEPT !.live = <<[i \in 1 .. h.stores |-> r.store[i]],
                             r.stride, r.hsize, v>>]
<1>1. /\ off # ControlReg(c) /\ off # PageReg(c) /\ off # StrideReg(c)
      /\ off # HsizeReg(c) /\ ~IsStore(c, off)
  BY RegNumbers DEF IsStore
<1> QED BY <1>1 DEF Takes

LEMMA NumIs ==
  ASSUME NEW n
  PROVE  Num(n).i = n
BY DEF Num, V

LEMMA TakesRun ==
  ASSUME NEW h, NEW e, NEW c \in Chans, NEW r \in Any(h, e, c), NEW v, v.i = \h8B, NEW q,
         q = Takes(h, c, r, ControlReg(c), v)
  PROVE  q \in Any(h, e, c) /\ q.run = TRUE
<1>1. q = [r EXCEPT !.run = (v.i = \h8B)]
  BY GivenControl
<1>2. q = [r EXCEPT !.run = TRUE]
  BY <1>1
<1> QED BY <1>2 DEF Any, Regs

LEMMA TakesStop ==
  ASSUME NEW h, NEW e, NEW c \in Chans, NEW r \in Any(h, e, c), NEW v, v.i # \h8B, NEW q,
         q = Takes(h, c, r, ControlReg(c), v)
  PROVE  q \in Any(h, e, c) /\ q.run = FALSE
<1>1. q = [r EXCEPT !.run = (v.i = \h8B)]
  BY GivenControl
<1>2. q = [r EXCEPT !.run = FALSE]
  BY <1>1
<1> QED BY <1>2 DEF Any, Regs

LEMMA TakesPage ==
  ASSUME NEW h, h.width = 32, NEW e, NEW c \in Chans, NEW r \in Any(h, e, c),
         NEW v, v.i \in {0, 1}, h.stores <= 16 => v.i = 0,
         NEW q, q = Takes(h, c, r, PageReg(c), v)
  PROVE  q \in Any(h, e, c) /\ q.page = v.i /\ q.run = r.run /\ q.store = r.store
<1>1. q = [r EXCEPT !.page = v.i]
  BY GivenPage
<1> QED BY <1>1 DEF Any, Regs

LEMMA TakesStride ==
  ASSUME NEW h, NEW e, NEW c \in Chans, NEW r \in Any(h, e, c), NEW v \in Val,
         NEW q, q = Takes(h, c, r, StrideReg(c), v)
  PROVE  /\ q \in Any(h, e, c) /\ q.run = r.run /\ q.page = r.page
         /\ q.store = r.store /\ q.stride = v
<1>2. q = [r EXCEPT !.stride = v]
  BY GivenStride
<1> QED BY <1>2 DEF Any, Regs

LEMMA TakesHsize ==
  ASSUME NEW h, NEW e, NEW c \in Chans, NEW r \in Any(h, e, c), NEW v \in Val,
         NEW q, q = Takes(h, c, r, HsizeReg(c), v)
  PROVE  /\ q \in Any(h, e, c) /\ q.run = r.run /\ q.page = r.page
         /\ q.store = r.store /\ q.stride = r.stride /\ q.hsize = v
<1>2. q = [r EXCEPT !.hsize = v]
  BY GivenHsize
<1> QED BY <1>2 DEF Any, Regs

(* VSIZE: the channel takes over what it was given.                        *)
LEMMA TakesVsize ==
  ASSUME NEW h \in Engine, NEW e, NEW c \in Chans, NEW r \in Lined(h, e, c),
         NEW q, q = Takes(h, c, r, VsizeReg(c), Size("height", e, c))
  PROVE  q \in Any(h, e, c)
<1>2. /\ r \in Any(h, e, c) /\ r.run = TRUE /\ r.stride = Size("stride", e, c)
      /\ r.hsize = Size("width", e, c)
      /\ \A j \in 1 .. h.stores : r.store[j] = Buffer(e, j)
  BY DEF Lined, Strided, Placed
<1> DEFINE l == <<[i \in 1 .. h.stores |-> r.store[i]], r.stride, r.hsize,
                  Size("height", e, c)>>
<1>3. q = [r EXCEPT !.live = l]
  BY <1>2, GivenVsize
<1>4. [i \in 1 .. h.stores |-> r.store[i]] = [i \in 1 .. h.stores |-> Buffer(e, i)]
  BY <1>2
<1>5. l = Right(h, e, c)
  BY <1>2, <1>4 DEF Right
<1> HIDE DEF l
<1> QED BY <1>2, <1>3, <1>5 DEF Any, Regs

(* The store an address is for.                                            *)
At(h, c, r, off) ==
  LET w == (off - StoreReg(c)) \div 4
  IN  IF h.width = 32 THEN 16 * r.page + w + 1 ELSE w \div 2 + 1

LEMMA TakesStore ==
  ASSUME NEW h, NEW e, NEW c \in Chans, NEW r \in Any(h, e, c), NEW off \in Nat,
         IsStore(c, off), h.width = 32 \/ ((off - StoreReg(c)) \div 4) % 2 = 0,
         NEW v \in Val, NEW q, q = Takes(h, c, r, off, v)
  PROVE  /\ q \in Any(h, e, c) /\ q.run = r.run /\ q.page = r.page
         /\ q.store = [r.store EXCEPT ![At(h, c, r, off)] = v]
<1>1. /\ off # ControlReg(c) /\ off # PageReg(c) /\ off # StrideReg(c)
      /\ off # HsizeReg(c) /\ off # VsizeReg(c)
  BY RegNumbers DEF IsStore
<1>2. q = [r EXCEPT !.store[At(h, c, r, off)] = v]
  BY <1>1 DEF Takes, At
<1>3. r \in Regs(h, e, c) /\ r.store \in [1 .. 32 -> Val]
  BY DEF Any, Regs
<1>4. [r.store EXCEPT ![At(h, c, r, off)] = v] \in [1 .. 32 -> Val]
  BY <1>3
<1> QED BY <1>2, <1>3, <1>4 DEF Any, Regs

(***************************************************************************)
(* Outlines of a channel's writes.                                         *)
(***************************************************************************)
LEMMA OfStart ==
  ASSUME NEW h, NEW e \in Engines, NEW c \in Chans
  PROVE  Outline(h, e, c, Any(h, e, c), W(e, ControlReg(c), Num(\h8B)),
                 Placed(h, e, c, 0, Pages))
<1>1. \A r \in Any(h, e, c) :
        Takes(h, c, r, ControlReg(c), Num(\h8B)) \in Placed(h, e, c, 0, Pages)
  <2> SUFFICES ASSUME NEW r \in Any(h, e, c),
                      NEW q, q = Takes(h, c, r, ControlReg(c), Num(\h8B))
               PROVE  q \in Placed(h, e, c, 0, Pages)
    OBVIOUS
  <2>1. q \in Any(h, e, c) /\ q.run = TRUE
    BY TakesRun, NumIs
  <2>2. q.page \in Pages
    BY <2>1 DEF Any, Regs, Pages
  <2> QED BY <2>1, <2>2 DEF Placed
<1> QED BY <1>1, AssertsOK, OfWrite

LEMMA OfStop ==
  ASSUME NEW h, NEW e \in Engines, NEW c \in Chans
  PROVE  Outline(h, e, c, Any(h, e, c), Stop(e, c), Halted(h, e, c))
<1>1. \A r \in Any(h, e, c) :
        Takes(h, c, r, ControlReg(c), Num(\h8A)) \in Halted(h, e, c)
  <2> SUFFICES ASSUME NEW r \in Any(h, e, c),
                      NEW q, q = Takes(h, c, r, ControlReg(c), Num(\h8A))
               PROVE  q \in Halted(h, e, c)
    OBVIOUS
  <2>1. q \in Any(h, e, c) /\ q.run = FALSE
    <3>1. Num(\h8A).i # \h8B
      BY NumIs
    <3> HIDE DEF Num
    <3> QED BY <3>1, TakesStop
  <2> QED BY <2>1 DEF Halted
<1> QED BY <1>1, AssertsOK, OfWrite DEF Stop

LEMMA OfPage ==
  ASSUME NEW h, h.width = 32, NEW e \in Engines, NEW c \in Chans, NEW i, NEW p,
         NEW n \in {0, 1}, h.stores <= 16 => n = 0
  PROVE  Outline(h, e, c, Placed(h, e, c, i, p), W(e, PageReg(c), Num(n)),
                 Placed(h, e, c, i, {n}))
<1>1. \A r \in Placed(h, e, c, i, p) :
        Takes(h, c, r, PageReg(c), Num(n)) \in Placed(h, e, c, i, {n})
  <2> SUFFICES ASSUME NEW r \in Placed(h, e, c, i, p),
                      NEW q, q = Takes(h, c, r, PageReg(c), Num(n))
               PROVE  q \in Placed(h, e, c, i, {n})
    OBVIOUS
  <2>1. r \in Any(h, e, c) /\ r.run = TRUE /\ \A j \in 1 .. i : r.store[j] = Buffer(e, j)
    BY DEF Placed
  <2>2. q \in Any(h, e, c) /\ q.page = n /\ q.run = r.run /\ q.store = r.store
    <3>1. Num(n).i = n
      BY NumIs
    <3> DEFINE v == Num(n)
    <3>2. v.i = n
      BY <3>1
    <3> HIDE DEF v
    <3>3. q = Takes(h, c, r, PageReg(c), v)
      BY DEF v
    <3> QED BY <2>1, <3>2, <3>3, TakesPage
  <2> QED BY <2>1, <2>2 DEF Placed
<1> QED BY <1>1, AssertsOK, OfWrite

LEMMA OfStore ==
  ASSUME NEW h \in Engine, NEW e \in Engines, NEW c \in Chans,
         NEW i \in 1 .. h.stores, NEW p, NEW w \in 0 .. 15, NEW off,
         off = StoreReg(c) + 4 * w,
         \A g \in p \cap Pages : (h.stores <= 16 => g = 0) =>
           IF h.width = 32 THEN i = 16 * g + w + 1
           ELSE w % 2 = 0 /\ i = w \div 2 + 1
  PROVE  Outline(h, e, c, Placed(h, e, c, i - 1, p), W(e, off, Buffer(e, i)),
                 Placed(h, e, c, i, p))
<1>1. ASSUME NEW r \in Placed(h, e, c, i - 1, p),
             NEW q, q = Takes(h, c, r, off, Buffer(e, i))
      PROVE  q \in Placed(h, e, c, i, p)
  <2>1. /\ r \in Any(h, e, c) /\ r.run = TRUE /\ r.page \in p
        /\ \A j \in 1 .. i - 1 : r.store[j] = Buffer(e, j)
    BY DEF Placed
  <2>2. r.page \in p \cap Pages /\ (h.stores <= 16 => r.page = 0)
    BY <2>1 DEF Any, Regs, Pages
  <2>3. IF h.width = 32 THEN i = 16 * r.page + w + 1
        ELSE w % 2 = 0 /\ i = w \div 2 + 1
    BY <2>2
  <2>4. Buffer(e, i) \in Val /\ i \in 1 .. 32
    BY ValOK DEF Engine
  <2>5. /\ q \in Any(h, e, c) /\ q.run = r.run /\ q.page = r.page
        /\ q.store = [r.store EXCEPT ![i] = Buffer(e, i)]
    <3>1. /\ off \in Nat /\ IsStore(c, off) /\ (off - StoreReg(c)) \div 4 = w
      <4>1. off \in Nat /\ StoreReg(c) \in Nat /\ off - StoreReg(c) = 4 * w
        BY RegNumbers
      <4>2. (4 * w) \div 4 = w /\ 4 * w \in 0 .. 60
        OBVIOUS
      <4> QED BY <4>1, <4>2 DEF IsStore
    <3>2. h.width = 32 \/ ((off - StoreReg(c)) \div 4) % 2 = 0
      BY <2>3, <3>1
    <3>3. At(h, c, r, off) = i
      BY <2>3, <3>1 DEF At
    <3> DEFINE v == Buffer(e, i)
    <3>4. v \in Val /\ q = Takes(h, c, r, off, v)
      BY <1>1, <2>4
    <3> HIDE DEF v
    <3>5. /\ q \in Any(h, e, c) /\ q.run = r.run /\ q.page = r.page
          /\ q.store = [r.store EXCEPT ![At(h, c, r, off)] = v]
      BY <2>1, <3>1, <3>2, <3>4, TakesStore
    <3> QED BY <3>3, <3>5 DEF v
  <2>6. r.store \in [1 .. 32 -> Val]
    BY <2>1 DEF Any, Regs
  <2>7. ASSUME NEW j \in 1 .. i PROVE q.store[j] = Buffer(e, j)
    BY <2>1, <2>4, <2>5, <2>6
  <2> QED BY <2>1, <2>5, <2>7 DEF Placed
<1>2. \A r \in Placed(h, e, c, i - 1, p) :
        Takes(h, c, r, off, Buffer(e, i)) \in Placed(h, e, c, i, p)
  BY <1>1
<1> QED BY <1>2, AssertsOK, OfWrite

(* The other half of the address of a 64-bit engine.                       *)
LEMMA OfUpperHalf ==
  ASSUME NEW h, h.width = 64, NEW e \in Engines, NEW c \in Chans,
         NEW P \in Asserts(h, e, c), NEW i \in 1 .. 3
  PROVE  Outline(h, e, c, P, W(e, StoreReg(c) + 8 * (i - 1) + 4, Num(0)), P)
<1> DEFINE off == StoreReg(c) + 8 * (i - 1) + 4
<1>1. /\ off # ControlReg(c) /\ off # PageReg(c) /\ off # StrideReg(c)
      /\ off # HsizeReg(c) /\ off # VsizeReg(c)
  BY RegNumbers
<1>2. ((off - StoreReg(c)) \div 4) % 2 = 1
  BY RegNumbers
<1> HIDE DEF off
<1>3. \A r \in P : Takes(h, c, r, off, Num(0)) = r
  BY <1>1, <1>2 DEF Takes
<1>4. Outline(h, e, c, P, W(e, off, Num(0)), P)
  BY <1>3, OfWrite
<1> QED BY <1>4 DEF off

(* The sizes after the stores, VSIZE last.                                 *)
LEMMA OfSizes ==
  ASSUME NEW h \in Engine, NEW e \in Engines, NEW c \in Chans
  PROVE  /\ Outline(h, e, c, Placed(h, e, c, h.stores, Pages),
                    W(e, StrideReg(c), Size("stride", e, c)), Strided(h, e, c))
         /\ Outline(h, e, c, Strided(h, e, c),
                    W(e, HsizeReg(c), Size("width", e, c)), Lined(h, e, c))
         /\ Outline(h, e, c, Lined(h, e, c),
                    W(e, VsizeReg(c), Size("height", e, c)), Any(h, e, c))
<1> DEFINE s == Size("stride", e, c)
           w == Size("width", e, c)
           P == Placed(h, e, c, h.stores, Pages)
<1>0. /\ s \in Val /\ w \in Val /\ Size("height", e, c) \in Val
      /\ StrideReg(c) \in Nat /\ HsizeReg(c) \in Nat /\ VsizeReg(c) \in Nat
      /\ ItsReg(c, StrideReg(c)) /\ ItsReg(c, HsizeReg(c)) /\ ItsReg(c, VsizeReg(c))
  <2>1. 1 \in Nat
    OBVIOUS
  <2> QED BY <2>1, ValOK, RegNumbers DEF ItsReg
<1>1. Outline(h, e, c, P, W(e, StrideReg(c), s), Strided(h, e, c))
  <2>1. ASSUME NEW r \in P, NEW q, q = Takes(h, c, r, StrideReg(c), s)
        PROVE  q \in Strided(h, e, c)
    <3>1. /\ r \in Any(h, e, c) /\ r.run = TRUE /\ r.page \in Pages
          /\ \A j \in 1 .. h.stores : r.store[j] = Buffer(e, j)
      BY DEF Placed
    <3> HIDE DEF s
    <3>2. /\ q \in Any(h, e, c) /\ q.run = r.run /\ q.page = r.page
          /\ q.store = r.store /\ q.stride = s
      BY <1>0, <2>1, <3>1, TakesStride
    <3> QED BY <3>1, <3>2 DEF Strided, Placed, s
  <2> QED BY <2>1, AssertsOK, OfWrite
<1>2. Outline(h, e, c, Strided(h, e, c), W(e, HsizeReg(c), w), Lined(h, e, c))
  <2>1. ASSUME NEW r \in Strided(h, e, c), NEW q, q = Takes(h, c, r, HsizeReg(c), w)
        PROVE  q \in Lined(h, e, c)
    <3>1. /\ r \in Any(h, e, c) /\ r.run = TRUE /\ r.page \in Pages
          /\ \A j \in 1 .. h.stores : r.store[j] = Buffer(e, j)
          /\ r.stride = Size("stride", e, c)
      BY DEF Strided, Placed
    <3> HIDE DEF w
    <3>2. /\ q \in Any(h, e, c) /\ q.run = r.run /\ q.page = r.page
          /\ q.store = r.store /\ q.stride = r.stride /\ q.hsize = w
      BY <1>0, <2>1, <3>1, TakesHsize
    <3> QED BY <3>1, <3>2 DEF Lined, Strided, Placed, w
  <2> QED BY <2>1, AssertsOK, OfWrite
<1>3. Outline(h, e, c, Lined(h, e, c), W(e, VsizeReg(c), Size("height", e, c)),
              Any(h, e, c))
  <2>1. \A r \in Lined(h, e, c) :
          Takes(h, c, r, VsizeReg(c), Size("height", e, c)) \in Any(h, e, c)
    BY TakesVsize
  <2> QED BY <2>1, AssertsOK, OfWrite
<1> QED BY <1>1, <1>2, <1>3

LEMMA ChannelSeq ==
  ASSUME NEW e \in Engines, NEW c \in Chans, NEW stores \in Seq(Writes(e, c))
  PROVE  /\ W(e, ControlReg(c), Num(\h8B)) \in Seq(Writes(e, c))
         /\ W(e, ControlReg(c), Num(\h8A)) \in Seq(Writes(e, c))
         /\ W(e, StrideReg(c), Size("stride", e, c)) \in Seq(Writes(e, c))
         /\ W(e, HsizeReg(c), Size("width", e, c)) \in Seq(Writes(e, c))
         /\ W(e, VsizeReg(c), Size("height", e, c)) \in Seq(Writes(e, c))
         /\ Channel(e, c, stores) \in Seq(Writes(e, c))
<1>1. /\ ControlReg(c) \in Nat /\ StrideReg(c) \in Nat /\ HsizeReg(c) \in Nat
      /\ VsizeReg(c) \in Nat
      /\ ItsReg(c, ControlReg(c)) /\ ItsReg(c, StrideReg(c))
      /\ ItsReg(c, HsizeReg(c)) /\ ItsReg(c, VsizeReg(c))
  BY RegNumbers DEF ItsReg
<1>2. /\ Num(\h8B) \in Val /\ Num(\h8A) \in Val /\ Size("stride", e, c) \in Val
      /\ Size("width", e, c) \in Val /\ Size("height", e, c) \in Val
  <2>1. \h8B \in Nat /\ \h8A \in Nat
    OBVIOUS
  <2> QED BY <2>1, ValOK
<1>3. /\ W(e, ControlReg(c), Num(\h8B)) \in Seq(Writes(e, c))
      /\ W(e, ControlReg(c), Num(\h8A)) \in Seq(Writes(e, c))
      /\ W(e, StrideReg(c), Size("stride", e, c)) \in Seq(Writes(e, c))
      /\ W(e, HsizeReg(c), Size("width", e, c)) \in Seq(Writes(e, c))
      /\ W(e, VsizeReg(c), Size("height", e, c)) \in Seq(Writes(e, c))
  BY <1>1, <1>2, WritesOf
<1> QED BY <1>3, ConcatProperties DEF Channel

LEMMA OfChannel ==
  ASSUME NEW h \in Engine, NEW e \in Engines, NEW c \in Chans,
         NEW stores \in Seq(Writes(e, c)),
         Outline(h, e, c, Placed(h, e, c, 0, Pages), stores,
                 Placed(h, e, c, h.stores, Pages))
  PROVE  Outline(h, e, c, Any(h, e, c), Channel(e, c, stores), Any(h, e, c))
<1> DEFINE S == Writes(e, c)
           w1 == W(e, ControlReg(c), Num(\h8B))
           w2 == W(e, StrideReg(c), Size("stride", e, c))
           w3 == W(e, HsizeReg(c), Size("width", e, c))
           w4 == W(e, VsizeReg(c), Size("height", e, c))
<1>1. w1 \in Seq(S) /\ w2 \in Seq(S) /\ w3 \in Seq(S) /\ w4 \in Seq(S)
  BY ChannelSeq
<1>2. Outline(h, e, c, Any(h, e, c), w1, Placed(h, e, c, 0, Pages))
  BY OfStart
<1>3. /\ Outline(h, e, c, Placed(h, e, c, h.stores, Pages), w2, Strided(h, e, c))
      /\ Outline(h, e, c, Strided(h, e, c), w3, Lined(h, e, c))
      /\ Outline(h, e, c, Lined(h, e, c), w4, Any(h, e, c))
  BY OfSizes
<1>4. Channel(e, c, stores) = (((w1 \o stores) \o w2) \o w3) \o w4
  BY DEF Channel
<1> HIDE DEF w1, w2, w3, w4, S
<1>5. /\ w1 \o stores \in Seq(S) /\ (w1 \o stores) \o w2 \in Seq(S)
      /\ ((w1 \o stores) \o w2) \o w3 \in Seq(S)
  BY <1>1, ConcatProperties DEF S
<1>6. Outline(h, e, c, Any(h, e, c), w1 \o stores, Placed(h, e, c, h.stores, Pages))
  BY <1>1, <1>2, OfTwo DEF S
<1>7. Outline(h, e, c, Any(h, e, c), (w1 \o stores) \o w2, Strided(h, e, c))
  BY <1>1, <1>3, <1>5, <1>6, OfTwo
<1>8. Outline(h, e, c, Any(h, e, c), ((w1 \o stores) \o w2) \o w3, Lined(h, e, c))
  BY <1>1, <1>3, <1>5, <1>7, OfTwo
<1>9. Outline(h, e, c, Any(h, e, c), (((w1 \o stores) \o w2) \o w3) \o w4, Any(h, e, c))
  BY <1>1, <1>3, <1>5, <1>8, OfTwo
<1> QED BY <1>4, <1>9

(***************************************************************************)
(* The stores, as each function gives them their buffers.                  *)
(***************************************************************************)
LEMMA StoreOffs ==
  ASSUME NEW c \in Chans, NEW i \in 1 .. 32
  PROVE  /\ StoreReg(c) + 4 * ((i - 1) % 16) \in Nat
         /\ ItsReg(c, StoreReg(c) + 4 * ((i - 1) % 16))
         /\ i <= 16 => /\ StoreReg(c) + 4 * (i - 1) \in Nat
                       /\ ItsReg(c, StoreReg(c) + 4 * (i - 1))
         /\ i <= 8 => /\ StoreReg(c) + 8 * (i - 1) \in Nat
                      /\ ItsReg(c, StoreReg(c) + 8 * (i - 1))
                      /\ StoreReg(c) + 8 * (i - 1) + 4 \in Nat
                      /\ ItsReg(c, StoreReg(c) + 8 * (i - 1) + 4)
<1>1. StoreReg(c) \in Nat
  BY RegNumbers
<1>2. (i - 1) % 16 \in 0 .. 15
  OBVIOUS
<1>3. \A j \in 0 .. 15 : StoreReg(c) + 4 * j \in Nat /\ IsStore(c, StoreReg(c) + 4 * j)
  BY <1>1 DEF IsStore
<1>4. \A j \in 0 .. 7 : /\ StoreReg(c) + 8 * j \in Nat /\ IsStore(c, StoreReg(c) + 8 * j)
                        /\ StoreReg(c) + 8 * j + 4 \in Nat
                        /\ IsStore(c, StoreReg(c) + 8 * j + 4)
  BY <1>1 DEF IsStore
<1>5. i <= 16 => i - 1 \in 0 .. 15
  OBVIOUS
<1>6. i <= 8 => i - 1 \in 0 .. 7
  OBVIOUS
<1> QED BY <1>2, <1>3, <1>4, <1>5, <1>6 DEF ItsReg

(* Engines 0 and 1: two pages.                                             *)
LEMMA OfPaged ==
  ASSUME NEW e \in Engines, NEW c \in Chans, NEW h \in Engine, hw[e] = h
  PROVE  /\ PagedStores(e, c) \in Seq(Writes(e, c))
         /\ h.width = 32 =>
              Outline(h, e, c, Placed(h, e, c, 0, Pages), PagedStores(e, c),
                      Placed(h, e, c, h.stores, Pages))
<1> DEFINE n == h.stores
           A(i) == IF i = 1 THEN W(e, PageReg(c), Num(0)) ELSE <<>>
           B(i) == IF i = 17 THEN W(e, PageReg(c), Num(1)) ELSE <<>>
           D(i) == W(e, StoreReg(c) + 4 * ((i - 1) % 16), Buffer(e, i))
           G(i) == IF i = 32 THEN W(e, PageReg(c), Num(0)) ELSE <<>>
           ss == [i \in 1 .. n |-> ((A(i) \o B(i)) \o D(i)) \o G(i)]
           S == Writes(e, c)
<1>0. n \in 1 .. 32 /\ n \in Nat
  BY DEF Engine
<1>1. PagedStores(e, c) = InTurn(ss)
  BY DEF PagedStores, ForEach
<1>2. \A i \in 1 .. n : A(i) \in Seq(S) /\ B(i) \in Seq(S) /\ D(i) \in Seq(S) /\ G(i) \in Seq(S)
  <2>1. PageReg(c) \in Nat /\ ItsReg(c, PageReg(c))
    BY RegNumbers DEF ItsReg
  <2>2. W(e, PageReg(c), Num(0)) \in Seq(S) /\ W(e, PageReg(c), Num(1)) \in Seq(S)
    BY <2>1, ValOK, WritesOf
  <2>3. <<>> \in Seq(S)
    OBVIOUS
  <2>4. ASSUME NEW i \in 1 .. n PROVE D(i) \in Seq(S)
    <3>1. i \in 1 .. 32 /\ i \in Nat
      BY <1>0
    <3>2. Buffer(e, i) \in Val
      BY <3>1, ValOK
    <3>3. /\ StoreReg(c) + 4 * ((i - 1) % 16) \in Nat
          /\ ItsReg(c, StoreReg(c) + 4 * ((i - 1) % 16))
      BY <3>1, StoreOffs
    <3> QED BY <3>2, <3>3, WritesOf
  <2> QED BY <2>2, <2>3, <2>4
<1> HIDE DEF A, B, D, G, n, S
<1>3. ss \in [1 .. n -> Seq(S)]
  BY <1>2, ConcatProperties
<1>4. InTurn(ss) \in Seq(S)
  BY <1>0, <1>3, InTurnSeq
<1>5. ASSUME h.width = 32
      PROVE  Outline(h, e, c, Placed(h, e, c, 0, Pages), PagedStores(e, c),
                     Placed(h, e, c, h.stores, Pages))
  <2> DEFINE Page(i) == IF i = 0 THEN Pages ELSE IF i \in 17 .. 31 THEN {1} ELSE {0}
             Now(i) == IF i = 1 THEN {0} ELSE IF i \in 17 .. 32 THEN {1} ELSE {0}
             Was(i) == IF i = 1 THEN {0} ELSE Page(i - 1)
             I == [i \in 0 .. n |-> Placed(h, e, c, i, Page(i))]
  <2>1. I \in [0 .. n -> Asserts(h, e, c)]
    BY AssertsOK
  <2>2. ASSUME NEW i \in 1 .. n PROVE Outline(h, e, c, I[i - 1], ss[i], I[i])
    <3>0. i \in 1 .. 32 /\ i \in Nat /\ i <= n /\ i - 1 \in 0 .. n /\ i \in 0 .. n
      BY <1>0
    <3>1. Outline(h, e, c, Placed(h, e, c, i - 1, Page(i - 1)), A(i),
                  Placed(h, e, c, i - 1, Was(i)))
      <4>1. CASE i = 1
        <5>1. A(i) = W(e, PageReg(c), Num(0)) /\ Was(i) = {0}
          BY <4>1 DEF A
        <5>2. Outline(h, e, c, Placed(h, e, c, i - 1, Page(i - 1)),
                      W(e, PageReg(c), Num(0)), Placed(h, e, c, i - 1, {0}))
          BY <1>5, OfPage
        <5> QED BY <5>1, <5>2
      <4>2. CASE i # 1
        <5>1. A(i) = <<>> /\ Was(i) = Page(i - 1)
          BY <4>2 DEF A
        <5>2. Placed(h, e, c, i - 1, Page(i - 1)) \in Asserts(h, e, c)
          BY AssertsOK
        <5> HIDE DEF Page, Was
        <5> QED BY <5>1, <5>2, OfNone
      <4> QED BY <4>1, <4>2
    <3>2. Outline(h, e, c, Placed(h, e, c, i - 1, Was(i)), B(i),
                  Placed(h, e, c, i - 1, Now(i)))
      <4>1. CASE i = 17
        <5>1. B(i) = W(e, PageReg(c), Num(1)) /\ Now(i) = {1}
          BY <4>1 DEF B
        <5>2. h.stores <= 16 => 1 = 0
          BY <4>1, <3>0, <1>0 DEF n
        <5>3. Outline(h, e, c, Placed(h, e, c, i - 1, Was(i)),
                      W(e, PageReg(c), Num(1)), Placed(h, e, c, i - 1, {1}))
          <6> HIDE DEF Was, Now
          <6> QED BY <1>5, <5>2, OfPage
        <5> QED BY <5>1, <5>3
      <4>2. CASE i # 17
        <5>1. B(i) = <<>>
          BY <4>2 DEF B
        <5>2. Now(i) = Was(i)
          BY <4>2, <3>0
        <5>3. Placed(h, e, c, i - 1, Was(i)) \in Asserts(h, e, c)
          BY AssertsOK
        <5> HIDE DEF Was, Now
        <5> QED BY <5>1, <5>2, <5>3, OfNone
      <4> QED BY <4>1, <4>2
    <3>3. Outline(h, e, c, Placed(h, e, c, i - 1, Now(i)), D(i),
                  Placed(h, e, c, i, Now(i)))
      <4> DEFINE w == (i - 1) % 16
                 off == StoreReg(c) + 4 * w
      <4>1. w \in 0 .. 15
        OBVIOUS
      <4>2. \A g \in Now(i) \cap Pages : i = 16 * g + w + 1
        <5>1. CASE i <= 16
          <6>1. w = i - 1 /\ Now(i) = {0}
            BY <5>1, <3>0
          <6> QED BY <6>1
        <5>2. CASE i > 16
          <6>1. w = i - 17 /\ Now(i) = {1}
            BY <5>2, <3>0
          <6> QED BY <6>1
        <5> QED BY <5>1, <5>2, <3>0
      <4>3. i \in 1 .. h.stores
        BY DEF n
      <4>4. D(i) = W(e, off, Buffer(e, i)) /\ off = StoreReg(c) + 4 * w
        BY DEF D
      <4> HIDE DEF w, off, Now
      <4>5. \A g \in Now(i) \cap Pages : (h.stores <= 16 => g = 0) =>
              IF h.width = 32 THEN i = 16 * g + w + 1
              ELSE w % 2 = 0 /\ i = w \div 2 + 1
        BY <1>5, <4>2
      <4> QED BY <4>1, <4>3, <4>4, <4>5, OfStore
    <3>4. Outline(h, e, c, Placed(h, e, c, i, Now(i)), G(i),
                  Placed(h, e, c, i, Page(i)))
      <4>1. CASE i = 32
        <5>1. G(i) = W(e, PageReg(c), Num(0)) /\ Page(i) = {0}
          BY <4>1 DEF G
        <5>2. Outline(h, e, c, Placed(h, e, c, i, Now(i)),
                      W(e, PageReg(c), Num(0)), Placed(h, e, c, i, {0}))
          <6> HIDE DEF Now
          <6> QED BY <1>5, OfPage
        <5> QED BY <5>1, <5>2
      <4>2. CASE i # 32
        <5>1. G(i) = <<>>
          BY <4>2 DEF G
        <5>2. Page(i) = Now(i)
          BY <4>2, <3>0
        <5>3. Placed(h, e, c, i, Now(i)) \in Asserts(h, e, c)
          BY AssertsOK
        <5> HIDE DEF Page, Now
        <5> QED BY <5>1, <5>2, <5>3, OfNone
      <4> QED BY <4>1, <4>2
    <3>5. /\ A(i) \in Seq(S) /\ B(i) \in Seq(S) /\ D(i) \in Seq(S) /\ G(i) \in Seq(S)
          /\ A(i) \o B(i) \in Seq(S) /\ (A(i) \o B(i)) \o D(i) \in Seq(S)
      BY <1>2, ConcatProperties
    <3>6. ss[i] = ((A(i) \o B(i)) \o D(i)) \o G(i)
      OBVIOUS
    <3>7. /\ I[i - 1] = Placed(h, e, c, i - 1, Page(i - 1))
          /\ I[i] = Placed(h, e, c, i, Page(i))
      BY <3>0
    <3> HIDE DEF ss, I, Page, Now, Was
    <3>8. Outline(h, e, c, Placed(h, e, c, i - 1, Page(i - 1)), A(i) \o B(i),
                  Placed(h, e, c, i - 1, Now(i)))
      BY <3>1, <3>2, <3>5, OfTwo
    <3>9. Outline(h, e, c, Placed(h, e, c, i - 1, Page(i - 1)),
                  (A(i) \o B(i)) \o D(i), Placed(h, e, c, i, Now(i)))
      BY <3>3, <3>5, <3>8, OfTwo
    <3>10. Outline(h, e, c, Placed(h, e, c, i - 1, Page(i - 1)),
                   ((A(i) \o B(i)) \o D(i)) \o G(i), Placed(h, e, c, i, Page(i)))
      BY <3>4, <3>5, <3>9, OfTwo
    <3> QED BY <3>6, <3>7, <3>10
  <2>3. Outline(h, e, c, I[0], InTurn(ss), I[n])
    BY <1>0, <1>3, <2>1, <2>2, OfLoop
  <2>4. I[0] = Placed(h, e, c, 0, Pages) /\ I[n] = Placed(h, e, c, n, Page(n))
    BY <1>0
  <2>5. Page(n) \subseteq Pages
    BY DEF Pages
  <2> HIDE DEF I, Page
  <2>6. Placed(h, e, c, n, Page(n)) \subseteq Placed(h, e, c, n, Pages)
    BY <2>5 DEF Placed
  <2> QED BY <1>1, <2>3, <2>4, <2>6, OfLess DEF n
<1> QED BY <1>1, <1>4, <1>5 DEF S

(* The other functions: up to three, an address each, of two words in a    *)
(* 64-bit engine.                                                          *)
Flat(h, e, c, i) ==
  IF h.width = 64
  THEN W(e, StoreReg(c) + 8 * (i - 1), Buffer(e, i))
       \o W(e, StoreReg(c) + 8 * (i - 1) + 4, Num(0))
  ELSE W(e, StoreReg(c) + 4 * (i - 1), Buffer(e, i))

LEMMA OfFlat ==
  ASSUME NEW h \in Engine, h.stores <= 3, NEW e \in Engines, NEW c \in Chans,
         NEW n, n = h.stores
  PROVE  LET s == InTurn([i \in 1 .. n |-> Flat(h, e, c, i)])
         IN  /\ s \in Seq(Writes(e, c))
             /\ Outline(h, e, c, Placed(h, e, c, 0, Pages), s,
                        Placed(h, e, c, n, Pages))
<1> DEFINE ss == [i \in 1 .. n |-> Flat(h, e, c, i)]
           S == Writes(e, c)
           A(i) == W(e, StoreReg(c) + 8 * (i - 1), Buffer(e, i))
           B(i) == W(e, StoreReg(c) + 8 * (i - 1) + 4, Num(0))
           D(i) == W(e, StoreReg(c) + 4 * (i - 1), Buffer(e, i))
           I == [i \in 0 .. n |-> Placed(h, e, c, i, Pages)]
<1>1. n \in 1 .. 3 /\ n \in Nat /\ h.width \in {32, 64}
  <2>1. h.stores \in 1 .. 32 /\ h.width \in {32, 64}
    BY DEF Engine
  <2> QED BY <2>1
<1>2. ASSUME NEW i \in 1 .. n
      PROVE  A(i) \in Seq(S) /\ B(i) \in Seq(S) /\ D(i) \in Seq(S)
  <2>1. i \in 1 .. 32 /\ i \in Nat /\ i <= 16 /\ i <= 8
    BY <1>1
  <2>2. Buffer(e, i) \in Val /\ Num(0) \in Val
    BY <2>1, ValOK
  <2> QED BY <2>1, <2>2, StoreOffs, WritesOf
<1>3. ASSUME NEW i \in 1 .. n
      PROVE  Flat(h, e, c, i) \in Seq(S)
  <2> HIDE DEF A, B, D, S
  <2>1. A(i) \o B(i) \in Seq(S)
    BY <1>2, ConcatProperties
  <2> QED BY <1>2, <2>1 DEF Flat, A, B, D
<1>4. ss \in [1 .. n -> Seq(S)]
  BY <1>3
<1>5. I \in [0 .. n -> Asserts(h, e, c)]
  BY AssertsOK
<1>6. ASSUME NEW i \in 1 .. n PROVE Outline(h, e, c, I[i - 1], ss[i], I[i])
  <2>1. i \in 1 .. 3 /\ i \in 1 .. h.stores /\ i - 1 \in 0 .. n /\ i \in 0 .. n
    BY <1>1
  <2>2. /\ I[i - 1] = Placed(h, e, c, i - 1, Pages)
        /\ I[i] = Placed(h, e, c, i, Pages)
    BY <2>1
  <2>3. ss[i] = Flat(h, e, c, i)
    OBVIOUS
  <2>4. CASE h.width = 64
    <3> DEFINE w == 2 * (i - 1)
    <3>1. w \in 0 .. 15 /\ w % 2 = 0 /\ i = w \div 2 + 1
      BY <2>1
    <3>2. StoreReg(c) + 8 * (i - 1) = StoreReg(c) + 4 * w
      BY <2>1, RegNumbers
    <3> HIDE DEF w, I
    <3>3. \A g \in Pages \cap Pages : (h.stores <= 16 => g = 0) =>
            IF h.width = 32 THEN i = 16 * g + w + 1
            ELSE w % 2 = 0 /\ i = w \div 2 + 1
      BY <2>4, <3>1
    <3>4. Outline(h, e, c, Placed(h, e, c, i - 1, Pages), A(i),
                  Placed(h, e, c, i, Pages))
      BY <2>1, <3>1, <3>2, <3>3, OfStore
    <3>5. Outline(h, e, c, Placed(h, e, c, i, Pages), B(i),
                  Placed(h, e, c, i, Pages))
      BY <2>1, <2>4, AssertsOK, OfUpperHalf
    <3> HIDE DEF A, B, S
    <3>6. Outline(h, e, c, Placed(h, e, c, i - 1, Pages), A(i) \o B(i),
                  Placed(h, e, c, i, Pages))
      BY <1>2, <3>4, <3>5, OfTwo
    <3> QED BY <2>2, <2>3, <2>4, <3>6 DEF Flat, A, B
  <2>5. CASE h.width = 32
    <3> DEFINE w == i - 1
    <3>1. w \in 0 .. 15 /\ i = 16 * 0 + w + 1 /\ h.stores <= 16
      BY <2>1, <1>1
    <3>2. StoreReg(c) + 4 * (i - 1) = StoreReg(c) + 4 * w
      OBVIOUS
    <3> HIDE DEF w, I
    <3>3. \A g \in Pages \cap Pages : (h.stores <= 16 => g = 0) =>
            IF h.width = 32 THEN i = 16 * g + w + 1
            ELSE w % 2 = 0 /\ i = w \div 2 + 1
      BY <2>5, <3>1
    <3>4. Outline(h, e, c, Placed(h, e, c, i - 1, Pages), D(i),
                  Placed(h, e, c, i, Pages))
      BY <2>1, <3>1, <3>2, <3>3, OfStore
    <3> QED BY <2>2, <2>3, <2>5, <3>4 DEF Flat, D
  <2> QED BY <1>1, <2>4, <2>5
<1>7. InTurn(ss) \in Seq(S)
  BY <1>1, <1>4, InTurnSeq
<1>8. I[0] = Placed(h, e, c, 0, Pages) /\ I[n] = Placed(h, e, c, n, Pages)
  BY <1>1
<1> HIDE DEF I, S, ss
<1>9. Outline(h, e, c, I[0], InTurn(ss), I[n])
  <2>1. \A i \in 1 .. n : Outline(h, e, c, I[i - 1], ss[i], I[i])
    BY <1>6
  <2>2. n \in Nat
    BY <1>1
  <2>3. ASSUME NEW U, ss \in [1 .. n -> Seq(U)]
        PROVE  Outline(h, e, c, I[0], InTurn(ss), I[n])
    BY <1>5, <2>1, <2>2, <2>3, OfLoop
  <2> QED BY <1>4, <2>3
<1> QED BY <1>7, <1>8, <1>9 DEF S, ss

LEMMA OfThree ==
  ASSUME NEW e \in Engines, NEW c \in Chans, NEW h \in Engine, hw[e] = h,
         h.stores <= 3, h.width = 32
  PROVE  /\ ThreeStores(e, c) \in Seq(Writes(e, c))
         /\ Outline(h, e, c, Placed(h, e, c, 0, Pages), ThreeStores(e, c),
                    Placed(h, e, c, h.stores, Pages))
<1> DEFINE ss == [i \in 1 .. h.stores |-> Flat(h, e, c, i)]
<1>1. h.stores \in 1 .. 3 /\ LeastOf(3, h.stores) = h.stores
  BY DEF Engine, LeastOf
<1>2. ThreeStores(e, c) = InTurn(ss)
  BY <1>1 DEF ThreeStores, ForEach, Flat
<1> HIDE DEF ss
<1> QED BY <1>2, OfFlat DEF ss

LEMMA OfWide ==
  ASSUME NEW e \in Engines, NEW c \in Chans, NEW h \in Engine, hw[e] = h,
         h.stores <= 3, h.width = 64
  PROVE  /\ WideStores(e, c) \in Seq(Writes(e, c))
         /\ Outline(h, e, c, Placed(h, e, c, 0, Pages), WideStores(e, c),
                    Placed(h, e, c, h.stores, Pages))
<1> DEFINE ss == [i \in 1 .. h.stores |-> Flat(h, e, c, i)]
<1>1. h.stores \in 1 .. 3 /\ LeastOf(3, h.stores) = h.stores
  BY DEF Engine, LeastOf
<1>2. WideStores(e, c) = InTurn(ss)
  BY <1>1 DEF WideStores, ForEach, Flat
<1> HIDE DEF ss
<1> QED BY <1>2, OfFlat DEF ss

(***************************************************************************)
(* An engine: both channels.                                               *)
(***************************************************************************)
LEMMA WritesOfEngine ==
  ASSUME NEW e, NEW c
  PROVE  Writes(e, c) \subseteq OfEngine(e)
BY DEF Writes, OfEngine

LEMMA OfBoth ==
  ASSUME NEW e \in Engines, NEW h \in Engine,
         NEW s \in [Chans -> UNION {Seq(Writes(e, d)) : d \in Chans}],
         \A d \in Chans :
           /\ s[d] \in Seq(Writes(e, d))
           /\ Outline(h, e, d, Placed(h, e, d, 0, Pages), s[d],
                      Placed(h, e, d, h.stores, Pages)),
         NEW b \in [Chans -> BOOLEAN], NEW t \in [Chans -> Seq(OfEngine(e))],
         \A d \in Chans : t[d] = IF b[d] THEN Channel(e, d, s[d]) ELSE <<>>
  PROVE  /\ t["S2MM"] \o t["MM2S"] \in Seq(OfEngine(e))
         /\ \A c \in Chans : Outline(h, e, c, Any(h, e, c), t["S2MM"] \o t["MM2S"],
                                     Any(h, e, c))
<1>1. "S2MM" \in Chans /\ "MM2S" \in Chans
  BY DEF Chans
<1>2. t["S2MM"] \in Seq(OfEngine(e)) /\ t["MM2S"] \in Seq(OfEngine(e))
  BY <1>1
<1>3. t["S2MM"] \o t["MM2S"] \in Seq(OfEngine(e))
  BY <1>2, ConcatProperties
<1>4. ASSUME NEW c \in Chans, NEW d \in Chans
      PROVE  Outline(h, e, c, Any(h, e, c), t[d], Any(h, e, c))
  <2>0. Any(h, e, c) \in Asserts(h, e, c)
    BY AssertsOK
  <2>1. CASE ~b[d]
    <3>1. t[d] = <<>>
      BY <2>1
    <3> QED BY <2>0, <3>1, OfNone
  <2>2. CASE b[d] /\ c = d
    <3>1. t[d] = Channel(e, c, s[c])
      BY <2>2
    <3> QED BY <2>2, <3>1, OfChannel
  <2>3. CASE b[d] /\ c # d
    <3>1. t[d] = Channel(e, d, s[d]) /\ s[d] \in Seq(Writes(e, d))
      BY <2>3
    <3>2. t[d] \in Seq(Writes(e, d))
      BY <3>1, ChannelSeq
    <3>3. Writes(e, d) \subseteq Skips(h, e, c)
      BY <2>3, WritesSkip
    <3>4. t[d] \in Seq(Skips(h, e, c))
      BY <3>2, <3>3, SeqOf
    <3> QED BY <2>0, <3>4, OfSkips
  <2> QED BY <2>1, <2>2, <2>3
<1>5. ASSUME NEW c \in Chans
      PROVE  Outline(h, e, c, Any(h, e, c), t["S2MM"] \o t["MM2S"], Any(h, e, c))
  BY <1>1, <1>2, <1>4, OfTwo
<1> QED BY <1>3, <1>5

LEMMA Unfolded ==
  ASSUME NEW e \in Engines
  PROVE  ConfigOf(e) = IF hw[e].width = 32
                       THEN IF e <= 1 THEN S2mmPaged(e) \o Mm2sPaged(e) ELSE Three(e)
                       ELSE Wide(e)
<1>1. e \in 0 .. 7
  BY VdmaAssumption DEF Engines
<1>2. e = 0 \/ e = 1 \/ e = 2 \/ e = 3 \/ e = 4 \/ e = 5 \/ e = 6 \/ e = 7
  BY <1>1
<1> QED BY <1>2
     DEF ConfigOf, vdma_config_m32_0, vdma_config_m32_1, vdma_config_m32_2,
         vdma_config_m32_3, vdma_config_m32_4, vdma_config_m32_5,
         vdma_config_m32_6, vdma_config_m32_7, vdma_config_m64_0,
         vdma_config_m64_1, vdma_config_m64_2, vdma_config_m64_3,
         vdma_config_m64_4, vdma_config_m64_5, vdma_config_m64_6,
         vdma_config_m64_7

(* Every frame store of the engine gets an address.                        *)
Reached(h, e) == h.stores <= 3 \/ (h.width = 32 /\ e <= 1)

LEMMA OfConfig ==
  ASSUME NEW e \in Engines, NEW h \in Engine, hw[e] = h, Reached(h, e)
  PROVE  /\ ConfigOf(e) \in Seq(OfEngine(e))
         /\ \A c \in Chans : Outline(h, e, c, Any(h, e, c), ConfigOf(e), Any(h, e, c))
<1> DEFINE P(d) == PagedStores(e, d)
           T(d) == ThreeStores(e, d)
           D(d) == WideStores(e, d)
           Of(d) == IF h.width = 32 THEN IF e <= 1 THEN P(d) ELSE T(d) ELSE D(d)
           s == [d \in Chans |-> Of(d)]
           b == [d \in Chans |-> TRUE]
           t == [d \in Chans |-> Channel(e, d, s[d])]
<1>0. h.width \in {32, 64}
  BY DEF Engine
<1>1. ASSUME NEW d \in Chans
      PROVE  /\ Of(d) \in Seq(Writes(e, d))
             /\ Outline(h, e, d, Placed(h, e, d, 0, Pages), Of(d),
                        Placed(h, e, d, h.stores, Pages))
  <2>1. CASE h.width = 32 /\ e <= 1
    <3>1. Of(d) = PagedStores(e, d)
      BY <2>1
    <3> HIDE DEF Of
    <3> QED BY <2>1, <3>1, OfPaged
  <2>2. CASE h.width = 32 /\ ~(e <= 1)
    <3>1. Of(d) = ThreeStores(e, d) /\ h.stores <= 3
      BY <2>2 DEF Reached
    <3> HIDE DEF Of
    <3> QED BY <2>2, <3>1, OfThree
  <2>3. CASE h.width = 64
    <3>1. Of(d) = WideStores(e, d) /\ h.stores <= 3
      BY <2>3 DEF Reached
    <3> HIDE DEF Of
    <3> QED BY <2>3, <3>1, OfWide
  <2> QED BY <1>0, <2>1, <2>2, <2>3
<1>2. ConfigOf(e) = Channel(e, "S2MM", Of("S2MM")) \o Channel(e, "MM2S", Of("MM2S"))
  <2>1. CASE h.width = 32 /\ e <= 1
    BY <2>1, Unfolded DEF S2mmPaged, Mm2sPaged
  <2>2. CASE h.width = 32 /\ ~(e <= 1)
    BY <2>2, Unfolded DEF Three
  <2>3. CASE h.width = 64
    BY <2>3, Unfolded DEF Wide
  <2> QED BY <1>0, <2>1, <2>2, <2>3
<1> HIDE DEF Of
<1>3. /\ t["S2MM"] = Channel(e, "S2MM", Of("S2MM"))
      /\ t["MM2S"] = Channel(e, "MM2S", Of("MM2S"))
  BY DEF Chans
<1>4. /\ s \in [Chans -> UNION {Seq(Writes(e, d)) : d \in Chans}]
      /\ \A d \in Chans :
           /\ s[d] \in Seq(Writes(e, d))
           /\ Outline(h, e, d, Placed(h, e, d, 0, Pages), s[d],
                      Placed(h, e, d, h.stores, Pages))
  BY <1>1
<1>5. t \in [Chans -> Seq(OfEngine(e))]
  <2> SUFFICES ASSUME NEW d \in Chans PROVE Channel(e, d, s[d]) \in Seq(OfEngine(e))
    OBVIOUS
  <2> HIDE DEF s
  <2>1. Channel(e, d, s[d]) \in Seq(Writes(e, d))
    BY <1>4, ChannelSeq
  <2> QED BY <2>1, WritesOfEngine, SeqOf
<1>6. b \in [Chans -> BOOLEAN] /\ \A d \in Chans : b[d] = TRUE
  OBVIOUS
<1>7. \A d \in Chans : t[d] = IF b[d] THEN Channel(e, d, s[d]) ELSE <<>>
  OBVIOUS
<1> HIDE DEF s, b, t
<1>8. /\ t["S2MM"] \o t["MM2S"] \in Seq(OfEngine(e))
      /\ \A c \in Chans : Outline(h, e, c, Any(h, e, c), t["S2MM"] \o t["MM2S"],
                                  Any(h, e, c))
  BY <1>4, <1>5, <1>6, <1>7, OfBoth
<1> QED BY <1>2, <1>3, <1>8

LEMMA OfRegCfg ==
  ASSUME NEW e \in Engines, NEW h \in Engine, hw[e] = h, h.stores <= 3
  PROVE  /\ vdma_reg_cfg(e) \in Seq(OfEngine(e))
         /\ \A c \in Chans : Outline(h, e, c, Any(h, e, c), vdma_reg_cfg(e), Any(h, e, c))
<1> DEFINE Of(d) == InTurn([i \in 1 .. h.stores |-> Flat(h, e, d, i)])
           On(d) == IF d = "S2MM" THEN h.s2mm ELSE h.mm2s
           s == [d \in Chans |-> Of(d)]
           b == [d \in Chans |-> On(d)]
           t == [d \in Chans |-> IF b[d] THEN Channel(e, d, s[d]) ELSE <<>>]
<1>0. /\ h.width \in {32, 64} /\ h.s2mm \in BOOLEAN /\ h.mm2s \in BOOLEAN
      /\ h.stores \in 1 .. 32
  BY DEF Engine
<1>1. \A d \in Chans :
        /\ Of(d) \in Seq(Writes(e, d))
        /\ Outline(h, e, d, Placed(h, e, d, 0, Pages), Of(d),
                   Placed(h, e, d, h.stores, Pages))
  BY OfFlat
<1>2. vdma_reg_cfg(e) = (IF h.s2mm THEN Channel(e, "S2MM", Of("S2MM")) ELSE <<>>)
                        \o (IF h.mm2s THEN Channel(e, "MM2S", Of("MM2S")) ELSE <<>>)
  <2> DEFINE wide == hw[e].width = 64
             addr(i) == IF i <= 3 THEN Buffer(e, i) ELSE Garbage
             body(c, i) ==
               W(e, StoreReg(c) + (IF wide THEN 8 ELSE 4) * (i - 1), addr(i))
               \o (IF wide THEN W(e, StoreReg(c) + 8 * (i - 1) + 4, Num(0)) ELSE <<>>)
             stores(c) == InTurn([i \in 1 .. hw[e].stores |-> body(c, i)])
  <2>1. ASSUME NEW c \in Chans, NEW i \in 1 .. h.stores
        PROVE  body(c, i) = Flat(h, e, c, i)
    <3>1. addr(i) = Buffer(e, i)
      BY <1>0
    <3>2. CASE h.width = 64
      BY <3>1, <3>2 DEF Flat
    <3>3. CASE h.width = 32
      <4>1. body(c, i) = W(e, StoreReg(c) + 4 * (i - 1), Buffer(e, i)) \o <<>>
        BY <3>1, <3>3
      <4>2. W(e, StoreReg(c) + 4 * (i - 1), Buffer(e, i)) \in Seq(Writes(e, c))
        <5>1. i \in 1 .. 32 /\ i <= 16 /\ i \in Nat
          BY <1>0
        <5> QED BY <5>1, StoreOffs, ValOK, WritesOf
      <4>3. body(c, i) = W(e, StoreReg(c) + 4 * (i - 1), Buffer(e, i))
        BY <4>1, <4>2, ConcatEmptySeq
      <4> HIDE DEF body
      <4> QED BY <3>3, <4>3 DEF Flat
    <3> QED BY <1>0, <3>2, <3>3
  <2>2. vdma_reg_cfg(e) =
          (IF hw[e].s2mm THEN Channel(e, "S2MM", stores("S2MM")) ELSE <<>>)
          \o (IF hw[e].mm2s THEN Channel(e, "MM2S", stores("MM2S")) ELSE <<>>)
    BY DEF vdma_reg_cfg, ForEach
  <2>3. ASSUME NEW c \in Chans PROVE stores(c) = Of(c)
    <3> HIDE DEF body
    <3>1. [i \in 1 .. h.stores |-> body(c, i)] = [i \in 1 .. h.stores |-> Flat(h, e, c, i)]
      BY <2>1
    <3> QED BY <3>1
  <2>4. "S2MM" \in Chans /\ "MM2S" \in Chans
    BY DEF Chans
  <2> HIDE DEF stores, Of
  <2> QED BY <2>2, <2>3, <2>4
<1> HIDE DEF Of
<1>3. /\ t["S2MM"] = IF h.s2mm THEN Channel(e, "S2MM", Of("S2MM")) ELSE <<>>
      /\ t["MM2S"] = IF h.mm2s THEN Channel(e, "MM2S", Of("MM2S")) ELSE <<>>
  BY DEF Chans
<1>4. /\ s \in [Chans -> UNION {Seq(Writes(e, d)) : d \in Chans}]
      /\ \A d \in Chans :
           /\ s[d] \in Seq(Writes(e, d))
           /\ Outline(h, e, d, Placed(h, e, d, 0, Pages), s[d],
                      Placed(h, e, d, h.stores, Pages))
  BY <1>1
<1>5. t \in [Chans -> Seq(OfEngine(e))]
  <2> SUFFICES ASSUME NEW d \in Chans PROVE Channel(e, d, s[d]) \in Seq(OfEngine(e))
    OBVIOUS
  <2> HIDE DEF s
  <2>1. Channel(e, d, s[d]) \in Seq(Writes(e, d))
    BY <1>4, ChannelSeq
  <2> QED BY <2>1, WritesOfEngine, SeqOf
<1>6. b \in [Chans -> BOOLEAN]
  BY <1>0
<1>7. \A d \in Chans : t[d] = IF b[d] THEN Channel(e, d, s[d]) ELSE <<>>
  OBVIOUS
<1> HIDE DEF s, b, t
<1>8. /\ t["S2MM"] \o t["MM2S"] \in Seq(OfEngine(e))
      /\ \A c \in Chans : Outline(h, e, c, Any(h, e, c), t["S2MM"] \o t["MM2S"],
                                  Any(h, e, c))
  BY <1>4, <1>5, <1>6, <1>7, OfBoth
<1> QED BY <1>2, <1>3, <1>8

(***************************************************************************)
(* clear_display.                                                          *)
(***************************************************************************)
LEMMA OfMemsets ==
  ASSUME NEW e \in Engines, NEW h \in Engine, hw[e] = h, NEW c,
         NEW P \in Asserts(h, e, c), Rests(h, e) => \A r \in P : r.run = FALSE
  PROVE  LET s == ForEach(LeastOf(3, hw[e].stores), LAMBDA i : Memset(e, i))
         IN  s \in Seq(OfEngine(e)) /\ Outline(h, e, c, P, s, P)
<1> DEFINE n == LeastOf(3, h.stores)
           ss == [i \in 1 .. n |-> Memset(e, i)]
           I == [i \in 0 .. n |-> P]
<1>1. n \in Nat
  BY DEF Engine, LeastOf
<1>2. ASSUME NEW i \in 1 .. n
      PROVE  Memset(e, i) \in Seq(OfEngine(e)) /\ Outline(h, e, c, P, Memset(e, i), P)
  <2> DEFINE o == [k |-> "memset", e |-> e, off |-> 0, v |-> Buffer(e, i)]
  <2>1. Buffer(e, i) \in Val
    BY <1>1, ValOK
  <2>2. o \in OfEngine(e)
    BY <2>1 DEF OfEngine, Op
  <2>3. Fits(h, e, c, P, o, P)
    BY DEF Fits, Does
  <2>4. Memset(e, i) = <<o>>
    BY DEF Memset
  <2> HIDE DEF o
  <2>5. <<o>> \in Seq(OfEngine(e))
    BY <2>2
  <2> QED BY <2>3, <2>4, <2>5, OfOne
<1>3. ss \in [1 .. n -> Seq(OfEngine(e))] /\ I \in [0 .. n -> Asserts(h, e, c)]
  BY <1>2
<1>4. \A i \in 1 .. n : Outline(h, e, c, I[i - 1], ss[i], I[i])
  BY <1>1, <1>2
<1>5. ForEach(LeastOf(3, hw[e].stores), LAMBDA i : Memset(e, i)) = InTurn(ss)
  BY DEF ForEach
<1>6. I[0] = P /\ I[n] = P
  BY <1>1
<1> HIDE DEF n, ss, I
<1>7. InTurn(ss) \in Seq(OfEngine(e))
  BY <1>1, <1>3, InTurnSeq
<1>8. Outline(h, e, c, I[0], InTurn(ss), I[n])
  <2>1. ASSUME NEW U, ss \in [1 .. n -> Seq(U)]
        PROVE  Outline(h, e, c, I[0], InTurn(ss), I[n])
    BY <1>1, <1>3, <1>4, <2>1, OfLoop
  <2> QED BY <1>3, <2>1
<1> QED BY <1>5, <1>6, <1>7, <1>8

LEMMA OfCleared ==
  ASSUME NEW e \in Engines, NEW h \in Engine, hw[e] = h, Reached(h, e),
         NEW c \in Chans, NEW P \in Asserts(h, e, c),
         Rests(h, e) => \A r \in P : r.run = FALSE
  PROVE  /\ Cleared(e) \in Seq(OfEngine(e))
         /\ Outline(h, e, c, P, Cleared(e), Any(h, e, c))
<1> DEFINE s == ForEach(LeastOf(3, hw[e].stores), LAMBDA i : Memset(e, i))
           t == IF e \in after THEN ConfigOf(e) ELSE <<>>
<1>1. s \in Seq(OfEngine(e)) /\ Outline(h, e, c, P, s, P)
  BY OfMemsets
<1>2. t \in Seq(OfEngine(e))
  <2>1. <<>> \in Seq(OfEngine(e))
    OBVIOUS
  <2> QED BY <2>1, OfConfig
<1>3. Outline(h, e, c, P, t, Any(h, e, c))
  <2>1. P \subseteq Any(h, e, c)
    BY DEF Asserts
  <2>2. CASE e \in after
    <3>1. Outline(h, e, c, Any(h, e, c), ConfigOf(e), Any(h, e, c))
      BY OfConfig
    <3> QED BY <2>1, <2>2, <3>1, OfLess
  <2>3. CASE e \notin after
    <3>1. Outline(h, e, c, P, <<>>, P)
      BY OfNone
    <3> QED BY <2>1, <2>3, <3>1, OfLess
  <2> QED BY <2>2, <2>3
<1>4. Cleared(e) = s \o t
  BY DEF Cleared
<1> HIDE DEF s, t
<1> QED BY <1>1, <1>2, <1>3, <1>4, OfTwo, ConcatProperties

(* Up to two channels are told to stop.                                    *)
LEMMA OfStops ==
  ASSUME NEW e \in Engines, NEW h \in Engine, NEW c \in Chans, NEW x \in Chans,
         NEW y \in Chans, NEW s \in {<<>>, Stop(e, x)}, NEW t \in {<<>>, Stop(e, y)}
  PROVE  /\ s \o t \in Seq(OfEngine(e))
         /\ Outline(h, e, c, Any(h, e, c), s \o t, Any(h, e, c))
         /\ Outline(h, e, c, Halted(h, e, c), s \o t, Halted(h, e, c))
         /\ (s = Stop(e, x) /\ c = x) \/ (t = Stop(e, y) /\ c = y) =>
              Outline(h, e, c, Any(h, e, c), s \o t, Halted(h, e, c))
<1> DEFINE A == Any(h, e, c)
           H == Halted(h, e, c)
<1>1. A \in Asserts(h, e, c) /\ H \in Asserts(h, e, c) /\ H \subseteq A
  BY AssertsOK DEF Halted
<1>2. ASSUME NEW z \in Chans
      PROVE  /\ Stop(e, z) \in Seq(OfEngine(e))
             /\ Outline(h, e, c, A, Stop(e, z), A) /\ Outline(h, e, c, H, Stop(e, z), H)
             /\ c = z => Outline(h, e, c, A, Stop(e, z), H)
  <2>1. Stop(e, z) \in Seq(Writes(e, z))
    <3>1. <<>> \in Seq(Writes(e, z))
      OBVIOUS
    <3> QED BY <3>1, ChannelSeq DEF Stop
  <2>2. Stop(e, z) \in Seq(OfEngine(e))
    BY <2>1, WritesOfEngine, SeqOf
  <2>3. CASE c = z
    <3>1. Outline(h, e, c, A, Stop(e, z), H)
      BY <2>3, OfStop
    <3> HIDE DEF A, H
    <3> QED BY <1>1, <2>2, <3>1, OfLess
  <2>4. CASE c # z
    <3>1. Stop(e, z) \in Seq(Skips(h, e, c))
      BY <2>1, <2>4, WritesSkip, SeqOf
    <3> HIDE DEF A, H
    <3> QED BY <1>1, <2>2, <2>4, <3>1, OfSkips
  <2> QED BY <2>3, <2>4
<1> HIDE DEF A, H
<1>3. /\ <<>> \in Seq(OfEngine(e))
      /\ Outline(h, e, c, A, <<>>, A) /\ Outline(h, e, c, H, <<>>, H)
  BY <1>1, OfNone
<1>4. /\ s \in Seq(OfEngine(e))
      /\ Outline(h, e, c, A, s, A) /\ Outline(h, e, c, H, s, H)
      /\ s = Stop(e, x) /\ c = x => Outline(h, e, c, A, s, H)
  BY <1>2, <1>3
<1>5. /\ t \in Seq(OfEngine(e))
      /\ Outline(h, e, c, A, t, A) /\ Outline(h, e, c, H, t, H)
      /\ t = Stop(e, y) /\ c = y => Outline(h, e, c, A, t, H)
  BY <1>2, <1>3
<1>6. s \o t \in Seq(OfEngine(e))
  BY <1>4, <1>5, ConcatProperties
<1>7. Outline(h, e, c, A, s \o t, A) /\ Outline(h, e, c, H, s \o t, H)
  BY <1>4, <1>5, OfTwo
<1>8. s = Stop(e, x) /\ c = x => Outline(h, e, c, A, s \o t, H)
  BY <1>4, <1>5, OfTwo
<1>9. t = Stop(e, y) /\ c = y => Outline(h, e, c, A, s \o t, H)
  BY <1>4, <1>5, OfTwo
<1> QED BY <1>6, <1>7, <1>8, <1>9 DEF A, H

(* Before its engine is cleared, a channel may run, if the engine has it.  *)
HasChan(h, c) == IF c = "S2MM" THEN h.s2mm ELSE h.mm2s
First(h, e, c) ==
  IF e = 0 /\ ~HasChan(h, c) THEN Halted(h, e, c) ELSE Any(h, e, c)

(* The clear_display function of an engine.                                *)
Clears(e) ==
  CASE e = 0 -> clear_display_0 [] e = 1 -> clear_display_1
    [] e = 2 -> clear_display_2 [] e = 3 -> clear_display_3
    [] e = 4 -> clear_display_4 [] e = 5 -> clear_display_5
    [] e = 6 -> clear_display_6 [] e = 7 -> clear_display_7

LEMMA OfClears ==
  ASSUME NEW e \in Engines, NEW h \in Engine, hw[e] = h, Reached(h, e),
         NEW c \in Chans
  PROVE  /\ Clears(e) \in Seq(OfEngine(e))
         /\ Outline(h, e, c, First(h, e, c), Clears(e), Any(h, e, c))
<1> DEFINE x == IF e = 0 THEN "S2MM" ELSE "MM2S"
           y == IF e = 0 THEN "MM2S" ELSE "S2MM"
           s == IF h.s2mm THEN Stop(e, x) ELSE <<>>
           t == IF h.mm2s THEN Stop(e, y) ELSE <<>>
           M == IF Rests(h, e) THEN Halted(h, e, c) ELSE Any(h, e, c)
<1>0. e \in 0 .. 7
  BY VdmaAssumption DEF Engines
<1>1. Clears(e) = (s \o t) \o Cleared(e)
  <2>1. e = 0 \/ e = 1 \/ e = 2 \/ e = 3 \/ e = 4 \/ e = 5 \/ e = 6 \/ e = 7
    BY <1>0
  <2>2. CASE e = 0
    <3>1. Clears(e) = clear_display_0
      BY <2>2 DEF Clears
    <3>2. /\ s = (IF hw[0].s2mm THEN Stop(0, "S2MM") ELSE <<>>)
          /\ t = (IF hw[0].mm2s THEN Stop(0, "MM2S") ELSE <<>>)
      BY <2>2
    <3> HIDE DEF s, t
    <3> QED BY <2>2, <3>1, <3>2 DEF clear_display_0
  <2>3. CASE e # 0
    <3>1. Clears(e) = StopCrossed(e) \o Cleared(e)
      BY <2>1, <2>3
         DEF Clears, clear_display_1, clear_display_2, clear_display_3,
             clear_display_4, clear_display_5, clear_display_6, clear_display_7
    <3>2. x = "MM2S" /\ y = "S2MM"
      BY <2>3
    <3>3. StopCrossed(e) = s \o t
      BY <3>2 DEF StopCrossed
    <3> HIDE DEF s, t
    <3> QED BY <3>1, <3>3
  <2> QED BY <2>2, <2>3
<1>2. x \in Chans /\ y \in Chans /\ h.s2mm \in BOOLEAN /\ h.mm2s \in BOOLEAN
  BY DEF Chans, Engine
<1>3. /\ s \o t \in Seq(OfEngine(e))
      /\ Outline(h, e, c, Any(h, e, c), s \o t, Any(h, e, c))
      /\ Outline(h, e, c, Halted(h, e, c), s \o t, Halted(h, e, c))
      /\ (h.s2mm /\ c = x) \/ (h.mm2s /\ c = y) =>
           Outline(h, e, c, Any(h, e, c), s \o t, Halted(h, e, c))
  <2>1. /\ s \in {<<>>, Stop(e, x)} /\ t \in {<<>>, Stop(e, y)}
        /\ (h.s2mm => s = Stop(e, x)) /\ (h.mm2s => t = Stop(e, y))
    OBVIOUS
  <2> HIDE DEF s, t, x, y
  <2>2. /\ s \o t \in Seq(OfEngine(e))
        /\ Outline(h, e, c, Any(h, e, c), s \o t, Any(h, e, c))
        /\ Outline(h, e, c, Halted(h, e, c), s \o t, Halted(h, e, c))
        /\ (s = Stop(e, x) /\ c = x) \/ (t = Stop(e, y) /\ c = y) =>
             Outline(h, e, c, Any(h, e, c), s \o t, Halted(h, e, c))
    BY <1>2, <2>1, OfStops
  <2> QED BY <2>1, <2>2
<1>4. Outline(h, e, c, First(h, e, c), s \o t, M)
  <2> HIDE DEF s, t
  <2>1. CASE ~Rests(h, e)
    <3>1. M = Any(h, e, c) /\ First(h, e, c) = Any(h, e, c)
      BY <2>1 DEF First, Rests
    <3> HIDE DEF M
    <3> QED BY <1>3, <3>1
  <2>2. CASE Rests(h, e) /\ e # 0
    <3>1. h.s2mm /\ h.mm2s /\ (c = x \/ c = y)
      BY <2>2 DEF Rests, Chans
    <3>2. M = Halted(h, e, c) /\ First(h, e, c) = Any(h, e, c)
      BY <2>2 DEF First
    <3> HIDE DEF M, x, y
    <3> QED BY <1>3, <3>1, <3>2
  <2>3. CASE e = 0 /\ HasChan(h, c)
    <3>1. (h.s2mm /\ c = x) \/ (h.mm2s /\ c = y)
      BY <2>3 DEF HasChan, Chans
    <3>2. M = Halted(h, e, c) /\ First(h, e, c) = Any(h, e, c)
      BY <2>3 DEF First, Rests
    <3> HIDE DEF M, x, y
    <3> QED BY <1>3, <3>1, <3>2
  <2>4. CASE e = 0 /\ ~HasChan(h, c)
    <3>1. M = Halted(h, e, c) /\ First(h, e, c) = Halted(h, e, c)
      BY <2>4 DEF First, Rests
    <3> HIDE DEF M
    <3> QED BY <1>3, <3>1
  <2> QED BY <2>1, <2>2, <2>3, <2>4
<1>5. M \in Asserts(h, e, c) /\ (Rests(h, e) => \A r \in M : r.run = FALSE)
  BY AssertsOK DEF Halted
<1> HIDE DEF s, t, M
<1>6. /\ Cleared(e) \in Seq(OfEngine(e))
      /\ Outline(h, e, c, M, Cleared(e), Any(h, e, c))
  BY <1>5, OfCleared
<1>7. Outline(h, e, c, First(h, e, c), (s \o t) \o Cleared(e), Any(h, e, c))
  BY <1>3, <1>4, <1>6, OfTwo
<1>8. (s \o t) \o Cleared(e) \in Seq(OfEngine(e))
  BY <1>3, <1>6, ConcatProperties
<1> QED BY <1>1, <1>7, <1>8

(***************************************************************************)
(* The whole program.                                                      *)
(***************************************************************************)
(* One sequence for each engine: the others leave its channels alone.      *)
LEMMA OfEach ==
  ASSUME NEW ss, ss \in [1 .. NumEngines -> Seq(Op)],
         \A m \in Engines : ss[m + 1] \in Seq(OfEngine(m)),
         NEW e \in Engines, NEW h, NEW c \in Chans,
         NEW P \in Asserts(h, e, c), NEW Q \in Asserts(h, e, c),
         Outline(h, e, c, P, ss[e + 1], Q)
  PROVE  Outline(h, e, c, P, InTurn(ss), Q)
<1> DEFINE n == NumEngines
           I == [i \in 0 .. n |-> IF i <= e THEN P ELSE Q]
<1>0. n \in 1 .. 8 /\ n \in Nat /\ e \in 0 .. n - 1
  BY VdmaAssumption DEF Engines
<1>1. I \in [0 .. n -> Asserts(h, e, c)]
  OBVIOUS
<1>2. ASSUME NEW i \in 1 .. n PROVE Outline(h, e, c, I[i - 1], ss[i], I[i])
  <2>0. i - 1 \in Engines /\ (i - 1) + 1 = i /\ i - 1 \in 0 .. n /\ i \in 0 .. n
    BY <1>0 DEF Engines
  <2>1. CASE i = e + 1
    <3>1. I[i - 1] = P /\ I[i] = Q
      BY <1>0, <2>0, <2>1
    <3> HIDE DEF I
    <3> QED BY <2>1, <3>1
  <2>2. CASE i # e + 1
    <3>1. I[i - 1] = I[i] /\ I[i] \in Asserts(h, e, c)
      BY <1>0, <2>0, <2>2
    <3>2. ss[i] \in Seq(OfEngine(i - 1)) /\ e # i - 1
      BY <1>0, <2>0, <2>2
    <3>3. ss[i] \in Seq(Skips(h, e, c))
      BY <3>2, OfEngineSkip, SeqOf
    <3> HIDE DEF I
    <3> QED BY <3>1, <3>3, OfSkips
  <2> QED BY <2>1, <2>2
<1>3. I[0] = P /\ I[n] = Q
  BY <1>0
<1> HIDE DEF I
<1>4. Outline(h, e, c, I[0], InTurn(ss), I[n])
  <2>1. ASSUME NEW U, ss \in [1 .. n -> Seq(U)]
        PROVE  Outline(h, e, c, I[0], InTurn(ss), I[n])
    BY <1>0, <1>1, <1>2, <2>1, OfLoop
  <2> QED BY <2>1
<1> QED BY <1>3, <1>4

LEMMA EachSeq ==
  ASSUME NEW ss, ss \in [1 .. NumEngines -> Seq(Op)]
  PROVE  InTurn(ss) \in Seq(Op)
<1>1. NumEngines \in Nat
  BY VdmaAssumption
<1> QED BY <1>1, InTurnSeq

BuildOK ==
  /\ hw \in [Engines -> Engine]
  /\ \A e \in Engines : Reached(hw[e], e)

LEMMA EngineSeq ==
  ASSUME NEW e \in Engines, NEW s \in Seq(OfEngine(e))
  PROVE  s \in Seq(Op)
<1>1. OfEngine(e) \subseteq Op
  BY DEF OfEngine
<1> QED BY <1>1, SeqOf

LEMMA OfClearDisplay ==
  ASSUME BuildOK
  PROVE  /\ clear_display \in Seq(Op)
         /\ \A e \in Engines, c \in Chans :
              Outline(hw[e], e, c, First(hw[e], e, c), clear_display, Any(hw[e], e, c))
<1> DEFINE ss == [n \in 1 .. NumEngines |-> Clears(n - 1)]
<1>0. NumEngines \in 1 .. 8 /\ \A n \in 1 .. NumEngines : n - 1 \in Engines
  BY VdmaAssumption DEF Engines
<1>1. clear_display = InTurn(ss)
  <2> DEFINE Of(n) ==
        CASE n = 1 -> clear_display_0 [] n = 2 -> clear_display_1
          [] n = 3 -> clear_display_2 [] n = 4 -> clear_display_3
          [] n = 5 -> clear_display_4 [] n = 6 -> clear_display_5
          [] n = 7 -> clear_display_6 [] n = 8 -> clear_display_7
  <2>1. ASSUME NEW n \in 1 .. NumEngines PROVE Of(n) = Clears(n - 1)
    <3>1. n = 1 \/ n = 2 \/ n = 3 \/ n = 4 \/ n = 5 \/ n = 6 \/ n = 7 \/ n = 8
      BY <1>0
    <3> QED BY <3>1 DEF Clears
  <2>2. clear_display = InTurn([n \in 1 .. NumEngines |-> Of(n)])
    BY DEF clear_display, ForEach
  <2> HIDE DEF Of
  <2>3. [n \in 1 .. NumEngines |-> Of(n)] = ss
    BY <2>1
  <2> QED BY <2>2, <2>3
<1>2. ASSUME NEW e \in Engines, NEW c \in Chans
      PROVE  /\ Clears(e) \in Seq(OfEngine(e))
             /\ Outline(hw[e], e, c, First(hw[e], e, c), Clears(e), Any(hw[e], e, c))
  <2> DEFINE h == hw[e]
  <2>1. h \in Engine /\ Reached(h, e)
    BY DEF BuildOK
  <2> QED BY <2>1, OfClears
<1>3. "S2MM" \in Chans
  BY DEF Chans
<1>4. \A e \in Engines : Clears(e) \in Seq(OfEngine(e)) /\ ss[e + 1] = Clears(e)
  BY <1>0, <1>2, <1>3 DEF Engines
<1>5. ss \in [1 .. NumEngines -> Seq(Op)]
  BY <1>0, <1>4, EngineSeq
<1> HIDE DEF ss
<1>6. ASSUME NEW e \in Engines, NEW c \in Chans
      PROVE  Outline(hw[e], e, c, First(hw[e], e, c), InTurn(ss), Any(hw[e], e, c))
  <2> DEFINE h == hw[e]
             P == First(h, e, c)
             Q == Any(h, e, c)
  <2>1. P \in Asserts(h, e, c) /\ Q \in Asserts(h, e, c)
    BY AssertsOK DEF First
  <2>2. Outline(h, e, c, P, ss[e + 1], Q)
    BY <1>2, <1>4
  <2> HIDE DEF h, P, Q
  <2>3. Outline(h, e, c, P, InTurn(ss), Q)
    BY <1>4, <1>5, <2>1, <2>2, OfEach
  <2> QED BY <2>3 DEF h, P, Q
<1> QED BY <1>1, <1>5, <1>6, EachSeq

LEMMA OfDirect ==
  ASSUME BuildOK
  PROVE  /\ vdma_config_direct \in Seq(Op)
         /\ \A e \in Engines, c \in Chans :
              Outline(hw[e], e, c, Any(hw[e], e, c), vdma_config_direct, Any(hw[e], e, c))
<1> DEFINE ss == [n \in 1 .. NumEngines |-> ConfigOf(n - 1)]
<1>0. NumEngines \in 1 .. 8 /\ \A n \in 1 .. NumEngines : n - 1 \in Engines
  BY VdmaAssumption DEF Engines
<1>1. vdma_config_direct = InTurn(ss)
  BY DEF vdma_config_direct, ForEach
<1>2. ASSUME NEW e \in Engines
      PROVE  /\ ConfigOf(e) \in Seq(OfEngine(e))
             /\ \A c \in Chans :
                  Outline(hw[e], e, c, Any(hw[e], e, c), ConfigOf(e), Any(hw[e], e, c))
  <2>1. hw[e] \in Engine /\ Reached(hw[e], e)
    BY DEF BuildOK
  <2> QED BY <2>1, OfConfig
<1>4. \A e \in Engines : ss[e + 1] = ConfigOf(e)
  BY <1>0 DEF Engines
<1>5. ss \in [1 .. NumEngines -> Seq(Op)]
  BY <1>0, <1>2, EngineSeq
<1> HIDE DEF ss
<1>6. ASSUME NEW e \in Engines, NEW c \in Chans
      PROVE  Outline(hw[e], e, c, Any(hw[e], e, c), InTurn(ss), Any(hw[e], e, c))
  <2> DEFINE h == hw[e]
             Q == Any(h, e, c)
  <2>1. Q \in Asserts(h, e, c)
    BY AssertsOK
  <2>2. Outline(h, e, c, Q, ss[e + 1], Q)
    BY <1>2, <1>4
  <2> HIDE DEF h, Q
  <2>3. Outline(h, e, c, Q, InTurn(ss), Q)
    BY <1>2, <1>4, <1>5, <2>1, <2>2, OfEach
  <2> QED BY <2>3 DEF h, Q
<1> QED BY <1>1, <1>5, <1>6, EachSeq

LEMMA OfVdmaConfig ==
  ASSUME BuildOK, \A e \in Engines : hw[e].stores <= 3
  PROVE  /\ vdma_config \in Seq(Op)
         /\ \A e \in Engines, c \in Chans :
              Outline(hw[e], e, c, Any(hw[e], e, c), vdma_config, Any(hw[e], e, c))
<1> DEFINE ss == [n \in 1 .. NumEngines |-> ReadyAndSet(n - 1)]
<1>0. NumEngines \in 1 .. 8 /\ \A n \in 1 .. NumEngines : n - 1 \in Engines
  BY VdmaAssumption DEF Engines
<1>1. vdma_config = InTurn(ss)
  BY DEF vdma_config, ForEach
<1>2. ASSUME NEW e \in Engines
      PROVE  /\ ReadyAndSet(e) \in Seq(OfEngine(e))
             /\ \A c \in Chans :
                  Outline(hw[e], e, c, Any(hw[e], e, c), ReadyAndSet(e), Any(hw[e], e, c))
  <2> DEFINE h == hw[e]
             o == [k |-> "init", e |-> e, off |-> 0, v |-> Num(0)]
  <2>1. h \in Engine /\ h.stores <= 3
    BY DEF BuildOK
  <2>2. /\ vdma_reg_cfg(e) \in Seq(OfEngine(e))
        /\ \A c \in Chans : Outline(h, e, c, Any(h, e, c), vdma_reg_cfg(e), Any(h, e, c))
    BY <2>1, OfRegCfg
  <2>3. o \in OfEngine(e)
    <3>1. Num(0) \in Val
      BY ValOK
    <3> QED BY <3>1 DEF OfEngine, Op
  <2>4. Init1(e) = <<o>>
    BY DEF Init1
  <2>5. Init1(e) \in Seq(OfEngine(e))
    BY <2>3, <2>4
  <2>6. ASSUME NEW c \in Chans
        PROVE  Outline(h, e, c, Any(h, e, c), ReadyAndSet(e), Any(h, e, c))
    <3>1. Fits(h, e, c, Any(h, e, c), o, Any(h, e, c))
      BY DEF Fits, Does
    <3> HIDE DEF o, h
    <3>2. Outline(h, e, c, Any(h, e, c), Init1(e), Any(h, e, c))
      BY <2>4, <3>1, AssertsOK, OfOne
    <3> QED BY <2>2, <2>5, <3>2, OfTwo DEF ReadyAndSet
  <2>7. ReadyAndSet(e) \in Seq(OfEngine(e))
    BY <2>2, <2>5, ConcatProperties DEF ReadyAndSet
  <2> QED BY <2>6, <2>7
<1>4. \A e \in Engines : ss[e + 1] = ReadyAndSet(e)
  BY <1>0 DEF Engines
<1>5. ss \in [1 .. NumEngines -> Seq(Op)]
  BY <1>0, <1>2, EngineSeq
<1> HIDE DEF ss
<1>6. ASSUME NEW e \in Engines, NEW c \in Chans
      PROVE  Outline(hw[e], e, c, Any(hw[e], e, c), InTurn(ss), Any(hw[e], e, c))
  <2> DEFINE h == hw[e]
             Q == Any(h, e, c)
  <2>1. Q \in Asserts(h, e, c)
    BY AssertsOK
  <2>2. Outline(h, e, c, Q, ss[e + 1], Q)
    BY <1>2, <1>4
  <2> HIDE DEF h, Q
  <2>3. Outline(h, e, c, Q, InTurn(ss), Q)
    BY <1>2, <1>4, <1>5, <2>1, <2>2, OfEach
  <2> QED BY <2>3 DEF h, Q
<1> QED BY <1>1, <1>5, <1>6, EachSeq

(***************************************************************************)
(* The invariant, and what follows from it.                                *)
(***************************************************************************)
Outlined ==
  \A e \in Engines, c \in Chans :
    \E P \in Asserts(hw[e], e, c) :
      /\ eng[e][c] \in P
      /\ Outline(hw[e], e, c, P, todo, Any(hw[e], e, c))

(* The registers of any channel of any engine.                             *)
AllRegs == UNION {Any(h, e, c) : h \in Engine, e \in Engines, c \in Chans}

VdmaIInv ==
  /\ hw \in [Engines -> Engine]
  /\ eng \in [Engines -> [Chans -> AllRegs]]
  /\ todo \in Seq(Op)
  /\ Outlined

LEMMA HeadOp ==
  ASSUME NEW s \in Seq(Op), s # <<>>
  PROVE  Head(s) \in Op /\ Head(s).e \in Engines /\ Tail(s) \in Seq(Op)
<1>1. Head(s) \in Op /\ Tail(s) \in Seq(Op)
  BY HeadTailProperties
<1> QED BY <1>1 DEF Op

LEMMA OutlineTail ==
  ASSUME NEW h, NEW e, NEW c, NEW P, NEW Q, NEW s \in Seq(Op), s # <<>>,
         Outline(h, e, c, P, s, Q)
  PROVE  /\ Head(s) \in Op /\ Tail(s) \in Seq(Op)
         /\ \E R \in Asserts(h, e, c) :
              Fits(h, e, c, P, Head(s), R) /\ Outline(h, e, c, R, Tail(s), Q)
<1> DEFINE n == Len(s)
           t == Tail(s)
<1>1. PICK a \in [0 .. n -> Asserts(h, e, c)] :
        /\ P \subseteq a[0] /\ a[n] \subseteq Q
        /\ \A k \in 1 .. n : Fits(h, e, c, a[k - 1], s[k], a[k])
  BY DEF Outline
<1>2. /\ n \in Nat /\ n >= 1 /\ Head(s) = s[1] /\ s[1] \in Op /\ t \in Seq(Op)
      /\ Len(t) = n - 1 /\ \A k \in 1 .. n - 1 : t[k] = s[k + 1]
  BY HeadTailProperties
<1> DEFINE b == [k \in 0 .. n - 1 |-> a[k + 1]]
<1>3. b \in [0 .. n - 1 -> Asserts(h, e, c)] /\ b[0] = a[1] /\ b[n - 1] = a[n]
  BY <1>2
<1>4. Fits(h, e, c, P, Head(s), b[0])
  <2>1. 1 \in 1 .. n /\ 1 - 1 = 0
    BY <1>2
  <2>2. Fits(h, e, c, a[0], s[1], a[1])
    BY <1>1, <2>1
  <2> HIDE DEF b
  <2> QED BY <1>1, <1>2, <1>3, <2>2 DEF Fits
<1>5. ASSUME NEW k \in 1 .. n - 1 PROVE Fits(h, e, c, b[k - 1], t[k], b[k])
  <2>1. /\ k + 1 \in 1 .. n /\ (k + 1) - 1 = k /\ (k - 1) + 1 = k
        /\ k - 1 \in 0 .. n - 1 /\ k \in 0 .. n - 1
    BY <1>2
  <2>2. b[k - 1] = a[k] /\ b[k] = a[k + 1] /\ t[k] = s[k + 1]
    BY <1>2, <2>1
  <2> HIDE DEF b, t
  <2> QED BY <1>1, <2>1, <2>2
<1> HIDE DEF b, t
<1>6. Outline(h, e, c, b[0], t, Q)
  BY <1>1, <1>2, <1>3, <1>5 DEF Outline
<1>7. b[0] \in Asserts(h, e, c)
  BY <1>2, <1>3
<1> QED BY <1>2, <1>4, <1>6, <1>7 DEF t

LEMMA RightIsWanted ==
  ASSUME NEW e, NEW c
  PROVE  Wanted(e, c) = Right(hw[e], e, c)
BY DEF Wanted, Right

LEMMA OfWarm ==
  ASSUME NEW e \in Engines, NEW c \in Chans, NEW h \in Engine, hw[e] = h
  PROVE  /\ Warm(e, c) \in Any(h, e, c)
         /\ Stopped \in Halted(h, e, c)
<1>1. \A i \in 1 .. 32 : Buffer(e, i) \in Val /\ Garbage \in Val
  BY ValOK
<1>2. /\ Size("stride", e, c) \in Val /\ Size("width", e, c) \in Val
      /\ Garbage \in Val
  <2>1. 1 \in Nat
    OBVIOUS
  <2> QED BY <2>1, ValOK
<1>3. Wanted(e, c) = Right(h, e, c)
  BY RightIsWanted
<1>4. Stopped \in Regs(h, e, c)
  BY <1>2 DEF Regs, Stopped, Unset
<1>5. Warm(e, c) \in Regs(h, e, c)
  <2> DEFINE st == [i \in 1 .. 32 |-> IF i <= h.stores THEN Buffer(e, i) ELSE Garbage]
             pg == IF h.stores \in 17 .. 31 THEN 1 ELSE 0
  <2>1. st \in [1 .. 32 -> Val] /\ pg \in {0, 1}
    BY <1>1
  <2>2. Warm(e, c) = [run |-> TRUE, page |-> pg, live |-> Right(h, e, c),
                      stride |-> Size("stride", e, c),
                      hsize |-> Size("width", e, c), store |-> st]
    BY <1>3 DEF Warm
  <2> HIDE DEF st, pg
  <2> QED BY <1>2, <2>1, <2>2 DEF Regs
<1>6. h.stores <= 16 => Warm(e, c).page = 0
  BY DEF Warm, Engine
<1>7. Stopped.page = 0 /\ Stopped.run = FALSE
  BY DEF Stopped
<1> QED BY <1>4, <1>5, <1>6, <1>7 DEF Any, Halted

LEMMA InitIInv ==
  ASSUME VdmaInit
  PROVE  VdmaIInv
<1>1. hw \in [Engines -> Engine]
  BY VdmaAssumption DEF VdmaInit, Engine
<1>2. BuildOK /\ (path # "direct" => \A e \in Engines : hw[e].stores <= 3)
  <2>1. ASSUME NEW e \in Engines
        PROVE  Reached(hw[e], e) /\ (path # "direct" => hw[e].stores <= 3)
    <3>1. hw[e].stores <= Limit(path, e, hw[e].width)
      BY DEF VdmaInit
    <3> QED BY <3>1 DEF Limit, Reached
  <2> QED BY <1>1, <2>1 DEF BuildOK
<1>3. PICK warm \in BOOLEAN :
        eng = [e \in Engines |-> [c \in Chans |->
                 IF warm /\ Has(e, c) THEN Warm(e, c) ELSE Stopped]]
  BY DEF VdmaInit
<1>4. ASSUME NEW e \in Engines, NEW c \in Chans
      PROVE  eng[e][c] \in First(hw[e], e, c)
  <2> DEFINE h == hw[e]
  <2>1. h \in Engine
    BY <1>1
  <2>2. Warm(e, c) \in Any(h, e, c) /\ Stopped \in Halted(h, e, c)
    BY <2>1, OfWarm
  <2>3. Halted(h, e, c) \subseteq Any(h, e, c)
    BY DEF Halted
  <2>4. Has(e, c) <=> HasChan(h, c)
    BY DEF Has, HasChan
  <2>5. eng[e][c] = IF warm /\ Has(e, c) THEN Warm(e, c) ELSE Stopped
    BY <1>3
  <2> HIDE DEF h
  <2>6. eng[e][c] \in First(h, e, c)
    <3>1. CASE warm /\ Has(e, c)
      BY <2>2, <2>4, <2>5, <3>1 DEF First
    <3>2. CASE ~(warm /\ Has(e, c))
      BY <2>2, <2>3, <2>5, <3>2 DEF First
    <3> QED BY <3>1, <3>2
  <2> QED BY <2>6 DEF h
<1> DEFINE prog == IF path = "direct" THEN vdma_config_direct ELSE vdma_config
<1>5. /\ prog \in Seq(Op)
      /\ \A e \in Engines, c \in Chans :
           Outline(hw[e], e, c, Any(hw[e], e, c), prog, Any(hw[e], e, c))
  <2>1. CASE path = "direct"
    BY <1>2, <2>1, OfDirect
  <2>2. CASE path # "direct"
    BY <1>2, <2>2, OfVdmaConfig
  <2> QED BY <2>1, <2>2
<1>6. todo = clear_display \o prog
  BY DEF VdmaInit
<1> HIDE DEF prog
<1>7. /\ clear_display \in Seq(Op)
      /\ \A e \in Engines, c \in Chans :
           Outline(hw[e], e, c, First(hw[e], e, c), clear_display, Any(hw[e], e, c))
  BY <1>2, OfClearDisplay
<1>8. todo \in Seq(Op)
  BY <1>5, <1>6, <1>7, ConcatProperties
<1>9. ASSUME NEW e \in Engines, NEW c \in Chans
      PROVE  \E P \in Asserts(hw[e], e, c) :
               /\ eng[e][c] \in P
               /\ Outline(hw[e], e, c, P, todo, Any(hw[e], e, c))
  <2> DEFINE h == hw[e]
             P == First(h, e, c)
  <2>1. P \in Asserts(h, e, c)
    BY AssertsOK DEF First
  <2>2. Outline(h, e, c, P, clear_display, Any(h, e, c))
    BY <1>7
  <2>3. Outline(h, e, c, Any(h, e, c), prog, Any(h, e, c))
    BY <1>5
  <2>4. eng[e][c] \in P
    BY <1>4
  <2> HIDE DEF h, P
  <2>5. Outline(h, e, c, P, todo, Any(h, e, c))
    BY <1>5, <1>6, <1>7, <2>2, <2>3, OfTwo
  <2> QED BY <2>1, <2>4, <2>5 DEF h
<1>10. eng \in [Engines -> [Chans -> AllRegs]]
  <2>1. \A e \in Engines, c \in Chans : eng[e][c] \in Any(hw[e], e, c)
    BY <1>4 DEF First, Halted
  <2>2. \A e \in Engines, c \in Chans : eng[e][c] \in AllRegs
    BY <1>1, <2>1 DEF AllRegs
  <2>3. \A e \in Engines : eng[e] = [c \in Chans |-> eng[e][c]]
    BY <1>3
  <2>4. eng = [e \in Engines |-> [c \in Chans |-> eng[e][c]]]
    BY <1>3
  <2>5. [e \in Engines |-> [c \in Chans |-> eng[e][c]]] \in [Engines -> [Chans -> AllRegs]]
    BY <2>2
  <2> QED BY <2>4, <2>5
<1> QED BY <1>1, <1>8, <1>9, <1>10 DEF VdmaIInv, Outlined

(* A write, for every channel at once.                                     *)
LEMMA WriteStep ==
  ASSUME VdmaIInv, Xil_Out32
  PROVE  /\ eng' \in [Engines -> [Chans -> AllRegs]]
         /\ \A e \in Engines, c \in Chans :
              eng'[e][c] = Does(hw[e], e, c, eng[e][c], Head(todo))
<1> DEFINE o == Head(todo)
<1>1. todo \in Seq(Op) /\ todo # <<>> /\ o.k = "out" /\ eng \in [Engines -> [Chans -> AllRegs]]
  BY DEF VdmaIInv, Xil_Out32, Doing
<1>2. o \in Op /\ o.e \in Engines
  BY <1>1, HeadOp
<1>3. eng' = [eng EXCEPT ![o.e] = [c \in Chans |-> Takes(hw[o.e], c, @[c], o.off, o.v)]]
  BY DEF Xil_Out32
<1> HIDE DEF o
<1>4. ASSUME NEW e \in Engines, NEW c \in Chans
      PROVE  eng'[e][c] = Does(hw[e], e, c, eng[e][c], o)
  <2>1. CASE e = o.e
    BY <1>1, <1>2, <1>3, <2>1 DEF Does
  <2>2. CASE e # o.e
    BY <1>1, <1>2, <1>3, <2>2 DEF Does
  <2> QED BY <2>1, <2>2
<1>5. ASSUME NEW e \in Engines, NEW c \in Chans
      PROVE  eng'[e][c] \in AllRegs
  <2>1. PICK P \in Asserts(hw[e], e, c) :
          /\ eng[e][c] \in P
          /\ Outline(hw[e], e, c, P, todo, Any(hw[e], e, c))
    BY DEF VdmaIInv, Outlined
  <2>2. PICK R \in Asserts(hw[e], e, c) : Fits(hw[e], e, c, P, o, R)
    BY <1>1, <2>1, OutlineTail DEF o
  <2>3. eng'[e][c] \in R
    BY <1>4, <2>1, <2>2 DEF Fits
  <2>4. hw[e] \in Engine
    BY DEF VdmaIInv
  <2> QED BY <2>3, <2>4 DEF Asserts, AllRegs
<1>6. eng' \in [Engines -> [Chans -> AllRegs]]
  <2>1. eng' = [e \in Engines |-> eng'[e]]
    BY <1>1, <1>3
  <2>2. ASSUME NEW e \in Engines PROVE eng'[e] \in [Chans -> AllRegs]
    <3>1. eng'[e] = [c \in Chans |-> eng'[e][c]]
      BY <1>1, <1>2, <1>3
    <3> QED BY <1>5, <3>1
  <2> QED BY <2>1, <2>2
<1> QED BY <1>4, <1>6 DEF o

LEMMA NextIInv ==
  ASSUME VdmaIInv, [VdmaNext]_vdma_vars
  PROVE  VdmaIInv'
<1>0. /\ hw \in [Engines -> Engine] /\ todo \in Seq(Op)
      /\ eng \in [Engines -> [Chans -> AllRegs]]
      /\ \A e \in Engines, c \in Chans :
           \E P \in Asserts(hw[e], e, c) :
             /\ eng[e][c] \in P
             /\ Outline(hw[e], e, c, P, todo, Any(hw[e], e, c))
  BY DEF VdmaIInv, Outlined
<1>1. CASE Xil_Out32
  <2>1. todo # <<>> /\ todo' = Tail(todo) /\ hw' = hw
    BY <1>1 DEF Xil_Out32, Doing, build
  <2>2. /\ eng' \in [Engines -> [Chans -> AllRegs]]
        /\ \A e \in Engines, c \in Chans :
             eng'[e][c] = Does(hw[e], e, c, eng[e][c], Head(todo))
    BY <1>1, WriteStep
  <2>3. todo' \in Seq(Op)
    BY <1>0, <2>1, HeadOp
  <2>4. ASSUME NEW e \in Engines, NEW c \in Chans
        PROVE  \E P \in Asserts(hw[e], e, c) :
                 /\ eng'[e][c] \in P
                 /\ Outline(hw[e], e, c, P, todo', Any(hw[e], e, c))
    <3>1. PICK P \in Asserts(hw[e], e, c) :
            /\ eng[e][c] \in P
            /\ Outline(hw[e], e, c, P, todo, Any(hw[e], e, c))
      BY <1>0
    <3>2. PICK R \in Asserts(hw[e], e, c) :
            /\ Fits(hw[e], e, c, P, Head(todo), R)
            /\ Outline(hw[e], e, c, R, Tail(todo), Any(hw[e], e, c))
      BY <1>0, <2>1, <3>1, OutlineTail
    <3>3. eng'[e][c] \in R
      BY <2>2, <3>1, <3>2 DEF Fits
    <3> QED BY <2>1, <3>2, <3>3
  <2> QED BY <1>0, <2>1, <2>2, <2>3, <2>4 DEF VdmaIInv, Outlined
<1>2. ASSUME hw' = hw, eng' = eng, todo' = todo
      PROVE  VdmaIInv'
  BY <1>0, <1>2 DEF VdmaIInv, Outlined
<1>3. CASE memset
  <2>1. todo # <<>> /\ todo' = Tail(todo) /\ hw' = hw /\ eng' = eng /\ Head(todo).k = "memset"
    BY <1>3 DEF memset, Doing, build
  <2>3. todo' \in Seq(Op)
    BY <1>0, <2>1, HeadOp
  <2>4. ASSUME NEW e \in Engines, NEW c \in Chans
        PROVE  \E P \in Asserts(hw[e], e, c) :
                 /\ eng[e][c] \in P
                 /\ Outline(hw[e], e, c, P, todo', Any(hw[e], e, c))
    <3>1. PICK P \in Asserts(hw[e], e, c) :
            /\ eng[e][c] \in P
            /\ Outline(hw[e], e, c, P, todo, Any(hw[e], e, c))
      BY <1>0
    <3>2. PICK R \in Asserts(hw[e], e, c) :
            /\ Fits(hw[e], e, c, P, Head(todo), R)
            /\ Outline(hw[e], e, c, R, Tail(todo), Any(hw[e], e, c))
      BY <1>0, <2>1, <3>1, OutlineTail
    <3>3. eng[e][c] \in R
      BY <2>1, <3>1, <3>2 DEF Fits, Does
    <3> QED BY <2>1, <3>2, <3>3
  <2> QED BY <1>0, <2>1, <2>3, <2>4 DEF VdmaIInv, Outlined
<1>4. CASE vdma_init
  <2>1. todo # <<>> /\ hw' = hw /\ eng' = eng /\ Head(todo).k = "init"
        /\ (todo' = Tail(todo) \/ todo' = <<>>)
    BY <1>4 DEF vdma_init, Doing, build
  <2>3. todo' \in Seq(Op)
    <3>1. <<>> \in Seq(Op)
      OBVIOUS
    <3> QED BY <1>0, <2>1, <3>1, HeadOp
  <2>4. ASSUME NEW e \in Engines, NEW c \in Chans
        PROVE  \E P \in Asserts(hw[e], e, c) :
                 /\ eng[e][c] \in P
                 /\ Outline(hw[e], e, c, P, todo', Any(hw[e], e, c))
    <3>1. PICK P \in Asserts(hw[e], e, c) :
            /\ eng[e][c] \in P
            /\ Outline(hw[e], e, c, P, todo, Any(hw[e], e, c))
      BY <1>0
    <3>2. CASE todo' = Tail(todo)
      <4>1. PICK R \in Asserts(hw[e], e, c) :
              /\ Fits(hw[e], e, c, P, Head(todo), R)
              /\ Outline(hw[e], e, c, R, Tail(todo), Any(hw[e], e, c))
        BY <1>0, <2>1, <3>1, OutlineTail
      <4>2. eng[e][c] \in R
        BY <2>1, <3>1, <4>1 DEF Fits, Does
      <4> QED BY <3>2, <4>1, <4>2
    <3>3. CASE todo' = <<>>
      <4>1. Any(hw[e], e, c) \in Asserts(hw[e], e, c)
        BY AssertsOK
      <4>2. Outline(hw[e], e, c, Any(hw[e], e, c), <<>>, Any(hw[e], e, c))
        BY <4>1, OfNone
      <4>3. eng[e][c] \in Any(hw[e], e, c)
        BY <3>1 DEF Asserts
      <4> QED BY <3>3, <4>1, <4>2, <4>3
    <3> QED BY <2>1, <3>2, <3>3
  <2> QED BY <1>0, <2>1, <2>3, <2>4 DEF VdmaIInv, Outlined
<1>5. CASE Finish
  <2>1. hw' = hw /\ eng' = eng /\ todo' = todo
    BY <1>5 DEF Finish, build
  <2> QED BY <1>2, <2>1
<1>6. CASE \E m \in Engines, d \in Chans : FrameEnds(m, d)
  <2>1. PICK m \in Engines, d \in Chans : FrameEnds(m, d)
    BY <1>6
  <2>2. /\ hw' = hw /\ todo' = todo
        /\ eng' = [eng EXCEPT ![m][d].live = <<>>]
    BY <2>1 DEF FrameEnds, build
  <2>3. \A e \in Engines, c \in Chans :
          eng'[e][c] = IF e = m /\ c = d THEN Ended(eng[e][c]) ELSE eng[e][c]
    BY <1>0, <2>2 DEF Ended
  <2>4. ASSUME NEW e \in Engines, NEW c \in Chans
        PROVE  /\ \E P \in Asserts(hw[e], e, c) :
                    /\ eng'[e][c] \in P
                    /\ Outline(hw[e], e, c, P, todo, Any(hw[e], e, c))
               /\ eng'[e][c] \in AllRegs
    <3>1. PICK P \in Asserts(hw[e], e, c) :
            /\ eng[e][c] \in P
            /\ Outline(hw[e], e, c, P, todo, Any(hw[e], e, c))
      BY <1>0
    <3>2. eng'[e][c] \in P
      BY <2>3, <3>1 DEF Asserts
    <3>3. hw[e] \in Engine
      BY <1>0
    <3> QED BY <3>1, <3>2, <3>3 DEF Asserts, AllRegs
  <2>5. eng' \in [Engines -> [Chans -> AllRegs]]
    <3>1. eng' = [e \in Engines |-> eng'[e]]
      BY <1>0, <2>2
    <3>2. ASSUME NEW e \in Engines PROVE eng'[e] \in [Chans -> AllRegs]
      <4>1. eng'[e] = [c \in Chans |-> eng'[e][c]]
        BY <1>0, <2>2
      <4> QED BY <2>4, <4>1
    <3> QED BY <3>1, <3>2
  <2> QED BY <1>0, <2>2, <2>4, <2>5 DEF VdmaIInv, Outlined
<1>7. CASE UNCHANGED vdma_vars
  <2>1. hw' = hw /\ eng' = eng /\ todo' = todo
    BY <1>7 DEF vdma_vars, build
  <2> QED BY <1>2, <2>1
<1> QED BY <1>1, <1>3, <1>4, <1>5, <1>6, <1>7 DEF VdmaNext, Program

LEMMA IInvGives ==
  ASSUME VdmaIInv
  PROVE  RunsAsConfigured /\ ClearedAtRest
<1>1. ASSUME NEW e \in Engines, NEW c \in Chans, eng[e][c].live # <<>>
      PROVE  eng[e][c].live = Wanted(e, c)
  <2>1. eng[e][c] \in Any(hw[e], e, c)
    BY DEF VdmaIInv, Outlined, Asserts
  <2>2. eng[e][c].live \in {<<>>, Right(hw[e], e, c)}
    BY <2>1 DEF Any, Regs
  <2> QED BY <1>1, <2>2, RightIsWanted
<1>2. ASSUME Doing("memset") PROVE ClearedAtRest
  <2> DEFINE o == Head(todo)
  <2>1. todo \in Seq(Op) /\ todo # <<>> /\ o.k = "memset"
    BY <1>2 DEF VdmaIInv, Doing
  <2>2. o \in Op /\ o.e \in Engines
    BY <2>1, HeadOp
  <2>3. ASSUME Rests(hw[o.e], o.e), NEW c \in Chans
        PROVE  eng[o.e][c].run = FALSE
    <3> DEFINE e == o.e
    <3>0. e \in Engines
      BY <2>2
    <3> HIDE DEF e
    <3>1. PICK P \in Asserts(hw[e], e, c) :
            /\ eng[e][c] \in P
            /\ Outline(hw[e], e, c, P, todo, Any(hw[e], e, c))
      BY <3>0 DEF VdmaIInv, Outlined
    <3>2. PICK R \in Asserts(hw[e], e, c) : Fits(hw[e], e, c, P, o, R)
      BY <2>1, <3>1, OutlineTail
    <3>3. Rests(hw[e], e) /\ o.e = e
      BY <2>3 DEF e
    <3>4. eng[e][c].run = FALSE
      BY <2>1, <3>1, <3>2, <3>3 DEF Fits
    <3> QED BY <3>4 DEF e
  <2> QED BY <2>3 DEF ClearedAtRest, Rests
<1> QED BY <1>1, <1>2 DEF RunsAsConfigured, ClearedAtRest

LEMMA VdmaIInvHolds == VdmaSpec => []VdmaIInv
<1>1. VdmaInit => VdmaIInv
  BY InitIInv
<1>2. VdmaIInv /\ [VdmaNext]_vdma_vars => VdmaIInv'
  BY NextIInv
<1> QED BY <1>1, <1>2, PTL DEF VdmaSpec

(* Whatever the engines ran before, and wherever the program is between a  *)
(* stop and a start: a channel that moves frames moves them with the       *)
(* addresses of all its stores and its own sizes, for every number of      *)
(* engines and stores and both widths (vdma.c).                            *)
THEOREM ChannelsRunAsConfigured == VdmaSpec => []RunsAsConfigured
<1>1. VdmaIInv => RunsAsConfigured
  BY IInvGives
<1> QED BY <1>1, VdmaIInvHolds, PTL

(* No buffer is cleared while a channel of its engine is told to run       *)
(* (clear_display_n before vdma_config_n and vdma_reg_cfg).                *)
THEOREM BuffersClearedAtRest == VdmaSpec => []ClearedAtRest
<1>1. VdmaIInv => ClearedAtRest
  BY IInvGives
<1> QED BY <1>1, VdmaIInvHolds, PTL

(***************************************************************************)
(* The start.                                                              *)
(***************************************************************************)
(* What main calls after the last of MainSteps.                            *)
Later == Loop \cup {"dhcp_wait", "start_applications",
                    "platform_enable_interrupts"}

(* The places of main, as far as the proofs need them.                     *)
PlacesOK ==
  /\ step \in Nat \ {0}
  /\ pc \in Later \cup {"main", "Xil_Assert"}
  /\ pc \in Later => step > Len(MainSteps)

(* Interrupts are taken in the loop only, and the servers run on an        *)
(* interface that was added.                                               *)
EnabledLast ==
  /\ irq \in BOOLEAN /\ linkBroken \in BOOLEAN
  /\ irq => pc \in Loop
  /\ pc \in {"dhcp_wait", "start_applications"} => "netif" \in ready
  /\ ready \cap Servers # {} => "netif" \in ready
  /\ linkBroken => pc \in Loop /\ "netif" \notin ready

(* A set flag stands for a call of tcp_slowtmr to come, but for the one    *)
(* whose reset is next.                                                    *)
Pending == IF TcpSlowTmrFlag = 1 /\ pc # "slow_reset" THEN 1 ELSE 0

(* The counts and the flags are in step until they are frozen: the handler *)
(* sets the flag at every other tick, and odd tells which is next.         *)
InStep ==
  /\ ticks \in Nat /\ slows \in Nat /\ odd \in {0, 1}
  /\ TcpSlowTmrFlag \in {0, 1}
  /\ 2 * slows <= ticks
  /\ ticks < MaxTicks => 2 * (slows + Pending) + (1 - odd) <= ticks

USE StartupAssumption, PipelineAssumption

(* main's last call before the loop, or before the wait, is the last of    *)
(* MainSteps.                                                              *)
LEMMA LastStep ==
  ASSUME step \in Nat \ {0}, Call("lwip_common_init")
  PROVE  step + 1 > Len(MainSteps)
  <1>1. Len(MainSteps) = 16
    BY DEF MainSteps
  <1>2. step \in 1 .. 16
    BY <1>1 DEF Call
  <1>3. \A k \in 1 .. 15 : MainSteps[k] # "lwip_common_init"
    BY DEF MainSteps
  <1>4. MainSteps[step] = "lwip_common_init"
    BY DEF Call
  <1> QED BY <1>1, <1>2, <1>3, <1>4

(* A step of a routine that configures a device.                           *)
ConfigStep == DriverCall \/ DriverCallFails \/ NoLock \/ RoutineEnds

(* Such a step stays in the routine, leaves it for the next one, or stops  *)
(* main in an assertion, and touches nothing but main's place and devices. *)
LEMMA RoutineGoesOn ==
  ASSUME ConfigStep
  PROVE  /\ Configuring /\ pc = "main" /\ step <= Len(MainSteps)
         /\ pc' \in {"main", "Xil_Assert"} /\ step' \in {step, step + 1}
         /\ ready' = ready \/ ready' = ready \cup {MainSteps[step]}
         /\ UNCHANGED <<board, dhcp, irq, timer, ip, timers, link, counts>>
  BY DEF ConfigStep, DriverCall, DriverCallFails, NoLock, RoutineEnds, Configuring,
         Reported, Goto, Return, Elsewhere

LEMMA PlacesInit == Init => PlacesOK
  BY DEF Init, PlacesOK, Later, Loop

(* Every step keeps main at one of its places, past MainSteps when it has  *)
(* left them.                                                              *)
LEMMA PlacesStep == PlacesOK /\ [Next]_vars => PlacesOK'
  <1> SUFFICES ASSUME PlacesOK, [Next]_vars PROVE PlacesOK'
    OBVIOUS
  <1> USE DEF PlacesOK, Later, Loop, Goto
  <1>1. CASE init_platform
    BY <1>1 DEF init_platform, Call, Return
  <1>2. CASE ConfigStep
    BY <1>2, RoutineGoesOn
  <1>3. CASE lwip_common_init
    <2>1. step' > Len(MainSteps) /\ step' \in Nat \ {0}
      BY <1>3, LastStep DEF lwip_common_init
    <2> QED BY <1>3, <2>1 DEF lwip_common_init
  <1>4. CASE DhcpWait \/ start_applications \/ platform_enable_interrupts
    BY <1>4 DEF DhcpWait, start_applications, platform_enable_interrupts
  <1>5. CASE tcp_fasttmr \/ fast_reset \/ tcp_slowtmr \/ slow_reset
    BY <1>5 DEF tcp_fasttmr, fast_reset, tcp_slowtmr, slow_reset, setup
  <1>6. CASE xemacif_input
    BY <1>6 DEF xemacif_input, setup
  <1>7. CASE PsSoftwareReset
    BY <1>7 DEF PsSoftwareReset, Restart, setup
  <1>8. CASE timer_callback \/ emac_recv_handler
    BY <1>8 DEF timer_callback, emac_recv_handler, setup
  <1>9. CASE UNCHANGED vars
    BY <1>9 DEF vars, setup
  <1> QED
    BY <1>1, <1>2, <1>3, <1>4, <1>5, <1>6, <1>7, <1>8, <1>9
    DEF Next, main, Interrupt, ConfigStep

LEMMA EnabledInit == Init => EnabledLast
  BY DEF Init, EnabledLast, Servers

(* Interrupts are enabled by the last step before the loop, and only a     *)
(* reset, which disables them, leaves the loop.                            *)
LEMMA EnabledStep == PlacesOK /\ EnabledLast /\ [Next]_vars => EnabledLast'
  <1> SUFFICES ASSUME PlacesOK, EnabledLast, [Next]_vars PROVE EnabledLast'
    OBVIOUS
  <1> USE DEF EnabledLast, Loop, Goto, Servers, CommandServers
  <1>1. CASE init_platform
    <2>1. PICK done \in SUBSET {"intc", "timer"} : ready' = ready \cup done
      BY <1>1 DEF init_platform, platform_setup_interrupts, setup_mb, setup_zynq,
                  setup_zynqmp, timer0_init
    <2>2. pc = "main" /\ ~irq /\ ~linkBroken
      BY <1>1 DEF init_platform, Call
    <2>3. irq' = irq /\ linkBroken' = linkBroken /\ pc' = pc
      BY <1>1 DEF init_platform, Return, timers
    <2> QED BY <2>1, <2>2, <2>3
  <1>2. CASE ConfigStep
    <2>1. pc = "main" /\ ~irq /\ ~linkBroken
      BY <1>2, RoutineGoesOn
    <2>2. /\ irq' = irq /\ linkBroken' = linkBroken
          /\ pc' \notin {"dhcp_wait", "start_applications"}
      BY <1>2, <2>1, RoutineGoesOn DEF timers
    <2>3. ready' = ready \/ ready' = ready \cup {MainSteps[step]}
      BY <1>2, RoutineGoesOn
    <2>4. MainSteps[step] \notin Servers
      <3>1. Len(MainSteps) = 16
        BY DEF MainSteps
      <3>2. step \in 1 .. 16
        BY <1>2, <3>1, RoutineGoesOn DEF PlacesOK, Configuring
      <3>3. \A k \in 1 .. 16 : MainSteps[k] \notin Servers
        BY DEF MainSteps
      <3> QED BY <3>2, <3>3
    <2> QED BY <2>1, <2>2, <2>3, <2>4
  <1>3. CASE lwip_common_init
    BY <1>3 DEF lwip_common_init, Call
  <1>10. CASE DhcpWait
    <2>1. pc = "dhcp_wait" /\ ~irq /\ ~linkBroken /\ "netif" \in ready
      BY <1>10 DEF DhcpWait
    <2>2. irq' = irq /\ linkBroken' = linkBroken /\ ready' = ready
      BY <1>10 DEF DhcpWait
    <2> QED BY <2>1, <2>2
  <1>4. CASE start_applications \/ platform_enable_interrupts
    <2>1. CASE start_applications
      BY <2>1 DEF start_applications, timers
    <2>2. CASE platform_enable_interrupts
      <3>1. irq' = TRUE /\ linkBroken' = linkBroken /\ ready' = ready
        BY <2>2 DEF platform_enable_interrupts, timers
      <3>2. pc = "platform_enable_interrupts" /\ pc' = "tcp_fasttmr"
        BY <2>2 DEF platform_enable_interrupts
      <3> QED BY <3>1, <3>2
    <2> QED BY <1>4, <2>1, <2>2
  <1>5. CASE tcp_fasttmr \/ fast_reset \/ tcp_slowtmr \/ slow_reset
    BY <1>5 DEF tcp_fasttmr, fast_reset, tcp_slowtmr, slow_reset, setup, timers
  <1>6. CASE xemacif_input
    BY <1>6 DEF xemacif_input, setup, timers
  <1>7. CASE PsSoftwareReset
    BY <1>7 DEF PsSoftwareReset, Restart, setup, timers
  <1>8. CASE timer_callback \/ emac_recv_handler
    BY <1>8 DEF timer_callback, emac_recv_handler, setup, timers
  <1>9. CASE UNCHANGED vars
    BY <1>9 DEF vars, setup, timers
  <1> QED
    BY <1>1, <1>2, <1>3, <1>10, <1>4, <1>5, <1>6, <1>7, <1>8, <1>9
    DEF Next, main, Interrupt, ConfigStep

(* The handler of the timer never works on an interface lwip_common_init   *)
(* has yet to add.                                                         *)
THEOREM InterfaceFound == Spec => []HandlerFindsInterface
  <1>1. Init => PlacesOK /\ EnabledLast
    BY PlacesInit, EnabledInit
  <1>2. PlacesOK /\ EnabledLast /\ [Next]_vars => PlacesOK' /\ EnabledLast'
    BY PlacesStep, EnabledStep
  <1>3. PlacesOK /\ EnabledLast => HandlerFindsInterface
    BY DEF PlacesOK, EnabledLast, HandlerFindsInterface, Later
  <1> QED BY <1>1, <1>2, <1>3, PTL DEF Spec

(* The slow timer of lwIP is called at half the rate of the ticks, or less *)
(* often, however ticks, tests and resets of the flags interleave.         *)
THEOREM HalfRate == Spec => []SlowAtHalfRate
  <1>1. Init => InStep
    BY DEF Init, InStep, Pending
  <1>2. InStep /\ [Next]_vars => InStep'
    <2> SUFFICES ASSUME InStep, [Next]_vars PROVE InStep'
      OBVIOUS
    <2> USE DEF InStep, Pending, Goto, counts, timers
    <2>1. CASE init_platform \/ lwip_common_init
      BY <2>1 DEF init_platform, lwip_common_init, Call, Return
    <2>11. CASE ConfigStep
      BY <2>11, RoutineGoesOn
    <2>2. CASE DhcpWait \/ start_applications \/ platform_enable_interrupts
      BY <2>2 DEF DhcpWait, start_applications, platform_enable_interrupts
    <2>3. CASE tcp_fasttmr \/ fast_reset
      BY <2>3 DEF tcp_fasttmr, fast_reset
    <2>4. CASE tcp_slowtmr
      BY <2>4 DEF tcp_slowtmr
    <2>5. CASE slow_reset
      BY <2>5 DEF slow_reset
    <2>6. CASE xemacif_input
      BY <2>6 DEF xemacif_input
    <2>7. CASE PsSoftwareReset
      BY <2>7 DEF PsSoftwareReset, Restart
    <2>8. CASE timer_callback
      BY <2>8 DEF timer_callback
    <2>9. CASE emac_recv_handler
      BY <2>9 DEF emac_recv_handler
    <2>10. CASE UNCHANGED vars
      BY <2>10 DEF vars
    <2> QED
      BY <2>1, <2>11, <2>2, <2>3, <2>4, <2>5, <2>6, <2>7, <2>8, <2>9, <2>10
      DEF Next, main, Interrupt, ConfigStep
  <1>3. InStep => SlowAtHalfRate
    BY DEF InStep, SlowAtHalfRate
  <1> QED BY <1>1, <1>2, <1>3, PTL DEF Spec

(* The devices the stream to the CSI transmitter needs: the place in       *)
(* MainSteps of the routine that starts each, and the call that does.      *)
Due == {<<"switch", 7, 6>>, <<"vtc", 9, 9>>, <<"tpg", 10, 12>>, <<"vdma", 11, 2>>,
        <<"vpss", 12, 6>>, <<"gamma", 13, 8>>, <<"demosaic", 14, 6>>}

(* A device of Due runs once main is past the call that starts it, and the *)
(* transmitter is started by the last routine but one.                     *)
StartedInOrder ==
  /\ step \in Nat \ {0} /\ at \in Nat \ {0}
  /\ \A t \in Due : step > t[2] \/ (step = t[2] /\ at > t[3]) => t[1] \in running
  /\ "csi" \in running => step > 14

(* A routine none of whose calls starts the transmitter.                   *)
Quiet(s) == \A i \in 1 .. Len(s) : "csi" \notin s[i].starts

(* What configures the devices before the transmitter starts others only.  *)
LEMMA QuietRoutines ==
  ASSUME NEW k \in 2 .. 14
  PROVE  Quiet(Routine(MainSteps[k]))
  <1> USE DEF Quiet, Do, Try, Starting
  <1>1. Quiet(xgpio_i2c_init)
    BY DEF xgpio_i2c_init
  <1>2. Quiet(PsGpioSetup)
    <2>1. Len(Pins) = 13
      BY DEF Pins
    <2>2. Len(PsGpioSetup) = 15
      BY <2>1 DEF PsGpioSetup
    <2>3. /\ PsGpioSetup[1] = Do("XGpioPs_LookupConfig")
          /\ PsGpioSetup[2] = Try("XGpioPs_CfgInitialize")
          /\ \A i \in 3 .. 15 : PsGpioSetup[i] = Do(Pins[i - 2])
      BY <2>1 DEF PsGpioSetup
    <2> QED BY <2>2, <2>3
  <1>3. Quiet(Uart0_Init)
    BY DEF Uart0_Init, rs485_heir_xuart_setup, rs485_heir_xgpio_setup
  <1>4. Quiet(sil9136_config)
    BY DEF sil9136_config
  <1>5. Quiet(serdes)
    BY DEF serdes, Reads, Rate, max929x_write_array
  <1>6. Quiet(axis_switch_cfg)
    BY DEF axis_switch_cfg, AxisSwitch
  <1>7. Quiet(clkwiz_config)
    BY DEF clkwiz_config, XClk_Wiz_dynamic_reconfig, ClockFound, ClockLoaded,
           Wait_For_Lock
  <1>8. Quiet(vtc_config)
    BY DEF vtc_config, vtc_init, vtiming_gen_run
  <1>9. Quiet(tpg_config)
    BY DEF tpg_config, tpg_cfg, tpg_box
  <1>10. Quiet(vdma)
    BY DEF vdma
  <1>11. Quiet(vpss_config)
    BY DEF vpss_config
  <1>12. Quiet(gamma_lut_init)
    BY DEF gamma_lut_init
  <1>13. Quiet(demosaic_init)
    BY DEF demosaic_init
  <1>14. MainSteps[k] \in {"xgpio_i2c_init", "PsGpioSetup", "Uart0_Init",
           "sil9136_config", "serdes", "axis_switch_cfg", "clkwiz_config",
           "vtc_config", "tpg_config", "vdma_config_direct", "vpss_config",
           "gamma_lut_init", "demosaic_init"}
    BY DEF MainSteps
  <1> HIDE DEF Quiet
  <1> QED
    BY <1>1, <1>2, <1>3, <1>4, <1>5, <1>6, <1>7, <1>8, <1>9, <1>10, <1>11, <1>12,
       <1>13, <1>14 DEF Routine

(* A routine of Due makes the call that starts its device unless it fails  *)
(* before, and its failure stops main, or it cannot fail.                  *)
LEMMA DueRoutines ==
  ASSUME NEW t \in Due
  PROVE  LET c == Routine(MainSteps[t[2]])
         IN  /\ t[2] \in 2 .. 14 /\ t[3] \in 1 .. Len(c)
             /\ c[t[3]].starts = {t[1]} /\ c[t[3]].kind # "lock"
             /\ MainSteps[t[2]] \in Asserted
                \/ \A i \in 1 .. Len(c) : c[i].kind = "do"
  <1> DEFINE c == Routine(MainSteps[t[2]])
  <1> USE DEF Do, Try, Starting
  <1>0. /\ MainSteps[7] = "axis_switch_cfg" /\ MainSteps[9] = "vtc_config"
        /\ MainSteps[10] = "tpg_config" /\ MainSteps[11] = "vdma_config_direct"
        /\ MainSteps[12] = "vpss_config" /\ MainSteps[13] = "gamma_lut_init"
        /\ MainSteps[14] = "demosaic_init"
    BY DEF MainSteps
  <1>1. CASE t = <<"switch", 7, 6>>
    <2>1. c = axis_switch_cfg /\ MainSteps[t[2]] \in Asserted
      BY <1>0, <1>1 DEF Routine, Asserted
    <2> QED BY <1>1, <2>1 DEF axis_switch_cfg, AxisSwitch
  <1>2. CASE t = <<"vtc", 9, 9>>
    <2>1. c = vtc_config /\ MainSteps[t[2]] \in Asserted
      BY <1>0, <1>2 DEF Routine, Asserted
    <2>2. Len(vtc_config) = 10 /\ vtc_config[9] = Starting(Do("XVtc_Enable"), "vtc")
      BY DEF vtc_config, vtc_init, vtiming_gen_run
    <2> QED BY <1>2, <2>1, <2>2
  <1>3. CASE t = <<"tpg", 10, 12>>
    <2>1. c = tpg_config /\ MainSteps[t[2]] \in Asserted
      BY <1>0, <1>3 DEF Routine, Asserted
    <2>2. Len(tpg_config) = 12 /\ tpg_config[12] = Starting(Do("XV_tpg_Start"), "tpg")
      BY DEF tpg_config, tpg_cfg, tpg_box
    <2> QED BY <1>3, <2>1, <2>2
  <1>4. CASE t = <<"vdma", 11, 2>>
    <2>1. c = vdma
      BY <1>0, <1>4 DEF Routine
    <2> QED BY <1>4, <2>1 DEF vdma
  <1>5. CASE t = <<"vpss", 12, 6>>
    <2>1. c = vpss_config /\ MainSteps[t[2]] \in Asserted
      BY <1>0, <1>5 DEF Routine, Asserted
    <2> QED BY <1>5, <2>1 DEF vpss_config
  <1>6. CASE t = <<"gamma", 13, 8>>
    <2>1. c = gamma_lut_init /\ MainSteps[t[2]] \in Asserted
      BY <1>0, <1>6 DEF Routine, Asserted
    <2> QED BY <1>6, <2>1 DEF gamma_lut_init
  <1>7. CASE t = <<"demosaic", 14, 6>>
    <2>1. c = demosaic_init /\ MainSteps[t[2]] \in Asserted
      BY <1>0, <1>7 DEF Routine, Asserted
    <2> QED BY <1>7, <2>1 DEF demosaic_init
  <1> QED BY <1>1, <1>2, <1>3, <1>4, <1>5, <1>6, <1>7 DEF Due

(* The transmitter is activated after every device its stream needs, on    *)
(* every way through main: calls that fail, clocks that do not lock, and   *)
(* routines that end without a return statement.                           *)
LEMMA InOrderStep == StartedInOrder /\ [Next]_vars => StartedInOrder'
  <1> SUFFICES ASSUME StartedInOrder, [Next]_vars PROVE StartedInOrder'
    OBVIOUS
  <1> USE DEF StartedInOrder
  <1>0. \A t \in Due : t[2] \in 2 .. 14 /\ t[3] \in Nat \ {0}
    BY DEF Due
  <1>1. CASE init_platform
    <2>1. step = 1
      <3>1. Len(MainSteps) = 16 /\ \A k \in 2 .. 16 : MainSteps[k] # "init_platform"
        BY DEF MainSteps
      <3> QED BY <1>1, <3>1 DEF init_platform, Call
    <2>2. step' = 2 /\ at' = 1 /\ running' = running
      BY <1>1, <2>1 DEF init_platform, Return
    <2>3. \A t \in Due : t[2] > 2
      BY DEF Due
    <2> QED BY <2>1, <2>2, <2>3, <1>0
  <1>2. CASE ConfigStep
    <2>1. step \in 2 .. 15
      <3>1. /\ Len(MainSteps) = 16 /\ MainSteps[1] = "init_platform"
            /\ MainSteps[16] = "lwip_common_init"
        BY DEF MainSteps
      <3> QED BY <1>2, <3>1, RoutineGoesOn DEF Configuring
    <2>2. ASSUME NEW t \in Due, step = t[2]
          PROVE  /\ t[3] \in 1 .. Len(Calls)
                 /\ Calls[t[3]].starts = {t[1]} /\ Calls[t[3]].kind # "lock"
                 /\ MainSteps[step] \in Asserted
                    \/ \A i \in 1 .. Len(Calls) : Calls[i].kind = "do"
      BY <2>2, DueRoutines DEF Calls
    <2>3. CASE DriverCall
      <3>1. /\ at \in 1 .. Len(Calls) /\ at' = at + 1 /\ step' = step
            /\ running' = running \cup Calls[at].starts
        BY <2>3 DEF DriverCall
      <3>2. ASSUME "csi" \in running' PROVE step > 14
        <4>1. CASE step \in 2 .. 14
          <5>1. Quiet(Calls)
            BY <4>1, QuietRoutines DEF Calls
          <5> QED BY <3>1, <3>2, <5>1 DEF Quiet
        <4> QED BY <2>1, <4>1
      <3>3. ASSUME NEW t \in Due, step' > t[2] \/ (step' = t[2] /\ at' > t[3])
            PROVE  t[1] \in running'
        <4>1. CASE step = t[2] /\ at = t[3]
          BY <4>1, <2>2, <3>1
        <4>2. CASE ~(step = t[2] /\ at = t[3])
          <5>1. t[2] \in Nat /\ t[3] \in Nat
            BY <1>0
          <5>2. step > t[2] \/ (step = t[2] /\ at > t[3])
            BY <3>1, <3>3, <4>2, <5>1
          <5> QED BY <3>1, <5>2
        <4> QED BY <4>1, <4>2
      <3> QED BY <3>1, <3>2, <3>3
    <2>4. CASE NoLock
      <3>1. /\ at \in 1 .. Len(Calls) /\ at' = at + 1 /\ step' = step
            /\ running' = running /\ Calls[at].kind = "lock"
        BY <2>4 DEF NoLock
      <3>2. ASSUME NEW t \in Due, step' > t[2] \/ (step' = t[2] /\ at' > t[3])
            PROVE  t[1] \in running'
        <4>1. ~(step = t[2] /\ at = t[3])
          BY <2>2, <3>1
        <4>2. t[2] \in Nat /\ t[3] \in Nat
          BY <1>0
        <4>3. step > t[2] \/ (step = t[2] /\ at > t[3])
          BY <3>1, <3>2, <4>1, <4>2
        <4> QED BY <3>1, <4>3
      <3> QED BY <3>1, <3>2
    <2>5. CASE DriverCallFails
      <3>1. /\ at \in 1 .. Len(Calls) /\ Calls[at].kind = "try" /\ running' = running
        BY <2>5 DEF DriverCallFails
      <3>2. CASE MainSteps[step] \in Asserted
        BY <2>5, <3>1, <3>2 DEF DriverCallFails, Reported
      <3>3. CASE MainSteps[step] \notin Asserted
        <4>1. step' = step + 1 /\ at' = 1
          BY <2>5, <3>3 DEF DriverCallFails, Reported, Return, Goto
        <4>2. \A t \in Due : step # t[2]
          BY <2>2, <3>1, <3>3
        <4>3. \A t \in Due : step' > t[2] => step > t[2]
          BY <1>0, <4>1, <4>2
        <4>4. \A t \in Due : ~(at' > t[3])
          BY <1>0, <4>1
        <4> QED BY <3>1, <4>1, <4>3, <4>4
      <3> QED BY <3>2, <3>3
    <2>6. CASE RoutineEnds
      <3>1. at > Len(Calls) /\ running' = running
        BY <2>6 DEF RoutineEnds
      <3>2. (step' = step + 1 /\ at' = 1) \/ (step' = step /\ at' = at)
        BY <2>6 DEF RoutineEnds, Reported, Return
      <3>3. ASSUME NEW t \in Due, step' > t[2] \/ (step' = t[2] /\ at' > t[3])
            PROVE  t[1] \in running'
        <4>1. t[2] \in 2 .. 14 /\ t[3] \in Nat \ {0}
          BY <1>0
        <4>2. step = t[2] => at > t[3]
          BY <2>2, <3>1, <4>1
        <4>3. step > t[2] \/ (step = t[2] /\ at > t[3])
          BY <3>2, <3>3, <4>1, <4>2
        <4> QED BY <3>1, <4>3
      <3> QED BY <3>1, <3>2, <3>3
    <2> QED BY <1>2, <2>3, <2>4, <2>5, <2>6 DEF ConfigStep
  <1>3. CASE lwip_common_init
    <2>1. step + 1 > 16
      <3>1. Len(MainSteps) = 16
        BY DEF MainSteps
      <3> QED BY <1>3, <3>1, LastStep DEF lwip_common_init
    <2>2. step' = step + 1 /\ at' = at /\ running' = running
      BY <1>3 DEF lwip_common_init, pipeline
    <2> QED BY <1>0, <2>1, <2>2
  <1>4. CASE DhcpWait \/ start_applications \/ platform_enable_interrupts
    BY <1>4 DEF DhcpWait, start_applications, platform_enable_interrupts, pipeline
  <1>5. CASE tcp_fasttmr \/ fast_reset \/ tcp_slowtmr \/ slow_reset
    BY <1>5 DEF tcp_fasttmr, fast_reset, tcp_slowtmr, slow_reset, setup
  <1>6. CASE xemacif_input
    BY <1>6 DEF xemacif_input, setup
  <1>7. CASE PsSoftwareReset
    BY <1>0, <1>7 DEF PsSoftwareReset, Restart, setup
  <1>8. CASE timer_callback \/ emac_recv_handler
    BY <1>8 DEF timer_callback, emac_recv_handler, setup
  <1>9. CASE UNCHANGED vars
    BY <1>9 DEF vars, setup
  <1> QED
    BY <1>1, <1>2, <1>3, <1>4, <1>5, <1>6, <1>7, <1>8, <1>9
    DEF Next, main, Interrupt, ConfigStep

(* The CSI transmitter never starts on a stream whose switch, timing,      *)
(* generator, VDMA, scaler, gamma or demosaic was left out.                *)
THEOREM StreamPrepared == Spec => []AxisPrepared
  <1>1. Init => StartedInOrder
    BY DEF Init, StartedInOrder, Due
  <1>2. StartedInOrder /\ [Next]_vars => StartedInOrder'
    BY InOrderStep
  <1>3. StartedInOrder => AxisPrepared
    BY DEF StartedInOrder, AxisPrepared, Due
  <1> QED BY <1>1, <1>2, <1>3, PTL DEF Spec

=============================================================================
