------------------------- MODULE EepromPagesProofs -------------------------
(***************************************************************************)
(* Proofs about EepromPages, for every page size, block, device, every     *)
(* arguments in it and any number of calls: a write puts a prefix of its   *)
(* buffer where it was asked to, all of it when it returns success, and    *)
(* the xiic copy of a read delivers the bytes asked for.                   *)
(***************************************************************************)
EXTENDS EepromPages, Integers, TLAPS

(* What n bytes of the buffer, of which the pages before page_cnt were     *)
(* made, come to.                                                          *)
Done ==
  IF page_cnt = start_page THEN 0
  ELSE IF page_cnt > end_page THEN ByteCount ELSE BufferOffset

(* What the calls compute with.                                            *)
ArgsOK ==
  /\ intf \in Interfaces /\ pc \in {"idle", "page", "point", "receive"}
  /\ op \in {"none", "write", "read"}
  /\ start_addr \in Nat /\ ByteCount \in Nat \ {0} /\ page_cnt \in Nat
  /\ calls \in Nat

(* Which call is under way, and that it has not returned.                  *)
CallUnderWay ==
  /\ pc = "page" => op = "write" /\ Status = "none"
  /\ pc \in {"point", "receive"} => op = "read"

(* Between two turns of the loop the device holds the pages made so far.   *)
PagesSoFar ==
  pc = "page" /\ Reachable =>
    /\ page_cnt \in start_page .. end_page + 1
    /\ page_cnt = start_page \/ ByteCount > 1
    /\ Holds(Done)

AfterWrite ==
  pc = "idle" /\ op = "write" /\ Reachable =>
    /\ \E n \in 0 .. ByteCount : Holds(n)
    /\ Status = "success" /\ ByteCount > 1 => Holds(ByteCount)

(* The xiic copy goes on to receive only behind an address that the device *)
(* acknowledged.                                                           *)
PointerIsAddress ==
  pc = "receive" /\ intf = "xiic" => pointer = start_addr

IInv ==
  /\ ArgsOK /\ CallUnderWay /\ PagesSoFar /\ AfterWrite
  /\ PointerIsAddress /\ ReadIsFromAddress

-----------------------------------------------------------------------------
(* Quotients and remainders.                                               *)

LEMMA DivMod ==
  ASSUME NEW n \in Nat, NEW P \in Nat \ {0}
  PROVE  /\ n \div P \in Nat /\ n % P \in Nat /\ n % P < P
         /\ n = (n \div P) * P + (n % P)
OBVIOUS

LEMMA OneQuotient ==
  ASSUME NEW P \in Nat \ {0}, NEW q \in Nat, NEW r \in Nat, NEW a \in Nat,
         NEW b \in Nat, r < P, b < P, q * P + r = a * P + b
  PROVE  q = a /\ r = b
<1>1. CASE q < a
  <2>1. a * P >= (q + 1) * P BY <1>1
  <2> QED BY <2>1
<1>2. CASE a < q
  <2>1. q * P >= (a + 1) * P BY <1>2
  <2> QED BY <2>1
<1> QED BY <1>1, <1>2

LEMMA Parts ==
  ASSUME NEW P \in Nat \ {0}, NEW q \in Nat, NEW r \in Nat, r < P
  PROVE  (q * P + r) \div P = q /\ (q * P + r) % P = r
<1> DEFINE n == q * P + r
<1>1. n \in Nat OBVIOUS
<1>2. n = q * P + r OBVIOUS
<1> HIDE DEF n
<1>3. /\ n \div P \in Nat /\ n % P \in Nat /\ n % P < P
      /\ n = (n \div P) * P + (n % P)
  BY <1>1, DivMod
<1>4. n \div P = q /\ n % P = r
  BY <1>2, <1>3, OneQuotient
<1> QED BY <1>2, <1>4

-----------------------------------------------------------------------------
(* What one turn of the loop transfers.                                    *)

LEMMA FirstNotAfterLast ==
  ASSUME NEW P \in Nat \ {0}, NEW s \in Nat, NEW n \in Nat \ {0}
  PROVE  s \div P <= (s + n - 1) \div P
<1> DEFINE last == s + n - 1
           q == s \div P   r == s % P   e == last \div P   eo == last % P
<1>1. /\ q \in Nat /\ r \in Nat /\ r < P /\ s = q * P + r
      /\ e \in Nat /\ eo \in Nat /\ eo < P /\ last = e * P + eo
  BY DivMod
<1>2. s <= last
  OBVIOUS
<1> HIDE DEF last, q, r, e, eo
<1>3. ASSUME e < q PROVE FALSE
  <2>1. q * P >= (e + 1) * P BY <1>1, <1>3
  <2>2. (e + 1) * P = e * P + P BY <1>1
  <2>3. e * P \in Nat /\ q * P \in Nat BY <1>1
  <2> QED BY <2>1, <2>2, <2>3, <1>1, <1>2
<1>4. q <= e
  BY <1>1, <1>3
<1> QED BY <1>4 DEF q, e, last

(* Where the loop is: the quotients and remainders it computes with.       *)
LEMMA LoopArithmetic ==
  ASSUME ArgsOK
  PROVE  /\ start_page \in Nat \ {0} /\ end_page \in Nat \ {0}
         /\ start_page_offset \in Nat /\ start_page_offset < PageSize
         /\ end_page_offset \in Nat /\ end_page_offset < PageSize
         /\ start_addr = (start_page - 1) * PageSize + start_page_offset
         /\ start_addr + ByteCount - 1
              = (end_page - 1) * PageSize + end_page_offset
         /\ start_page <= end_page
<1>1. start_addr \in Nat /\ start_addr + ByteCount - 1 \in Nat
      /\ PageSize \in Nat \ {0}
  BY EepromAssumption DEF ArgsOK
<1>2. /\ start_addr \div PageSize \in Nat /\ start_page_offset \in Nat
      /\ start_page_offset < PageSize
      /\ start_addr = (start_addr \div PageSize) * PageSize + start_page_offset
  BY <1>1, DivMod DEF start_page_offset
<1> DEFINE last == start_addr + ByteCount - 1
<1>3. /\ last \div PageSize \in Nat /\ end_page_offset \in Nat
      /\ end_page_offset < PageSize
      /\ last = (last \div PageSize) * PageSize + end_page_offset
  BY <1>1, DivMod DEF end_page_offset
<1>4. start_page - 1 = start_addr \div PageSize
  BY <1>2 DEF start_page
<1>5. end_page - 1 = last \div PageSize
  BY <1>3 DEF end_page
<1>6. start_page \in Nat \ {0} /\ end_page \in Nat \ {0}
  BY <1>2, <1>3 DEF start_page, end_page
<1>7. start_page <= end_page
  <2>1. start_addr \div PageSize <= last \div PageSize
    BY <1>1, FirstNotAfterLast DEF ArgsOK
  <2> DEFINE a == start_addr \div PageSize   z == last \div PageSize
  <2>2. start_page = a + 1 /\ end_page = z + 1 /\ a <= z
        /\ a \in Nat /\ z \in Nat
    BY <2>1, <1>2, <1>3 DEF start_page, end_page
  <2> HIDE DEF a, z
  <2> QED BY <2>2
<1> QED BY <1>2, <1>3, <1>4, <1>5, <1>6, <1>7

(* From its second turn on the loop is at the beginning of a page: in a    *)
(* block that the buffer starts with, the page d pages on is found by its  *)
(* true block and the d pages counted within one.                          *)
LEMMA TargetOfPage ==
  ASSUME ArgsOK, Reachable, start_page < page_cnt, page_cnt <= end_page
  PROVE  Target = (page_cnt - 1) * PageSize
<1> DEFINE P == PageSize   L == Block   s == start_addr
           d == page_cnt - start_page
           k == (s \div P) + d
           b == s \div L   c == s % L   m == L \div P
           e == (d * P) \div L   f == (d * P) % L
<1>1. /\ P \in Nat \ {0} /\ L \in Nat \ {0} /\ L % P = 0
      /\ s \in Nat /\ d \in Nat
  BY LoopArithmetic, EepromAssumption DEF ArgsOK
<1>2. /\ m \in Nat /\ L = m * P
      /\ b \in Nat /\ c \in Nat /\ c < P /\ s = b * L + c
  <2>1. s % L < P
    BY LoopArithmetic DEF Reachable, ArgsOK
  <2> QED BY <1>1, <2>1, DivMod
<1>3. d * P \in Nat
  BY <1>1
<1>4. e \in Nat /\ f \in Nat /\ f < L /\ d * P = e * L + f
  BY <1>1, <1>3, DivMod
<1>5. page_cnt - 1 = k
  BY <1>1, LoopArithmetic DEF start_page, ArgsOK
<1>6. Target = ((k * P) \div L) * L + f
  <2>1. page_cnt # start_page
    BY LoopArithmetic DEF ArgsOK
  <2>2. Target = (((page_cnt - 1) * P) \div L) * L + f
    BY <2>1, Zenon DEF Target
  <2> HIDE DEF P, L, d, k, f
  <2> QED BY <1>5, <2>2, Zenon
<1>7. k = (s \div P) + d
  OBVIOUS
<1> HIDE DEF P, L, s, d, k, b, c, m, e, f
<1>8. b * m \in Nat /\ b * L = (b * m) * P
  BY <1>1, <1>2
<1>9. k = b * m + d
  <2>1. ((b * m) * P + c) \div P = b * m
    BY <1>1, <1>2, <1>8, Parts
  <2> QED BY <2>1, <1>2, <1>7, <1>8
<1>10. k * P = (b + e) * L + f
  <2>1. k * P = (b * m) * P + d * P
    BY <1>1, <1>8, <1>9
  <2>2. (b + e) * L = b * L + e * L
    BY <1>1, <1>2, <1>4
  <2>3. b * L \in Nat /\ e * L \in Nat
    BY <1>1, <1>2, <1>4
  <2> QED BY <1>4, <1>8, <2>1, <2>2, <2>3
<1>11. (k * P) \div L = b + e
  <2>1. b + e \in Nat BY <1>2, <1>4
  <2>2. ((b + e) * L + f) \div L = b + e BY <1>1, <2>1, <1>4, Parts
  <2> QED BY <2>2, <1>10
<1>12. Target = k * P
  BY <1>6, <1>10, <1>11
<1> QED BY <1>5, <1>12 DEF P

(* The transfer goes where its part of the buffer belongs, ends at a page's*)
(* end or the buffer's, and the next one takes up there.                   *)
LEMMA Transfer ==
  ASSUME ArgsOK, Reachable, page_cnt \in start_page .. end_page
  PROVE  /\ Target \in Nat /\ BufferOffset \in Nat /\ Length \in Nat
         /\ Target = start_addr + BufferOffset
         /\ \A j \in Nat : j < Length => InPage(Target, j) = Target + j
         /\ BufferOffset + Length <= ByteCount
         /\ page_cnt = end_page => BufferOffset + Length = ByteCount
         /\ page_cnt < end_page =>
              BufferOffset + Length
                = PageSize - start_page_offset
                  + (page_cnt - start_page) * PageSize
<1> DEFINE P == PageSize   q == start_page - 1   r == start_page_offset
           e == end_page - 1   eo == end_page_offset
           d == page_cnt - start_page
<1>1. /\ P \in Nat \ {0} /\ q \in Nat /\ e \in Nat /\ d \in Nat
      /\ r \in Nat /\ r < P /\ eo \in Nat /\ eo < P
      /\ start_addr \in Nat /\ ByteCount \in Nat \ {0}
      /\ start_addr = q * P + r /\ start_addr + ByteCount - 1 = e * P + eo
      /\ q + d <= e
  BY LoopArithmetic, EepromAssumption DEF ArgsOK
<1>2. page_cnt = start_page <=> d = 0
  BY LoopArithmetic DEF ArgsOK
<1>3. page_cnt = end_page <=> q + d = e
  BY LoopArithmetic DEF ArgsOK
<1>4. page_cnt < end_page <=> q + d < e
  BY LoopArithmetic DEF ArgsOK
<1>5. page_cnt - 1 = q + d /\ page_cnt - start_page = d
  BY LoopArithmetic DEF ArgsOK
<1>6. BufferOffset = IF d = 0 THEN 0 ELSE P - r + (d - 1) * P
  BY <1>2 DEF BufferOffset
<1>7. Length = IF d = 0 THEN IF r + ByteCount < P THEN ByteCount ELSE P - r
               ELSE IF q + d = e /\ eo # P - 1 THEN eo + 1 ELSE P
  BY <1>2, <1>3 DEF Length
<1>8. Target = IF d = 0 THEN start_addr ELSE (q + d) * P
  <2>1. CASE d = 0 BY <2>1, <1>2 DEF Target
  <2>2. CASE d # 0 BY <2>2, <1>2, <1>5, TargetOfPage, LoopArithmetic DEF ArgsOK
  <2> QED BY <2>1, <2>2
<1>9. q * P \in Nat /\ e * P \in Nat /\ d * P \in Nat
      /\ (q + d) * P = q * P + d * P
  BY <1>1
<1>10. d # 0 => (d - 1) * P = d * P - P /\ (d - 1) * P \in Nat
  <2>1. (d - 1) * P = d * P - P BY <1>1
  <2>2. d # 0 => d - 1 \in Nat BY <1>1
  <2>3. ASSUME NEW n \in Nat PROVE n * P \in Nat BY <1>1
  <2> QED BY <2>1, <2>2, <2>3
<1>11. q + d < e => q * P + d * P + P <= e * P
  <2>1. q + d < e => (q + d + 1) * P <= e * P BY <1>1
  <2>2. (q + d + 1) * P = q * P + d * P + P BY <1>1
  <2> QED BY <2>1, <2>2
<1>12. q + d = e => q * P + d * P = e * P
  BY <1>1, <1>9
<1>13. start_addr % P = r /\ start_addr \div P = q
  BY <1>1, Parts
<1> SUFFICES
     /\ Target \in Nat /\ BufferOffset \in Nat /\ Length \in Nat
     /\ Target = start_addr + BufferOffset
     /\ \A j \in Nat : j < Length => InPage(Target, j) = Target + j
     /\ BufferOffset + Length <= ByteCount
     /\ q + d = e => BufferOffset + Length = ByteCount
     /\ q + d < e => BufferOffset + Length = P - r + d * P
  BY <1>3, <1>4, <1>5
<1> HIDE DEF P, q, r, e, eo, d
<1>14. /\ Target \in Nat /\ BufferOffset \in Nat /\ Length \in Nat
       /\ Target = start_addr + BufferOffset
  <2>1. CASE d = 0 BY <2>1, <1>1, <1>6, <1>7, <1>8
  <2>2. CASE d # 0
    BY <2>2, <1>1, <1>6, <1>7, <1>8, <1>9, <1>10
  <2> QED BY <2>1, <2>2
<1>15. /\ BufferOffset + Length <= ByteCount
       /\ q + d = e => BufferOffset + Length = ByteCount
       /\ q + d < e => BufferOffset + Length = P - r + d * P
  <2>1. CASE d = 0
    BY <2>1, <1>1, <1>6, <1>7, <1>9, <1>11, <1>12
  <2>2. CASE d # 0
    BY <2>2, <1>1, <1>6, <1>7, <1>9, <1>10, <1>11, <1>12
  <2> QED BY <2>1, <2>2
<1>16. ASSUME NEW j \in Nat, j < Length PROVE InPage(Target, j) = Target + j
  <2>1. InPage(Target, j) = (Target \div P) * P + ((Target + j) % P)
    BY DEF InPage, P
  <2>2. CASE d = 0
    <3>1. Target = q * P + r /\ r + j \in Nat /\ r + j < P
      BY <2>2, <1>1, <1>7, <1>8, <1>16
    <3>2. Target + j = q * P + (r + j)
      BY <3>1, <1>1, <1>9
    <3>3. (q * P + (r + j)) % P = r + j /\ (q * P + r) \div P = q
      BY <3>1, <1>1, Parts
    <3> QED BY <2>1, <3>1, <3>2, <3>3, <1>1, <1>9
  <2>3. CASE d # 0
    <3>1. Target = (q + d) * P /\ q + d \in Nat /\ j < P
      BY <2>3, <1>1, <1>7, <1>8, <1>16
    <3>2. ((q + d) * P + j) % P = j /\ ((q + d) * P + 0) \div P = q + d
      BY <3>1, <1>1, Parts
    <3>3. (q + d) * P + 0 = (q + d) * P BY <1>1
    <3> QED BY <2>1, <3>1, <3>2, <3>3
  <2> QED BY <2>2, <2>3
<1> QED BY <1>14, <1>15, <1>16

(* n bytes of a page write lengthen the prefix that is in the device by n. *)
LEMMA PageWriteLengthens ==
  ASSUME ArgsOK, Reachable, page_cnt \in start_page .. end_page,
         Holds(BufferOffset), NEW n \in Nat, n <= Length, PageWrite(n),
         UNCHANGED args, NEW m \in Nat, m = BufferOffset + n
  PROVE  Holds(m)'
<1>1. /\ Target \in Nat /\ BufferOffset \in Nat /\ Length \in Nat
      /\ Target = start_addr + BufferOffset
      /\ \A j \in Nat : j < Length => InPage(Target, j) = Target + j
      /\ start_addr \in Nat
  BY Transfer DEF ArgsOK
<1>2. start_addr' = start_addr /\ calls' = calls /\ before' = before
  BY DEF args
<1> SUFFICES ASSUME NEW a \in Address
             PROVE  mem'[a] = IF start_addr <= a /\ a < start_addr + m
                              THEN [of |-> calls, at |-> a - start_addr]
                              ELSE before[a]
  BY <1>2 DEF Holds
<1>3. mem[a] = IF start_addr <= a /\ a < start_addr + BufferOffset
               THEN [of |-> calls, at |-> a - start_addr] ELSE before[a]
  BY DEF Holds
<1>4. a \in Nat
  BY EepromAssumption DEF Address
<1> DEFINE hit == \E j \in 0 .. n - 1 : a = InPage(Target, j)
           j0 == CHOOSE j \in 0 .. n - 1 : a = InPage(Target, j)
<1>5. mem'[a] = IF hit THEN [of |-> calls, at |-> BufferOffset + j0] ELSE mem[a]
  BY DEF PageWrite
<1>6. hit => j0 \in 0 .. n - 1 /\ a = Target + j0
  <2>1. hit => j0 \in 0 .. n - 1 /\ a = InPage(Target, j0)
    OBVIOUS
  <2> HIDE DEF hit, j0
  <2>2. j0 \in 0 .. n - 1 => j0 \in Nat /\ j0 < Length
    BY <1>1
  <2> QED BY <1>1, <2>1, <2>2
<1>7. ASSUME Target <= a, a < Target + n PROVE hit
  <2>1. a - Target \in 0 .. n - 1 /\ a - Target \in Nat /\ a - Target < Length
    BY <1>1, <1>4, <1>7
  <2>2. InPage(Target, a - Target) = Target + (a - Target)
    BY <1>1, <2>1
  <2>3. Target + (a - Target) = a
    BY <1>1, <1>4
  <2> QED BY <2>1, <2>2, <2>3
<1> HIDE DEF hit, j0
<1>8. CASE hit
  <2>1. a - start_addr = BufferOffset + j0 /\ start_addr <= a
        /\ a < start_addr + m
    BY <1>1, <1>4, <1>6, <1>8
  <2> QED BY <1>5, <1>8, <2>1
<1>9. CASE ~hit
  <2>1. ~(Target <= a /\ a < Target + n)
    BY <1>7, <1>9
  <2>2. (start_addr <= a /\ a < start_addr + m)
          <=> (start_addr <= a /\ a < start_addr + BufferOffset)
    BY <1>1, <1>4, <2>1
  <2> QED BY <1>3, <1>5, <1>9, <2>2
<1> QED BY <1>8, <1>9

(* What is done before a turn, and after the last one.                     *)
LEMMA DoneBefore ==
  ASSUME ArgsOK, page_cnt \in start_page .. end_page
  PROVE  Done = BufferOffset
<1>1. page_cnt <= end_page /\ page_cnt \in Nat /\ end_page \in Nat
  BY LoopArithmetic DEF ArgsOK
<1>2. ~(page_cnt > end_page)
  BY <1>1
<1> QED BY <1>2, Zenon DEF Done, BufferOffset

LEMMA DoneAfter ==
  ASSUME ArgsOK, Reachable, page_cnt \in start_page .. end_page,
         UNCHANGED args, page_cnt' = page_cnt + 1
  PROVE  Done' = BufferOffset + Length
<1> DEFINE k == page_cnt   k0 == start_page   k1 == end_page
<1>1. /\ k \in Nat /\ k0 \in Nat \ {0} /\ k1 \in Nat /\ k0 <= k /\ k <= k1
  BY LoopArithmetic DEF ArgsOK
<1>2. /\ start_page' = k0 /\ end_page' = k1 /\ ByteCount' = ByteCount
      /\ start_page_offset' = start_page_offset
  BY DEF start_page, end_page, start_page_offset, args
<1>3. /\ k = k1 => BufferOffset + Length = ByteCount
      /\ k < k1 => BufferOffset + Length
                     = PageSize - start_page_offset + (k - k0) * PageSize
  BY Transfer
<1>4. Done' = IF k + 1 = k0 THEN 0 ELSE IF k + 1 > k1 THEN ByteCount
              ELSE PageSize - start_page_offset + ((k + 1) - k0 - 1) * PageSize
  <2>1. Done' = IF page_cnt' = start_page' THEN 0
                ELSE IF page_cnt' > end_page' THEN ByteCount'
                ELSE PageSize - start_page_offset'
                     + (page_cnt' - start_page' - 1) * PageSize
    BY DEF Done, BufferOffset
  <2> QED BY <1>2, <2>1
<1> HIDE DEF k, k0, k1
<1>5. k + 1 # k0 /\ (k + 1) - k0 - 1 = k - k0
  BY <1>1
<1>6. CASE k = k1
  BY <1>1, <1>3, <1>4, <1>5, <1>6
<1>7. CASE k < k1
  <2>1. ~(k + 1 > k1) BY <1>1, <1>7
  <2> QED BY <1>3, <1>4, <1>5, <1>7, <2>1
<1> QED BY <1>1, <1>6, <1>7

-----------------------------------------------------------------------------
(* The invariant, part by part.                                            *)

LEMMA EepromInit == Init => IInv
<1> SUFFICES ASSUME Init PROVE IInv
  OBVIOUS
<1> QED
  BY DEF Init, IInv, ArgsOK, CallUnderWay, PagesSoFar, AfterWrite,
         PointerIsAddress, ReadIsFromAddress

(* A call begins.                                                          *)
LEMMA CallStep ==
  ASSUME IInv, NEW o \in {"write", "read"}, NEW s \in Starts, NEW n \in Counts,
         Call(o, s, n)
  PROVE  IInv'
<1>1. s \in Nat /\ n \in Nat \ {0} /\ PageSize \in Nat \ {0}
  BY EepromAssumption
<1>2. s \div PageSize + 1 \in Nat
  BY <1>1, DivMod
<1>3. /\ intf' = intf /\ op' = o /\ start_addr' = s /\ mem' = mem
      /\ ByteCount' = n /\ page_cnt' = s \div PageSize + 1
      /\ calls' = calls + 1 /\ before' = mem /\ Status' = "none"
      /\ pc' = IF o = "write" THEN "page" ELSE "point"
  BY DEF Call, device
<1>4. ArgsOK'
  BY <1>1, <1>2, <1>3 DEF IInv, ArgsOK
<1>5. PagesSoFar'
  <2>1. page_cnt' = start_page'
    BY <1>3 DEF start_page
  <2>2. start_page' \in Nat /\ end_page' \in Nat /\ start_page' <= end_page'
    <3> DEFINE a == s \div PageSize   z == (s + n - 1) \div PageSize
    <3>1. start_page' = a + 1 /\ end_page' = z + 1
      BY <1>3 DEF start_page, end_page
    <3>2. a \in Nat /\ z \in Nat /\ a <= z
      <4>1. s + n - 1 \in Nat BY <1>1
      <4> QED BY <1>1, <4>1, DivMod, FirstNotAfterLast
    <3> HIDE DEF a, z
    <3> QED BY <3>1, <3>2
  <2>3. Done' = 0
    BY <2>1 DEF Done
  <2>4. Holds(0)'
    BY <1>1, <1>3, EepromAssumption DEF Holds, Address
  <2>5. Holds(Done)'
    BY <2>3, <2>4
  <2>6. page_cnt' \in start_page' .. end_page' + 1
    <3> DEFINE a == start_page'   z == end_page'
    <3>1. a \in Nat /\ z \in Nat /\ a <= z BY <2>2
    <3> HIDE DEF a, z
    <3>2. a \in a .. z + 1 BY <3>1
    <3> QED BY <2>1, <3>2 DEF a, z
  <2> QED BY <2>1, <2>5, <2>6, Zenon DEF PagesSoFar
<1> QED
  BY <1>3, <1>4, <1>5 DEF IInv, CallUnderWay, AfterWrite, PointerIsAddress,
                          ReadIsFromAddress

(* The reads leave the device as it is, and the write's invariants hold of *)
(* nothing while a read is the last call.                                  *)
LEMMA ReadStep ==
  ASSUME IInv, ReadMovesPointer \/ ReadReceives \/ ReadFails
  PROVE  IInv'
<1>1. op = "read" /\ UNCHANGED args /\ UNCHANGED page_cnt /\ pc' # "page"
      /\ pc' \in {"idle", "receive"}
  BY DEF IInv, CallUnderWay, ReadMovesPointer, ReadReceives, ReadFails,
         AddressRefused, Return
<1>2. ArgsOK'
  BY <1>1 DEF IInv, ArgsOK, args
<1>3. CallUnderWay' /\ PagesSoFar' /\ AfterWrite'
  BY <1>1 DEF CallUnderWay, PagesSoFar, AfterWrite, args
<1>4. CASE ReadMovesPointer
  <2>1. PointerIsAddress'
    BY <1>1, <1>4 DEF ReadMovesPointer, AddressRefused, Return,
                      PointerIsAddress, args
  <2>2. ReadIsFromAddress'
    BY <1>1, <1>4 DEF IInv, ReadMovesPointer, AddressRefused, Return,
                      ReadIsFromAddress, args
  <2> QED BY <1>2, <1>3, <2>1, <2>2 DEF IInv
<1>5. CASE ReadReceives
  <2>1. from' = (start_addr \div Block) * Block + (pointer % Block)
        /\ pc = "receive" /\ pc' = "idle"
    BY <1>5 DEF ReadReceives, Return
  <2>2. start_addr = (start_addr \div Block) * Block + (start_addr % Block)
    BY EepromAssumption, DivMod DEF IInv, ArgsOK
  <2>3. intf = "xiic" => from' = start_addr
    BY <2>1, <2>2, Zenon DEF IInv, PointerIsAddress
  <2>4. PointerIsAddress' /\ ReadIsFromAddress'
    BY <1>1, <2>1, <2>3 DEF PointerIsAddress, ReadIsFromAddress, args
  <2> QED BY <1>2, <1>3, <2>4 DEF IInv
<1>6. CASE ReadFails
  <2>1. PointerIsAddress' /\ ReadIsFromAddress'
    BY <1>1, <1>6 DEF ReadFails, Return, PointerIsAddress, ReadIsFromAddress,
                      args
  <2> QED BY <1>2, <1>3, <2>1 DEF IInv
<1> QED BY <1>4, <1>5, <1>6

(* A step of the write loop has only these two to look after.              *)
LEMMA WriteKeepsRest ==
  ASSUME IInv, WritePage \/ WriteEnds \/ WriteFails \/ WriteAddressOnly,
         PagesSoFar', AfterWrite'
  PROVE  IInv'
<1>1. /\ op = "write" /\ Status = "none" /\ UNCHANGED args /\ pc = "page"
      /\ page_cnt' = page_cnt \/ page_cnt' = page_cnt + 1
      /\ pc' = "idle" \/ (pc' = pc /\ Status' = Status)
  BY DEF IInv, CallUnderWay, WritePage, WriteEnds, WriteFails,
         WriteAddressOnly, Return
<1>2. ArgsOK'
  BY <1>1 DEF IInv, ArgsOK, args
<1>3. CallUnderWay' /\ PointerIsAddress' /\ ReadIsFromAddress'
  BY <1>1 DEF CallUnderWay, PointerIsAddress, ReadIsFromAddress, args
<1> QED BY <1>2, <1>3 DEF IInv

(* What the pages and the arguments come to is fixed during a call.        *)
LEMMA ArgumentsStay ==
  ASSUME UNCHANGED args
  PROVE  /\ start_page' = start_page /\ end_page' = end_page
         /\ start_addr' = start_addr /\ ByteCount' = ByteCount
         /\ op' = op /\ calls' = calls /\ before' = before
         /\ Reachable' = Reachable
BY DEF args, start_page, end_page, Reachable

(* A turn that goes through, before it is decided whether the loop goes on.*)
LEMMA PageDone ==
  ASSUME IInv, WritePage, Reachable
  PROVE  /\ page_cnt' \in start_page .. end_page + 1
         /\ \E m \in 0 .. ByteCount : Done' = m /\ Holds(m)'
<1>1. /\ UNCHANGED args /\ pc = "page" /\ PageWrite(Length)
      /\ page_cnt <= end_page /\ page_cnt' = page_cnt + 1 /\ ArgsOK
  BY DEF WritePage, IInv
<1>2. page_cnt \in start_page .. end_page + 1 /\ Holds(Done)
  BY <1>1 DEF IInv, PagesSoFar
<1>3. page_cnt \in start_page .. end_page
  BY <1>1, <1>2, LoopArithmetic DEF ArgsOK
<1>4. page_cnt' \in start_page .. end_page + 1
  BY <1>1, <1>3, LoopArithmetic DEF ArgsOK
<1>5. Holds(BufferOffset)
  BY <1>1, <1>2, <1>3, DoneBefore
<1>6. /\ BufferOffset \in Nat /\ Length \in Nat
      /\ BufferOffset + Length <= ByteCount /\ ByteCount \in Nat
  BY <1>1, <1>3, Transfer DEF ArgsOK
<1>7. PICK m \in 0 .. ByteCount : m = BufferOffset + Length
  BY <1>6
<1>8. Holds(m)'
  BY <1>1, <1>3, <1>5, <1>6, <1>7, PageWriteLengthens
<1>9. Done' = m
  BY <1>1, <1>3, <1>7, DoneAfter
<1> QED BY <1>4, <1>8, <1>9

LEMMA WritePageStep ==
  ASSUME IInv, WritePage
  PROVE  PagesSoFar' /\ AfterWrite'
<1>1. /\ UNCHANGED args /\ pc = "page" /\ ByteCount > 1
      /\ (pc' = "idle" /\ Status' = "failure") \/ UNCHANGED <<pc, Status>>
  BY DEF WritePage, Return
<1>2. UNCHANGED <<start_page, end_page, ByteCount, Reachable>>
  BY <1>1, ArgumentsStay
<1>3. CASE ~Reachable
  BY <1>2, <1>3 DEF PagesSoFar, AfterWrite
<1>4. CASE Reachable
  <2>1. PICK m \in 0 .. ByteCount : Done' = m /\ Holds(m)'
    BY <1>4, PageDone
  <2>2. page_cnt' \in start_page' .. end_page' + 1
    BY <1>2, <1>4, PageDone
  <2>3. PagesSoFar'
    BY <1>1, <1>2, <2>1, <2>2, Zenon DEF PagesSoFar
  <2>4. AfterWrite'
    BY <1>1, <1>2, <2>1 DEF AfterWrite
  <2> QED BY <2>3, <2>4
<1> QED BY <1>3, <1>4

LEMMA WriteEndsStep ==
  ASSUME IInv, WriteEnds
  PROVE  PagesSoFar' /\ AfterWrite'
<1>1. /\ UNCHANGED <<mem, args, page_cnt>> /\ pc = "page" /\ ByteCount > 1
      /\ page_cnt > end_page /\ pc' = "idle" /\ ArgsOK
  BY DEF WriteEnds, Return, IInv, device
<1>2. PagesSoFar'
  BY <1>1 DEF PagesSoFar
<1>3. ASSUME Reachable PROVE Holds(ByteCount)
  <2>1. Holds(Done) /\ page_cnt # start_page
    BY <1>1, <1>3, LoopArithmetic DEF IInv, PagesSoFar, ArgsOK
  <2>2. Done = ByteCount
    BY <1>1, <2>1 DEF Done
  <2> QED BY <2>1, <2>2
<1>4. AfterWrite'
  <2>1. Reachable => Holds(ByteCount)'
    BY <1>1, <1>3, ArgumentsStay DEF Holds
  <2>2. ByteCount' = ByteCount /\ ByteCount \in 0 .. ByteCount
        /\ Reachable' = Reachable
    BY <1>1, ArgumentsStay DEF ArgsOK
  <2> QED BY <2>1, <2>2 DEF AfterWrite
<1> QED BY <1>2, <1>4

LEMMA WriteFailsStep ==
  ASSUME IInv, WriteFails
  PROVE  PagesSoFar' /\ AfterWrite'
<1>1. /\ UNCHANGED args /\ pc = "page" /\ page_cnt <= end_page
      /\ pc' = "idle" /\ Status' = "failure" /\ ArgsOK
  BY DEF WriteFails, Return, IInv
<1>2. PICK n \in 0 .. Length : PageWrite(n)
  BY DEF WriteFails
<1>3. PagesSoFar'
  BY <1>1 DEF PagesSoFar
<1>4. ASSUME Reachable PROVE \E m \in 0 .. ByteCount : Holds(m)'
  <2>1. page_cnt \in start_page .. end_page /\ Holds(Done)
    BY <1>1, <1>4, LoopArithmetic DEF IInv, PagesSoFar, ArgsOK
  <2>2. Holds(BufferOffset)
    BY <1>1, <2>1, DoneBefore
  <2>3. /\ BufferOffset \in Nat /\ Length \in Nat /\ n \in Nat /\ n <= Length
        /\ BufferOffset + Length <= ByteCount /\ ByteCount \in Nat
    BY <1>1, <1>2, <1>4, <2>1, Transfer DEF ArgsOK
  <2>4. PICK m \in 0 .. ByteCount : m = BufferOffset + n
    BY <2>3
  <2>5. Holds(m)'
    BY <1>1, <1>2, <1>4, <2>1, <2>2, <2>3, <2>4, PageWriteLengthens
  <2> QED BY <2>5
<1>5. AfterWrite'
  <2>1. ByteCount' = ByteCount /\ Reachable' = Reachable
    BY <1>1, ArgumentsStay
  <2>2. Status' # "success"
    BY <1>1
  <2>3. Reachable' => \E m \in 0 .. ByteCount' : Holds(m)'
    BY <1>4, <2>1, Zenon
  <2> QED BY <2>2, <2>3 DEF AfterWrite
<1> QED BY <1>3, <1>5

LEMMA WriteAddressOnlyStep ==
  ASSUME IInv, WriteAddressOnly
  PROVE  PagesSoFar' /\ AfterWrite'
<1>1. /\ UNCHANGED <<mem, args, page_cnt>> /\ pc = "page" /\ ByteCount = 1
      /\ pc' = "idle" /\ ArgsOK
  BY DEF WriteAddressOnly, Return, IInv
<1>2. ASSUME Reachable PROVE Holds(0)
  BY <1>1, <1>2 DEF IInv, PagesSoFar, Done
<1>3. AfterWrite'
  <2>1. Reachable => Holds(0)'
    BY <1>1, <1>2, ArgumentsStay DEF Holds
  <2>2. ByteCount' = 1 /\ Reachable' = Reachable
    BY <1>1, ArgumentsStay
  <2>3. Reachable' => \E n \in 0 .. ByteCount' : Holds(n)'
    BY <2>1, <2>2
  <2>4. ~(ByteCount' > 1)
    BY <2>2
  <2> QED BY <2>3, <2>4, Zenon DEF AfterWrite
<1> QED BY <1>1, <1>3 DEF PagesSoFar

LEMMA EepromStep == IInv /\ [Next]_vars => IInv'
<1> SUFFICES ASSUME IInv, [Next]_vars PROVE IInv'
  OBVIOUS
<1>1. ASSUME NEW s \in Starts, NEW n \in Counts,
             EepromWriteData(s, n) \/ EepromReadData(s, n)
      PROVE  IInv'
  BY <1>1, CallStep DEF EepromWriteData, EepromReadData
<1>2. CASE WritePage
  BY <1>2, WritePageStep, WriteKeepsRest
<1>3. CASE WriteEnds
  BY <1>3, WriteEndsStep, WriteKeepsRest
<1>4. CASE WriteFails
  BY <1>4, WriteFailsStep, WriteKeepsRest
<1>5. CASE WriteAddressOnly
  BY <1>5, WriteAddressOnlyStep, WriteKeepsRest
<1>6. CASE ReadMovesPointer \/ ReadReceives \/ ReadFails
  BY <1>6, ReadStep
<1>7. CASE UNCHANGED vars
  <2>1. UNCHANGED <<args, mem, pointer, pc, page_cnt, Status, from, got>>
    BY <1>7 DEF vars, device, read
  <2>2. UNCHANGED <<start_page, end_page, Reachable, Done>>
    BY <2>1, ArgumentsStay DEF Done, BufferOffset, start_page_offset, args
  <2>3. \A n : Holds(n)' = Holds(n)
    BY <2>1 DEF Holds, args
  <2> QED BY <2>1, <2>2, <2>3 DEF IInv, ArgsOK, CallUnderWay, PagesSoFar,
                AfterWrite, PointerIsAddress, ReadIsFromAddress, args
<1> QED
  BY <1>1, <1>2, <1>3, <1>4, <1>5, <1>6, <1>7 DEF Next

LEMMA EepromAlways == Spec => []IInv
BY EepromInit, EepromStep, PTL DEF Spec

-----------------------------------------------------------------------------
(* Whatever page size, block and arguments: the device holds a prefix of   *)
(* the buffer at the address asked for and is otherwise as it was, at every*)
(* point of a write and wherever it fails.                                 *)
THEOREM PrefixWritten == Spec => []WritesPrefix
<1>1. IInv => WritesPrefix
  <2> SUFFICES ASSUME IInv, op = "write", Reachable
               PROVE  \E n \in 0 .. ByteCount : Holds(n)
    BY DEF WritesPrefix
  <2>1. pc = "page" \/ pc = "idle"
    BY DEF IInv, ArgsOK, CallUnderWay
  <2>2. CASE pc = "idle"
    BY <2>2 DEF IInv, AfterWrite
  <2>3. CASE pc = "page"
    <3>1. Holds(Done) /\ page_cnt \in start_page .. end_page + 1
      BY <2>3 DEF IInv, PagesSoFar
    <3>2. Done \in 0 .. ByteCount
      <4>1. CASE page_cnt = start_page
        BY <4>1 DEF Done, IInv, ArgsOK
      <4>2. CASE page_cnt > end_page
        BY <4>2 DEF Done, IInv, ArgsOK
      <4>3. CASE page_cnt # start_page /\ ~(page_cnt > end_page)
        <5>1. page_cnt \in start_page .. end_page /\ ByteCount \in Nat
          BY <3>1, <4>3, LoopArithmetic DEF IInv, ArgsOK
        <5>2. BufferOffset \in Nat /\ Length \in Nat
              /\ BufferOffset + Length <= ByteCount
          BY <5>1, Transfer DEF IInv
        <5>3. Done = BufferOffset
          BY <4>3 DEF Done
        <5> QED BY <5>1, <5>2, <5>3
      <4> QED BY <4>1, <4>2, <4>3
    <3> QED BY <3>1, <3>2
  <2> QED BY <2>1, <2>2, <2>3
<1> QED BY <1>1, EepromAlways, PTL

(* Success is returned for the whole buffer.                               *)
THEOREM SuccessIsWhole == Spec => []SuccessMeansWritten
<1>1. IInv => SuccessMeansWritten
  BY DEF IInv, ArgsOK, CallUnderWay, AfterWrite, SuccessMeansWritten
<1> QED BY <1>1, EepromAlways, PTL

(* The xiic copy delivers bytes of the address asked for.                  *)
THEOREM ReadFindsAddress == Spec => []ReadIsFromAddress
<1>1. IInv => ReadIsFromAddress
  BY DEF IInv
<1> QED BY <1>1, EepromAlways, PTL

=============================================================================
