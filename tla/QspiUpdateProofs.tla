-------------------------- MODULE QspiUpdateProofs --------------------------
(***************************************************************************)
(* The safety properties of QspiUpdate, for every geometry of the flash,   *)
(* every size of the images and every number of updates, failures and      *)
(* power cuts.                                                             *)
(***************************************************************************)
EXTENDS QspiUpdate, TLAPS

(* What the arithmetic of the steps needs to know of the variables.        *)
Typed ==
  /\ hw \in Hardware /\ type \in {0, 1}
  /\ total_bytes \in Nat /\ done \in Nat
  /\ said \in BOOLEAN /\ upper \in BOOLEAN
  /\ pc \in {"idle", "enter", "erase", "program", "verify", "accept",
             "refuse", "dead"}

(* The bytes compared so far are those of the image, and the message       *)
(* belongs to a page after which nothing is left to compare.               *)
Verified ==
  /\ pc \in {"enter", "erase", "program"} => ~said
  /\ pc \in {"verify", "accept"} =>
       \A j \in 0 .. total_bytes - 1 :
         j < done => flash[Base(type) + j] = [img |-> image, at |-> j]
  /\ pc \in {"verify", "accept"} /\ said => done >= total_bytes
  /\ pc = "accept" => done >= total_bytes

(* No transfer failed that is not retried, and no image went on in the     *)
(* upper chip: what ModeRestored asks for.                                 *)
Clean == lost \cap {"enter", "erase", "exit"} = {} /\ ~BeyondLower

(* The chips in 4-byte mode are then those the next exit reaches: none or  *)
(* the lower one, which is selected from the first page on at the latest.  *)
LowerOnly ==
  /\ four \subseteq {0}
  /\ ~Big => four = {}
  /\ pc \in {"idle", "enter"} => four = {}
  /\ Big => /\ pc \in {"idle", "enter", "accept", "refuse"} => sel = 0
            /\ pc = "program" /\ done > 0 /\ total_bytes = 0 => sel = 0
            /\ pc = "verify" /\ (done > 0 \/ total_bytes = 0) => sel = 0
            /\ pc # "idle" => Base(type) + total_bytes <= FlashDeviceSize

USE QspiAssumption

LEMMA BaseInside ==
  ASSUME Typed
  PROVE  Base(type) \in Nat /\ Base(type) < FlashDeviceSize
  <1>1. hw.board \in Boards
    BY DEF Typed, Hardware, Boards
  <1> QED BY <1>1 DEF Base, QspiAssumption, Typed

(* An address below the size of a chip is in the lower one.                *)
LEMMA LowerChip ==
  ASSUME NEW a \in Nat, a < FlashDeviceSize
  PROVE  Chip(a) = 0
  BY SMT DEF Chip, QspiAssumption

LEMMA TypedInit == Init => Typed
  <1> SUFFICES ASSUME Init PROVE Typed
    OBVIOUS
  <1>1. hw \in Hardware /\ said \in BOOLEAN /\ upper \in BOOLEAN
    BY Zenon DEF Init
  <1>2. type = 0 /\ total_bytes = 0 /\ done = 0 /\ pc = "idle"
    BY Zenon DEF Init
  <1> QED BY <1>1, <1>2 DEF Typed

LEMMA TypedStep == Typed /\ [Next]_vars => Typed'
  <1> SUFFICES ASSUME Typed, [Next]_vars PROVE Typed'
    OBVIOUS
  <1> USE DEF Typed, call, NoFault
  <1>0. hw' = hw
    BY DEF vars, Next, Begin, qspi_update, Enter4B, EraseSector, EraseDone, ProgramPage,
           ProgramDone, VerifyPage, VerifyFails, VerifyDone, Exit4B, PowerCut
  <1>1. ASSUME NEW t \in {0, 1}, NEW n \in Sizes, Begin(t, n) PROVE Typed'
    <2>1. upper' \in BOOLEAN /\ n \in Nat
      BY <1>1 DEF Begin, QspiAssumption
    <2> QED BY <1>1, <2>1 DEF Begin
  <1>2. CASE Enter4B
    BY <1>2 DEF Enter4B, EnterFails, Fault
  <1>3. CASE EraseSector
    BY <1>3 DEF EraseSector, Fault
  <1>4. CASE EraseDone \/ ProgramPage \/ ProgramDone
    BY <1>4 DEF EraseDone, ProgramPage, ProgramDone
  <1>5. CASE VerifyPage
    <2>1. said' \in BOOLEAN /\ done' \in Nat
      BY <1>5 DEF VerifyPage, PartOfPage, QspiAssumption
    <2> QED BY <1>5, <2>1 DEF VerifyPage
  <1>6. CASE VerifyFails
    BY <1>6 DEF VerifyFails
  <1>7. CASE VerifyDone \/ Exit4B \/ PowerCut
    BY <1>7 DEF VerifyDone, Exit4B, PowerCut
  <1>8. CASE UNCHANGED vars
    BY <1>8 DEF vars
  <1> QED BY <1>1, <1>2, <1>3, <1>4, <1>5, <1>6, <1>7, <1>8 DEF Next, qspi_update

-----------------------------------------------------------------------------
LEMMA VerifiedInit == Init => Verified
  BY DEF Init, Verified

(* Every step keeps what was compared: the flash does not change while it  *)
(* is being verified, and a page is compared as far as the image goes.     *)
LEMMA VerifiedStep == Typed /\ Verified /\ [Next]_vars => Verified'
  <1> SUFFICES ASSUME Typed, Verified, [Next]_vars PROVE Verified'
    OBVIOUS
  <1> USE DEF Verified
  <1>1. ASSUME NEW t \in {0, 1}, NEW n \in Sizes, Begin(t, n) PROVE Verified'
    BY <1>1 DEF Begin
  <1>2. CASE Enter4B
    BY <1>2 DEF Enter4B, EnterFails
  <1>3. CASE EraseSector
    BY <1>3 DEF EraseSector
  <1>4. CASE EraseDone \/ ProgramPage
    BY <1>4 DEF EraseDone, ProgramPage
  <1>5. CASE ProgramDone
    <2>1. pc' = "verify" /\ ~said' /\ done' = 0 /\ total_bytes' = total_bytes
      BY <1>5 DEF ProgramDone, call
    <2> QED BY <2>1 DEF Typed
  <1>6. CASE VerifyPage
    <2>1. /\ pc = "verify" /\ pc' = "verify" /\ done < total_bytes
          /\ done' = done + PAGE_SIZE /\ said' = PartOfPage
          /\ UNCHANGED <<hw, type, total_bytes, image, flash>>
      BY <1>6 DEF VerifyPage, call
    <2>2. said' => done' >= total_bytes'
      BY <2>1 DEF PartOfPage, Typed, QspiAssumption
    <2>3. ASSUME NEW j \in 0 .. total_bytes - 1, j < done + PAGE_SIZE
          PROVE  flash[Base(type) + j] = [img |-> image, at |-> j]
      <3>1. CASE j < done
        BY <2>1, <3>1
      <3>2. CASE ~(j < done)
        <4>1. j \in done .. done + Compared - 1
          BY <2>3, <3>2 DEF Compared, Typed, QspiAssumption
        <4>2. Data(j) = [img |-> image, at |-> j]
          BY DEF Data, Typed
        <4> QED BY <1>6, <4>1, <4>2 DEF VerifyPage, PageIsRight
      <3> QED BY <3>1, <3>2
    <2>4. \A k \in Nat : (Base(type) + k)' = Base(type) + k
      BY <2>1 DEF Base
    <2>5. ASSUME NEW j \in 0 .. total_bytes' - 1, j < done'
          PROVE  flash'[(Base(type) + j)'] = [img |-> image', at |-> j]
      BY <2>1, <2>3, <2>4, <2>5 DEF Typed
    <2> QED BY <2>1, <2>2, <2>4, <2>5
  <1>7. CASE VerifyFails
    BY <1>7 DEF VerifyFails
  <1>8. CASE VerifyDone
    <2>1. /\ pc = "verify" /\ pc' = "accept" /\ done >= total_bytes
          /\ UNCHANGED <<hw, type, total_bytes, image, flash, done, said>>
      BY <1>8 DEF VerifyDone, call
    <2> QED BY <2>1 DEF Base
  <1>9. CASE Exit4B \/ PowerCut
    BY <1>9 DEF Exit4B, PowerCut
  <1>10. CASE UNCHANGED vars
    <2>1. UNCHANGED <<hw, type, total_bytes, image, flash, done, said, pc>>
      BY <1>10 DEF vars
    <2> QED BY <2>1 DEF Base
  <1> QED BY <1>1, <1>2, <1>3, <1>4, <1>5, <1>6, <1>7, <1>8, <1>9, <1>10
          DEF Next, qspi_update

(* The message "Verify Operation Successful" is never sent for an image    *)
(* that is not in the flash, byte for byte, at the moment of sending and   *)
(* until the call returns: whatever page failed to be programmed, silently *)
(* or not, and however the image's size relates to the page's.             *)
THEOREM MessageIsTrue == Spec => []SuccessMessageIsTrue
  <1>1. Init => Typed /\ Verified
    BY TypedInit, VerifiedInit
  <1>2. Typed /\ Verified /\ [Next]_vars => (Typed /\ Verified)'
    BY TypedStep, VerifiedStep
  <1>3. Typed /\ Verified => SuccessMessageIsTrue
    BY DEF Typed, Verified, SuccessMessageIsTrue, Holds
  <1> QED BY <1>1, <1>2, <1>3, PTL DEF Spec

-----------------------------------------------------------------------------
LEMMA LowerOnlyInit == Init => LowerOnly
  BY DEF Init, LowerOnly

(* What was lost, and an image in the upper chip, is never forgotten.      *)
LEMMA CleanBefore == [Next]_vars /\ Clean' => Clean
  <1> SUFFICES ASSUME [Next]_vars, Clean' PROVE Clean
    OBVIOUS
  <1> USE DEF vars, call, Next, Begin, qspi_update, Enter4B, EnterFails,
         EraseSector, EraseDone, ProgramPage, ProgramDone, VerifyPage,
         VerifyFails, VerifyDone, Exit4B, PowerCut, Fault, NoFault
  <1>1. hw' = hw
    OBVIOUS
  <1>2. lost \subseteq lost'
    OBVIOUS
  <1>3. upper => upper'
    BY Zenon
  <1> QED BY <1>1, <1>2, <1>3 DEF Clean, BeyondLower, Big

(* The steps of a clean run: the mode is entered and left on the lower     *)
(* chip only.                                                              *)
LEMMA LowerOnlyStep ==
  Typed /\ (Clean => LowerOnly) /\ [Next]_vars => (Clean => LowerOnly)'
  <1> SUFFICES ASSUME Typed, LowerOnly, [Next]_vars, Clean, Clean' PROVE LowerOnly'
    BY CleanBefore
  <1> USE DEF LowerOnly
  <1>a. Base(type) \in Nat /\ Base(type) < FlashDeviceSize
    BY BaseInside
  <1>b. \A k \in {"enter", "erase", "exit"} : ~Fault(k)
    BY DEF Fault, Clean
  <1>c. Chip(Base(type)) = 0
    BY <1>a, LowerChip
  <1>1. ASSUME NEW t \in {0, 1}, NEW n \in Sizes, Begin(t, n) PROVE LowerOnly'
    <2>1. /\ pc = "idle" /\ pc' = "enter" /\ hw' = hw /\ UNCHANGED <<four, sel>>
          /\ type' = t /\ total_bytes' = n
          /\ upper' = (upper \/ Base(t) + n > FlashDeviceSize)
      BY <1>1 DEF Begin
    <2>2. Base(t) = Base(type)' /\ Base(t) \in Nat /\ n \in Nat
      <3>1. hw.board \in Boards
        BY DEF Typed, Hardware, Boards
      <3> QED BY <2>1, <3>1 DEF Base, QspiAssumption
    <2>3. Big' => Base(t) + n <= FlashDeviceSize
      <3>1. Big' => ~(Base(t) + n > FlashDeviceSize)
        BY <2>1, Zenon DEF Clean, BeyondLower
      <3> QED BY <2>2, <3>1 DEF QspiAssumption
    <2> QED BY <2>1, <2>2, <2>3 DEF Big
  <1>2. CASE Enter4B
    <2>1. /\ pc = "enter" /\ pc' = "erase" /\ four' = four \cup ModeChips
          /\ UNCHANGED <<hw, type, total_bytes>>
      BY <1>2, <1>b DEF Enter4B, EnterFails, call
    <2>2. ModeChips \subseteq {0} /\ (~Big => ModeChips = {})
      BY <2>1 DEF ModeChips, Big
    <2> QED BY <2>1, <2>2 DEF Big, Base
  <1>3. CASE EraseSector
    <2>1. pc = "erase" /\ pc' = "erase" /\ UNCHANGED <<hw, type, total_bytes, four>>
      BY <1>3, <1>b DEF EraseSector, call
    <2> QED BY <2>1 DEF Big, Base
  <1>4. CASE EraseDone
    <2>1. /\ pc = "erase" /\ pc' = "program" /\ done' = 0
          /\ UNCHANGED <<hw, type, total_bytes, four>>
      BY <1>4 DEF EraseDone, call
    <2> QED BY <2>1 DEF Big, Base
  <1>5. CASE ProgramPage
    <2>1. /\ pc = "program" /\ pc' = "program" /\ sel' = Chip(PageAddr)
          /\ done < TotalPage
          /\ UNCHANGED <<hw, type, total_bytes, four>>
      BY <1>5 DEF ProgramPage, call
    <2>2. ASSUME total_bytes = 0 PROVE sel' = 0
      <3>1. TotalPage = 1
        BY <2>2, SMT DEF TotalPage, QspiAssumption
      <3>2. done = 0
        BY <2>1, <3>1 DEF Typed
      <3>3. PageAddr = Base(type)
        BY <3>2, <1>a DEF PageAddr, QspiAssumption
      <3> QED BY <2>1, <3>3, <1>c
    <2> QED BY <2>1, <2>2 DEF Big, Base
  <1>6. CASE ProgramDone
    <2>1. /\ pc = "program" /\ pc' = "verify" /\ done' = 0 /\ done = TotalPage
          /\ UNCHANGED <<hw, type, total_bytes, four, sel>>
      BY <1>6 DEF ProgramDone, call
    <2>2. TotalPage > 0
      BY SMT DEF TotalPage, Typed, QspiAssumption
    <2> QED BY <2>1, <2>2 DEF Big, Base
  <1>7. CASE VerifyPage \/ VerifyFails
    <2>1. /\ pc = "verify" /\ done < total_bytes
          /\ pc' \in {"verify", "refuse", "dead"} /\ sel' = Chip(Base(type) + done)
          /\ UNCHANGED <<hw, type, total_bytes, four>>
      BY <1>7 DEF VerifyPage, VerifyFails, call
    <2>2. CASE Big
      <3>1. Base(type) + done \in Nat /\ Base(type) + done < FlashDeviceSize
        BY <2>1, <2>2, <1>a DEF Typed, QspiAssumption
      <3>2. sel' = 0
        BY <2>1, <3>1, LowerChip
      <3> QED BY <2>1, <3>2 DEF Big, Base
    <2>3. CASE ~Big
      <3> QED BY <2>1, <2>3 DEF Big, Base
    <2> QED BY <2>2, <2>3
  <1>8. CASE VerifyDone
    <2>1. /\ pc = "verify" /\ pc' = "accept" /\ done >= total_bytes
          /\ UNCHANGED <<hw, type, total_bytes, four, sel, done>>
      BY <1>8 DEF VerifyDone, call
    <2>2. done > 0 \/ total_bytes = 0
      BY <2>1 DEF Typed
    <2> QED BY <2>1, <2>2 DEF Big, Base
  <1>9. CASE Exit4B
    <2>1. /\ pc \in {"accept", "refuse"} /\ pc' = "idle"
          /\ four' = four \ ModeChips /\ sel' = ModeSelects
          /\ UNCHANGED <<hw, type, total_bytes>>
      BY <1>9, <1>b DEF Exit4B, Left4B, call
    <2>2. Big => sel' = 0
      BY <2>1 DEF ModeSelects
    <2>3. Big => ModeChips = {0}
      BY <2>1 DEF ModeChips, Big, Typed, Hardware, Parts
    <2> QED BY <2>1, <2>2, <2>3 DEF Big
  <1>10. CASE PowerCut
    BY <1>10 DEF PowerCut
  <1>11. CASE UNCHANGED vars
    BY <1>11 DEF vars, Big, Base
  <1> QED BY <1>1, <1>2, <1>3, <1>4, <1>5, <1>6, <1>7, <1>8, <1>9, <1>10, <1>11
          DEF Next, qspi_update

(* A call that returns leaves no chip in 4-byte mode, unless a transfer    *)
(* failed in a step without a retry or an image went on in the upper chip, *)
(* on every board and with every part: the exit reaches the chip that the  *)
(* entry reached, although other chips are selected in between.            *)
THEOREM ModeIsRestored == Spec => []ModeRestored
  <1> DEFINE IInv == Typed /\ (Clean => LowerOnly)
             Idle == result \in {"success", "failure"} => pc = "idle"
  <1>1. Init => IInv /\ Idle
    BY TypedInit, LowerOnlyInit DEF Init
  <1>2. IInv /\ [Next]_vars => IInv'
    BY TypedStep, LowerOnlyStep
  <1>3. Idle /\ [Next]_vars => Idle'
    BY DEF vars, call, Next, Begin, qspi_update, Enter4B, EnterFails, EraseSector,
           EraseDone, ProgramPage, ProgramDone, VerifyPage, VerifyFails,
           VerifyDone, Exit4B, PowerCut, Fault, NoFault
  <1>4. IInv /\ Idle => ModeRestored
    BY DEF Clean, LowerOnly, ModeRestored
  <1> HIDE DEF IInv, Idle
  <1>5. Spec => [](IInv /\ Idle)
    BY <1>1, <1>2, <1>3, PTL DEF Spec
  <1> QED BY <1>4, <1>5, PTL

-----------------------------------------------------------------------------
(* After the mode was entered and until the call ends, the lower chip is   *)
(* in it, whichever chip is selected, on a board and part that need it.    *)
Working == {"erase", "program", "verify", "accept", "refuse"}
InMode ==
  /\ ~hw.stacked => sel = 0
  /\ Big /\ ~Uses4BCommands /\ ~EnteredBlindly /\ pc \in Working => 0 \in four
  /\ Big /\ ZynqMP /\ pc \in {"idle", "enter"} /\ sel # 0 => 0 \in four

(* An image reported as installed is whole and ends before the other area, *)
(* or the flash, does.                                                     *)
Kept(t) ==
  LET i == installed[t]
  IN  i # Nothing => /\ i.size \in Nat /\ (t = 1 => i.size <= UpdateBase[hw.board])
                     /\ Base(t) + i.size <= 2 * FlashDeviceSize
                     /\ Holds(t, i.img, i.size)

(* Nothing is promised of the area at work, whose image fits it.           *)
Apart ==
  /\ InMode
  /\ installed \in [{0, 1} -> {Nothing} \cup [img : Nat, size : Nat]]
  /\ image \in Nat
  /\ pc # "idle" => Fits(type, total_bytes) /\ installed[type] = Nothing
  /\ ~EnteredBlindly => \A t \in {0, 1} : Kept(t)

(* A byte of the area the call at work is not for.                         *)
Elsewhere(a) == IF type = 1 THEN a >= UpdateBase[hw.board] ELSE a < UpdateBase[hw.board]

LEMMA BaseOfBoard ==
  ASSUME Typed
  PROVE  UpdateBase[hw.board] \in Nat /\ UpdateBase[hw.board] < FlashDeviceSize
  <1>1. hw.board \in Boards
    BY DEF Typed, Hardware, Boards
  <1> QED BY <1>1 DEF QspiAssumption

(* Multiplication is monotonic: the form the geometry needs it in.         *)
LEMMA Multiples ==
  ASSUME NEW a \in Nat, NEW b \in Nat, NEW c \in Nat, a <= b
  PROVE  a * c \in Nat /\ b * c \in Nat /\ a * c <= b * c
  <1>1. (b - a) * c \in Nat
    BY SMT
  <1> QED BY <1>1, SMT

LEMMA DivMod ==
  ASSUME NEW a \in Nat, NEW n \in Nat \ {0}
  PROVE  /\ a \div n \in Nat /\ a % n \in Nat /\ a % n < n
         /\ a = (a \div n) * n + (a % n)
  BY SMT

(* What a command for n bytes at a works on: those bytes, or, misread, some*)
(* of the upper chip.                                                      *)
LEMMA UnitInside ==
  ASSUME Typed, NEW a \in Nat, NEW n \in Nat \ {0}, NEW b \in Unit(a, n),
         Big /\ ~Uses4BCommands => 0 \in four
  PROVE  b \in Nat /\ ((a <= b /\ b < a + n) \/ (Chip(a) # 0 /\ b >= FlashDeviceSize))
  <1>1. CASE Reached(a)
    BY <1>1 DEF Unit, Bytes, Address, QspiAssumption
  <1>2. CASE ~Reached(a)
    <2> DEFINE at == (a % FlashDeviceSize) \div AddrByte
    <2>1. Chip(a) # 0
      BY <1>2 DEF Reached
    <2>2. Chip(a) \in Nat /\ Chip(a) >= 1
      BY <2>1, DivMod DEF Chip, QspiAssumption
    <2>3. Chip(a) * FlashDeviceSize >= FlashDeviceSize
      <3>1. 1 * FlashDeviceSize <= Chip(a) * FlashDeviceSize
        BY <2>2, Multiples DEF QspiAssumption
      <3> QED BY <3>1 DEF QspiAssumption
    <2>4. at \in Nat /\ at - (at % n) \in Nat
      <3>1. at \in Nat
        BY DivMod DEF QspiAssumption
      <3>2. (at \div n) * n \in Nat
        BY <3>1, DivMod, Multiples
      <3>3. at = (at \div n) * n + (at % n) /\ at % n \in Nat
        BY <3>1, DivMod
      <3> HIDE DEF at
      <3> QED BY <3>1, <3>2, <3>3
    <2>5. b \in Bytes(Chip(a) * FlashDeviceSize + (at - (at % n)), n)
      BY <1>2 DEF Unit
    <2> HIDE DEF at
    <2>6. Chip(a) * FlashDeviceSize \in Nat
      BY <2>2, Multiples DEF QspiAssumption
    <2> QED BY <2>1, <2>3, <2>4, <2>5, <2>6 DEF Bytes, Address, QspiAssumption
  <1> QED BY <1>1, <1>2

(* The sectors erased and the pages programmed lie within the area that    *)
(* the image was found to fit, the last page in the last sector.           *)
LEMMA WithinSectors ==
  ASSUME Typed
  PROVE  /\ TotalSector \in Nat /\ TotalSector * SectSize \in Nat
         /\ total_bytes <= TotalSector * SectSize
         /\ MoreSectors => done * SectSize + SectSize <= TotalSector * SectSize
         /\ done < TotalPage => done * PAGE_SIZE + PAGE_SIZE <= TotalSector * SectSize
  <1> DEFINE q == total_bytes \div SectSize
             p == total_bytes \div PAGE_SIZE
             k == SectSize \div PAGE_SIZE
  <1>1. /\ q \in Nat /\ p \in Nat /\ k \in Nat
        /\ total_bytes < (q + 1) * SectSize /\ p * PAGE_SIZE <= total_bytes
        /\ SectSize = k * PAGE_SIZE
    <2>1. /\ q \in Nat /\ total_bytes % SectSize < SectSize
          /\ total_bytes = q * SectSize + (total_bytes % SectSize)
          /\ total_bytes % SectSize \in Nat
      BY DivMod DEF Typed, QspiAssumption
    <2>2. /\ p \in Nat /\ total_bytes % PAGE_SIZE \in Nat
          /\ total_bytes = p * PAGE_SIZE + (total_bytes % PAGE_SIZE)
      BY DivMod DEF Typed, QspiAssumption
    <2>3. k \in Nat /\ SectSize = k * PAGE_SIZE + (SectSize % PAGE_SIZE)
      BY DivMod DEF QspiAssumption
    <2>4. q * SectSize \in Nat /\ p * PAGE_SIZE \in Nat /\ k * PAGE_SIZE \in Nat
      <3>1. \A x, y \in Nat : x * y \in Nat
        BY SMT
      <3> QED BY <2>1, <2>2, <2>3, <3>1 DEF QspiAssumption
    <2>5. (q + 1) * SectSize = q * SectSize + SectSize
      BY <2>1, SMT DEF QspiAssumption
    <2> HIDE DEF q, p, k
    <2> QED BY <2>1, <2>2, <2>3, <2>4, <2>5 DEF Typed, QspiAssumption
  <1>2. TotalSector = q + 1 /\ TotalPage = p + 1
    BY DEF TotalSector, TotalPage
  <1> HIDE DEF q, p, k
  <1>3. ASSUME MoreSectors PROVE done * SectSize + SectSize <= TotalSector * SectSize
    <2>1. done + 1 <= TotalSector
      BY <1>1, <1>2, <1>3 DEF MoreSectors, Typed
    <2>2. (done + 1) * SectSize <= TotalSector * SectSize
      BY <2>1, <1>1, <1>2, Multiples DEF Typed, QspiAssumption
    <2>3. (done + 1) * SectSize = done * SectSize + SectSize
      BY SMT DEF Typed, QspiAssumption
    <2> QED BY <2>2, <2>3
  <1>4. ASSUME done < TotalPage
        PROVE  done * PAGE_SIZE + PAGE_SIZE <= TotalSector * SectSize
    <2>1. (q + 1) * k \in Nat
      BY <1>1, Multiples
    <2>2. (q + 1) * SectSize = ((q + 1) * k) * PAGE_SIZE
      BY <1>1, SMT DEF QspiAssumption
    <2>3. p < (q + 1) * k
      <3>1. CASE (q + 1) * k <= p
        <4>1. ((q + 1) * k) * PAGE_SIZE <= p * PAGE_SIZE
          BY <1>1, <2>1, <3>1, Multiples DEF QspiAssumption
        <4> QED BY <4>1, <2>2, <1>1 DEF Typed, QspiAssumption
      <3> QED BY <3>1, <2>1, <1>1
    <2>4. done + 1 <= (q + 1) * k
      BY <1>1, <1>2, <1>4, <2>1, <2>3 DEF Typed
    <2>5. (done + 1) * PAGE_SIZE <= ((q + 1) * k) * PAGE_SIZE
      BY <2>1, <2>4, Multiples DEF Typed, QspiAssumption
    <2>6. (done + 1) * PAGE_SIZE = done * PAGE_SIZE + PAGE_SIZE
      BY SMT DEF Typed, QspiAssumption
    <2> QED BY <1>2, <2>2, <2>5, <2>6
  <1>5. TotalSector * SectSize \in Nat
    BY <1>1, <1>2, Multiples DEF QspiAssumption
  <1>6. total_bytes <= TotalSector * SectSize
    BY <1>1, <1>2, <1>5 DEF Typed, QspiAssumption
  <1> QED BY <1>1, <1>2, <1>3, <1>4, <1>5, <1>6

(* So a step leaves the other area alone.                                  *)
LEMMA Confined ==
  ASSUME Typed, Fits(type, total_bytes), Big /\ ~Uses4BCommands => 0 \in four
  PROVE  /\ MoreSectors => \A b \in SectorBytes : ~Elsewhere(b)
         /\ done < TotalPage => \A b \in PageBytes : ~Elsewhere(b)
  <1>1. ASSUME NEW n \in Nat \ {0},
               done * n \in Nat, done * n + n <= TotalSector * SectSize,
               NEW b \in Unit(Base(type) + done * n, n)
        PROVE  ~Elsewhere(b)
    <2> DEFINE a == Base(type) + done * n
    <2>1. a \in Nat
      BY <1>1, BaseInside
    <2>2. b \in Nat /\ ((a <= b /\ b < a + n) \/ (Chip(a) # 0 /\ b >= FlashDeviceSize))
      BY <1>1, <2>1, UnitInside
    <2>3. CASE type = 1
      <3>1. Base(type) = 0
        BY <2>3 DEF Base
      <3>2. a + n <= UpdateBase[hw.board]
        BY <1>1, <2>3, <3>1, WithinSectors, BaseOfBoard DEF Fits, TotalSector
      <3>3. Chip(a) = 0
        BY <2>1, <3>2, BaseOfBoard, LowerChip DEF QspiAssumption
      <3> HIDE DEF a
      <3> QED BY <2>1, <2>2, <2>3, <3>2, <3>3, BaseOfBoard DEF Elsewhere
    <2>4. CASE type = 0
      <3>1. Base(type) = UpdateBase[hw.board]
        BY <2>4 DEF Base
      <3>2. a >= UpdateBase[hw.board]
        BY <1>1, <3>1, BaseOfBoard
      <3> HIDE DEF a
      <3> QED BY <2>1, <2>2, <2>4, <3>2, BaseOfBoard DEF Elsewhere, QspiAssumption
    <2> QED BY <2>3, <2>4 DEF Typed
  <1>2. done * SectSize \in Nat /\ done * PAGE_SIZE \in Nat
    BY Multiples DEF Typed, QspiAssumption
  <1> QED BY <1>1, <1>2, WithinSectors
          DEF SectorBytes, SectorAddr, PageBytes, PageAddr, QspiAssumption

(* An image installed in the other area survives a change of bytes that    *)
(* are not of that area.                                                   *)
LEMMA StillKept ==
  ASSUME Typed, installed[type] = Nothing, NEW t \in {0, 1}, Kept(t),
         UNCHANGED <<hw, installed>>,
         \A b \in Address : Elsewhere(b) => flash'[b] = flash[b]
  PROVE  Kept(t)'
  <1> SUFFICES ASSUME installed[t] # Nothing
               PROVE  Kept(t)'
    BY DEF Kept
  <1>1. t # type
    OBVIOUS
  <1>2. ASSUME NEW j \in 0 .. installed[t].size - 1
        PROVE  Elsewhere(Base(t) + j) /\ Base(t) + j \in Address
    <2>1. /\ installed[t].size \in Nat
          /\ t = 1 => installed[t].size <= UpdateBase[hw.board]
          /\ Base(t) + installed[t].size <= 2 * FlashDeviceSize
      BY DEF Kept
    <2> QED BY <1>1, <2>1, BaseOfBoard DEF Elsewhere, Base, Typed, Address, QspiAssumption
  <1>3. \A j \in 0 .. installed[t].size - 1 : flash'[Base(t) + j] = flash[Base(t) + j]
    BY <1>2
  <1>4. \A j \in Nat : Base(t)' = Base(t)
    BY DEF Base
  <1> QED BY <1>3, <1>4 DEF Kept, Holds

LEMMA ApartInit == Init => Apart
  <1> SUFFICES ASSUME Init PROVE Apart
    OBVIOUS
  <1>1. sel = 0 /\ pc = "idle" /\ image = 0 /\ installed = [t \in {0, 1} |-> Nothing]
    BY Zenon DEF Init
  <1>2. \A t \in {0, 1} : installed[t] = Nothing
    BY <1>1
  <1> QED BY <1>1, <1>2 DEF Apart, InMode, Kept, Working

(* The lower chip stays in the mode while a call works.                    *)
LEMMA InModeStep == Typed /\ InMode /\ [Next]_vars => InMode'
  <1> SUFFICES ASSUME Typed, InMode, [Next]_vars PROVE InMode'
    OBVIOUS
  <1> USE DEF InMode, Working
  <1>a. hw' = hw
    BY DEF vars, call, Next, Begin, qspi_update, Enter4B, EraseSector, EraseDone,
           ProgramPage, ProgramDone, VerifyPage, VerifyFails, VerifyDone, Exit4B, PowerCut
  <1>b. Big' = Big /\ Uses4BCommands' = Uses4BCommands /\ ZynqMP' = ZynqMP
    BY <1>a DEF Big, Uses4BCommands, ZynqMP
  <1>c. EnteredBlindly => EnteredBlindly'
    <2>1. lost \subseteq lost'
      BY DEF vars, call, Next, Begin, qspi_update, Enter4B, EnterFails, EraseSector,
             EraseDone, ProgramPage, ProgramDone, VerifyPage, VerifyFails, VerifyDone,
             Exit4B, PowerCut, Fault, NoFault
    <2> QED BY <2>1, <1>b DEF EnteredBlindly
  <1>d. /\ ~ZynqMP => ~hw.stacked
        /\ ~hw.stacked => \A a \in Nat : Chip(a) = 0
        /\ ZynqMP => ~Uses4BCommands
        /\ Big /\ ~Uses4BCommands /\ ~ZynqMP => hw.part = "micron"
        /\ hw.stacked => hw.part # "issi"
    BY DEF Typed, Hardware, ZynqMP, Chip, Uses4BCommands, Boards, Parts
  <1>e. ModeSelects \in {0, sel}
    BY DEF ModeSelects
  <1>1. ASSUME NEW t \in {0, 1}, NEW n \in Sizes, Begin(t, n) PROVE InMode'
    BY <1>1, <1>a, <1>b, <1>c DEF Begin
  <1>2. CASE Enter4B
    <2>1. /\ pc = "enter" /\ sel' = ModeSelects /\ four \subseteq four'
      BY <1>2 DEF Enter4B, EnterFails
    <2>2. CASE four' = four \cup ModeChips /\ pc' = "erase"
      <3>1. Big /\ ~Uses4BCommands => 0 \in four'
        <4> SUFFICES ASSUME Big, ~Uses4BCommands PROVE 0 \in four'
          OBVIOUS
        <4>1. CASE sel = 0
          <5>1. 0 \in ModeChips
            BY <4>1 DEF ModeChips, Big, Typed, Hardware, Parts
          <5> QED BY <5>1, <2>2
        <4>2. CASE sel # 0
          BY <4>2, <2>1, <1>d
        <4> QED BY <4>1, <4>2
      <3> QED BY <2>1, <2>2, <3>1, <1>a, <1>b, <1>e
    <2>3. CASE EnterFails
      <3>1. "enter" \in lost'
        BY <2>3 DEF EnterFails, Fault
      <3>2. ZynqMP => pc' = "idle"
        BY <2>3 DEF EnterFails
      <3>3. ~ZynqMP => EnteredBlindly'
        BY <3>1, <1>b DEF EnteredBlindly
      <3> QED BY <2>1, <3>2, <3>3, <1>a, <1>b, <1>c, <1>d, <1>e
    <2> QED BY <1>2, <2>2, <2>3 DEF Enter4B
  <1>3. CASE EraseSector \/ ProgramPage \/ VerifyPage \/ VerifyFails
    <2>1. pc \in Working /\ four' = four
      BY <1>3 DEF EraseSector, ProgramPage, VerifyPage, VerifyFails, call
    <2>2. PICK a \in Nat : sel' = Chip(a)
      <3>1. /\ SectorAddr \in Nat /\ PageAddr \in Nat /\ Base(type) + done \in Nat
        <4>1. \A x, y \in Nat : x * y \in Nat
          BY SMT
        <4> QED BY <4>1, BaseInside DEF SectorAddr, PageAddr, Typed, QspiAssumption
      <3> QED BY <1>3, <3>1 DEF EraseSector, ProgramPage, VerifyPage, VerifyFails
    <2>3. Big /\ ZynqMP => 0 \in four'
      BY <2>1, <1>d DEF EnteredBlindly
    <2> QED BY <2>1, <2>2, <2>3, <1>a, <1>b, <1>c, <1>d
  <1>4. CASE EraseDone \/ ProgramDone \/ VerifyDone
    <2>1. pc \in Working /\ pc' \in Working /\ four' = four /\ sel' = sel
      BY <1>4 DEF EraseDone, ProgramDone, VerifyDone, call
    <2> QED BY <2>1, <1>a, <1>b, <1>c
  <1>5. CASE Exit4B
    <2>1. /\ pc \in Working /\ pc' = "idle" /\ sel' = ModeSelects
          /\ four' \in {four, four \ ModeChips}
      BY <1>5 DEF Exit4B, Left4B
    <2>2. ModeSelects # 0 => 0 \notin ModeChips
      BY DEF ModeSelects, ModeChips
    <2>3. Big /\ ZynqMP => 0 \in four
      BY <2>1, <1>d DEF EnteredBlindly
    <2> QED BY <2>1, <2>2, <2>3, <1>a, <1>b, <1>e
  <1>6. CASE PowerCut
    BY <1>6, <1>a DEF PowerCut
  <1>7. CASE UNCHANGED vars
    BY <1>7, <1>a, <1>b, <1>c DEF vars
  <1> QED BY <1>1, <1>2, <1>3, <1>4, <1>5, <1>6, <1>7 DEF Next, qspi_update

LEMMA ApartStep == Typed /\ Verified /\ Apart /\ [Next]_vars => Apart'
  <1> SUFFICES ASSUME Typed, Verified, Apart, [Next]_vars PROVE Apart'
    OBVIOUS
  <1>a. hw' = hw
    BY DEF vars, call, Next, Begin, qspi_update, Enter4B, EraseSector, EraseDone,
           ProgramPage, ProgramDone, VerifyPage, VerifyFails, VerifyDone, Exit4B, PowerCut
  <1>b. InMode'
    BY InModeStep DEF Apart
  <1>c. EnteredBlindly => EnteredBlindly'
    <2>1. lost \subseteq lost'
      BY DEF vars, call, Next, Begin, qspi_update, Enter4B, EnterFails, EraseSector,
             EraseDone, ProgramPage, ProgramDone, VerifyPage, VerifyFails, VerifyDone,
             Exit4B, PowerCut, Fault, NoFault
    <2> QED BY <2>1, <1>a DEF EnteredBlindly, ZynqMP
  <1>d. UpdateBase[hw.board] \in Nat /\ UpdateBase[hw.board] < FlashDeviceSize
    BY BaseOfBoard
  <1>e. \A t, n : Fits(t, n)' <=> Fits(t, n)
    BY <1>a DEF Fits, Base, Capacity
  <1>1. ASSUME NEW t \in {0, 1}, NEW n \in Sizes, Begin(t, n) PROVE Apart'
    <2>1. /\ type' = t /\ total_bytes' = n /\ image' = image + 1
          /\ installed' = [installed EXCEPT ![t] = Nothing]
          /\ flash' = flash /\ Fits(t, n)
      BY <1>1 DEF Begin
    <2>2. ASSUME NEW u \in {0, 1}, Kept(u) PROVE Kept(u)'
      <3>1. installed'[u] \in {Nothing, installed[u]}
        BY <2>1 DEF Apart
      <3>2. Base(u)' = Base(u)
        BY <1>a DEF Base
      <3> QED BY <2>1, <2>2, <3>1, <3>2, <1>a DEF Kept, Holds
    <2>3. Fits(type', total_bytes')
      BY <2>1
    <2> QED BY <2>1, <2>2, <2>3, <1>a, <1>b, <1>c, <1>e DEF Apart
  <1>2. ASSUME pc # "idle", UNCHANGED <<type, total_bytes, image, installed>>,
               ~EnteredBlindly =>
                 \A b \in Address : Elsewhere(b) => flash'[b] = flash[b]
        PROVE  Apart'
    <2>1. installed[type] = Nothing /\ Fits(type, total_bytes)
      BY <1>2 DEF Apart
    <2>2. Fits(type, total_bytes)' /\ installed'[type'] = Nothing
      BY <1>2, <2>1, <1>e
    <2>3. ASSUME ~EnteredBlindly', NEW t \in {0, 1} PROVE Kept(t)'
      <3>1. Kept(t)
        BY <2>3, <1>c DEF Apart
      <3> QED BY <3>1, <2>1, <2>3, <1>2, <1>a, <1>c, StillKept
    <2> QED BY <1>2, <1>b, <2>2, <2>3 DEF Apart
  <1>3. CASE Enter4B \/ EraseDone \/ ProgramDone \/ VerifyPage \/ VerifyFails \/ VerifyDone
    <2>1. /\ pc # "idle" /\ flash' = flash
          /\ UNCHANGED <<type, total_bytes, image, installed>>
      BY <1>3 DEF Enter4B, EraseDone, ProgramDone, VerifyPage, VerifyFails, VerifyDone, call
    <2> QED BY <1>2, <2>1
  <1>4. ASSUME pc \in Working, ~EnteredBlindly PROVE Big /\ ~Uses4BCommands => 0 \in four
    BY <1>4 DEF Apart, InMode
  <1>5. CASE EraseSector
    <2>1. /\ pc = "erase" /\ MoreSectors
          /\ UNCHANGED <<type, total_bytes, image, installed>>
          /\ Change(SectorBytes, LAMBDA a : Erased) \/ flash' = flash
      BY <1>5 DEF EraseSector, call
    <2>2. ~EnteredBlindly => \A b \in SectorBytes : ~Elsewhere(b)
      BY <2>1, <1>4, Confined DEF Apart, Working
    <2>3. ~EnteredBlindly =>
            \A b \in Address : Elsewhere(b) => flash'[b] = flash[b]
      BY <2>1, <2>2 DEF Change
    <2> QED BY <1>2, <2>1, <2>3
  <1>6. CASE ProgramPage
    <2>1. /\ pc = "program" /\ done < TotalPage
          /\ UNCHANGED <<type, total_bytes, image, installed>>
          /\ \/ Change(PageBytes, Written) \/ flash' = flash
             \/ Change(PageBytes, LAMBDA a : Junk)
      BY <1>6 DEF ProgramPage, call
    <2>2. ~EnteredBlindly => \A b \in PageBytes : ~Elsewhere(b)
      BY <2>1, <1>4, Confined DEF Apart, Working
    <2>3. ~EnteredBlindly =>
            \A b \in Address : Elsewhere(b) => flash'[b] = flash[b]
      BY <2>1, <2>2 DEF Change
    <2> QED BY <1>2, <2>1, <2>3
  <1>7. CASE PowerCut
    <2>1. /\ pc # "idle" /\ UNCHANGED <<type, total_bytes, image, installed>>
          /\ \/ pc = "erase" /\ MoreSectors /\ Change(SectorBytes, LAMBDA a : Junk)
             \/ pc = "program" /\ done < TotalPage /\ Change(PageBytes, LAMBDA a : Junk)
             \/ flash' = flash
      BY <1>7 DEF PowerCut, call
    <2>2. ASSUME ~EnteredBlindly
          PROVE  /\ pc = "erase" /\ MoreSectors => \A b \in SectorBytes : ~Elsewhere(b)
                 /\ pc = "program" /\ done < TotalPage => \A b \in PageBytes : ~Elsewhere(b)
      BY <2>1, <2>2, <1>4, Confined DEF Apart, Working
    <2>3. ~EnteredBlindly =>
            \A b \in Address : Elsewhere(b) => flash'[b] = flash[b]
      BY <2>1, <2>2 DEF Change
    <2> QED BY <1>2, <2>1, <2>3
  <1>8. CASE Exit4B
    <2>1. /\ pc \in {"accept", "refuse"} /\ pc' = "idle" /\ flash' = flash
          /\ UNCHANGED <<type, total_bytes, image>>
          /\ result' = "success" => pc = "accept"
          /\ installed' = IF result' = "success"
                          THEN [installed EXCEPT ![type] = [img |-> image,
                                                            size |-> total_bytes]]
                          ELSE installed
      BY <1>8 DEF Exit4B, call
    <2>2. \A t \in {0, 1} : Base(t)' = Base(t)
      BY <1>a DEF Base
    <2>3. ASSUME NEW t \in {0, 1}, t = type, result' = "success" PROVE Kept(t)'
      <3>1. installed'[t] = [img |-> image, size |-> total_bytes]
        BY <2>1, <2>3 DEF Apart, Typed
      <3>2. Holds(type, image, total_bytes)
        BY <2>1, <2>3 DEF Verified, Holds, Typed
      <3>3. \A j \in 0 .. total_bytes - 1 :
              flash'[Base(t)' + j] = [img |-> image, at |-> j]
        BY <2>1, <2>2, <2>3, <3>2 DEF Holds, Typed
      <3>4. /\ t = 1 => total_bytes <= UpdateBase[hw.board]
            /\ Base(t) + total_bytes <= 2 * FlashDeviceSize
        <4>1. Base(type) + TotalSector * SectSize <=
                IF type = 1 THEN UpdateBase[hw.board] ELSE Capacity
          BY <2>1 DEF Apart, Fits, TotalSector
        <4>2. total_bytes <= TotalSector * SectSize
          BY WithinSectors
        <4>3. Capacity <= 2 * FlashDeviceSize /\ Capacity \in Nat
          BY DEF Capacity, QspiAssumption
        <4>4. TotalSector * SectSize \in Nat
          BY WithinSectors
        <4> QED BY <4>1, <4>2, <4>3, <4>4, <1>d, <2>3 DEF Base, Typed, QspiAssumption
      <3> QED
        BY <3>1, <3>3, <3>4, <2>2, <2>3, <1>a DEF Kept, Holds, Typed
    <2>4. ASSUME NEW t \in {0, 1}, Kept(t), installed'[t] = installed[t] PROVE Kept(t)'
      BY <2>1, <2>2, <2>4, <1>a DEF Kept, Holds
    <2>5. \A t \in {0, 1} : installed'[t] = installed[t] \/ (t = type /\ result' = "success")
      BY <2>1 DEF Apart
    <2>6. ~EnteredBlindly' => \A t \in {0, 1} : Kept(t)'
      BY <2>3, <2>4, <2>5, <1>c DEF Apart
    <2>7. installed' \in [{0, 1} -> {Nothing} \cup [img : Nat, size : Nat]]
      BY <2>1 DEF Apart, Typed
    <2> QED BY <2>1, <2>6, <2>7, <1>b DEF Apart
  <1>9. CASE UNCHANGED vars
    <2>1. UNCHANGED <<pc, type, total_bytes, image, installed, flash, lost>>
      BY <1>9 DEF vars
    <2>2. \A t \in {0, 1} : Kept(t)' <=> Kept(t)
      BY <2>1, <1>a DEF Kept, Holds, Base
    <2> QED BY <2>1, <2>2, <1>a, <1>b, <1>c, <1>e DEF Apart
  <1> QED BY <1>1, <1>3, <1>5, <1>6, <1>7, <1>8, <1>9 DEF Next, qspi_update

(* The image of an area that was reported as installed is not touched by   *)
(* the update of the other, by its failures, by a power cut during it, or  *)
(* by the addresses a chip in the wrong mode misreads: the board can start *)
(* the golden image whatever becomes of the update, and the other way      *)
(* round, on every board and with every part.                              *)
THEOREM InstalledSurvives == Spec => []InstalledIntact
  <1> DEFINE IInv == Typed /\ Verified /\ Apart
  <1>1. Init => IInv
    BY TypedInit, VerifiedInit, ApartInit
  <1>2. IInv /\ [Next]_vars => IInv'
    BY TypedStep, VerifiedStep, ApartStep
  <1>3. IInv => InstalledIntact
    BY DEF Apart, Kept, InstalledIntact
  <1> HIDE DEF IInv
  <1> QED BY <1>1, <1>2, <1>3, PTL DEF Spec

-----------------------------------------------------------------------------
(* No transfer failed, no fault was silent, and no image goes on in an     *)
(* upper chip that does not follow the mode: the case FailsOnlyOnFault is  *)
(* about.                                                                  *)
Sane == faults = 0 /\ ~BeyondLower

(* What has been done to the bytes of the image so far: erased, then       *)
(* programmed page by page; and nothing failed.                            *)
Progress ==
  /\ lost = {} /\ result # "failure" /\ pc \notin {"refuse", "dead"}
  /\ pc = "enter" => done = 0
  /\ \A j \in 0 .. total_bytes - 1 :
       /\ pc = "erase" /\ j < done * SectSize => flash[Base(type) + j] = Erased
       /\ pc = "program" =>
            flash[Base(type) + j] = IF j < done * PAGE_SIZE THEN Data(j) ELSE Erased
       /\ pc \in {"verify", "accept"} => flash[Base(type) + j] = Data(j)
Sound == faults \in Nat /\ (Sane => Progress)

LEMMA SoundInit == Init => Sound
  <1> SUFFICES ASSUME Init PROVE Sound
    OBVIOUS
  <1>1. lost = {} /\ result = "none" /\ pc = "idle" /\ faults = 0
    BY Zenon DEF Init
  <1> QED BY <1>1 DEF Sound, Progress

LEMMA SaneBefore == faults \in Nat /\ [Next]_vars => faults' \in Nat /\ (Sane' => Sane)
  <1> SUFFICES ASSUME faults \in Nat, [Next]_vars PROVE faults' \in Nat /\ (Sane' => Sane)
    OBVIOUS
  <1> USE DEF vars, call, Next, Begin, qspi_update, Enter4B, EnterFails,
         EraseSector, EraseDone, ProgramPage, ProgramDone, VerifyPage,
         VerifyFails, VerifyDone, Exit4B, PowerCut, Fault, NoFault
  <1>1. hw' = hw
    OBVIOUS
  <1>2. faults' \in {faults, faults + 1}
    OBVIOUS
  <1>3. upper => upper'
    BY Zenon
  <1> QED BY <1>1, <1>2, <1>3 DEF Sane, BeyondLower, Big

(* A step at a works on the bytes of the image from a on, if there are     *)
(* any, and on no other byte of the image.                                 *)
LEMMA OnImage ==
  ASSUME Typed, Big => Base(type) + total_bytes <= FlashDeviceSize,
         Big /\ ~Uses4BCommands => 0 \in four,
         Base(type) + total_bytes <= 2 * FlashDeviceSize,
         NEW a \in Nat, NEW n \in Nat \ {0}, NEW j \in 0 .. total_bytes - 1
  PROVE  /\ Base(type) + j \in Address
         /\ Base(type) + j \in Unit(a, n) =>
              Reached(a) /\ a <= Base(type) + j /\ Base(type) + j < a + n
         /\ a <= Base(type) + j /\ Base(type) + j < a + n =>
              Reached(a) /\ Base(type) + j \in Unit(a, n)
  <1> DEFINE b == Base(type) + j
  <1>1. b \in Address /\ b \in Nat /\ (Big => b < FlashDeviceSize)
    BY BaseInside DEF Address, Typed, QspiAssumption
  <1>2. ASSUME b \in Unit(a, n) PROVE Reached(a) /\ a <= b /\ b < a + n
    <2>1. (a <= b /\ b < a + n) \/ (Chip(a) # 0 /\ b >= FlashDeviceSize)
      BY <1>2, UnitInside
    <2>2. CASE Reached(a)
      <3>1. b \in Bytes(a, n)
        BY <1>2, <2>2 DEF Unit
      <3> QED BY <2>2, <3>1 DEF Bytes
    <2>3. CASE ~Reached(a)
      <3>1. Big
        BY <2>3 DEF Reached
      <3>2. a <= b /\ b < a + n
        BY <1>1, <2>1, <3>1 DEF QspiAssumption
      <3>3. Chip(a) = 0
        BY <1>1, <3>1, <3>2, LowerChip DEF QspiAssumption
      <3>4. Reached(a)
        BY <3>3 DEF Reached
      <3> QED BY <3>2, <3>4
    <2> QED BY <2>2, <2>3
  <1>3. ASSUME a <= b, b < a + n PROVE Reached(a) /\ b \in Unit(a, n)
    <2>1. Reached(a)
      <3>1. CASE Big
        <4>1. Chip(a) = 0
          BY <1>1, <1>3, <3>1, LowerChip DEF QspiAssumption
        <4> QED BY <4>1 DEF Reached
      <3>2. CASE ~Big
        BY <3>2 DEF Reached
      <3> QED BY <3>1, <3>2
    <2> QED BY <1>1, <1>3, <2>1 DEF Unit, Bytes
  <1> QED BY <1>1, <1>2, <1>3

(* Every step of an update without a fault does what it is for.            *)
LEMMA SoundStep ==
  Typed /\ Apart /\ (Clean => LowerOnly) /\ Sound /\ [Next]_vars => Sound'
  <1> SUFFICES ASSUME Typed, Apart, Clean => LowerOnly, Sound, [Next]_vars, Sane'
               PROVE  Progress'
    BY SaneBefore DEF Sound
  <1>a. Sane /\ Progress /\ faults \in Nat
    BY SaneBefore DEF Sound
  <1>b. LowerOnly /\ ~EnteredBlindly
    BY <1>a DEF Clean, Sane, Progress, EnteredBlindly
  <1>c. \A k : ~Fault(k)
    BY <1>a DEF Fault, Sane
  <1>d. UNCHANGED <<hw, type, total_bytes, image>> =>
          \A j : Base(type)' = Base(type) /\ Data(j)' = Data(j)
    BY DEF Base, Data
  <1>e. ASSUME pc \in {"erase", "program"}
        PROVE  /\ Big => Base(type) + total_bytes <= FlashDeviceSize
               /\ Big /\ ~Uses4BCommands => 0 \in four
               /\ Base(type) + total_bytes <= 2 * FlashDeviceSize
    <2>1. Base(type) + TotalSector * SectSize <=
            IF type = 1 THEN UpdateBase[hw.board] ELSE Capacity
      BY <1>e DEF Apart, Fits, TotalSector
    <2>2. total_bytes <= TotalSector * SectSize /\ TotalSector * SectSize \in Nat
      BY WithinSectors
    <2>3. Capacity <= 2 * FlashDeviceSize /\ Capacity \in Nat
      BY DEF Capacity, QspiAssumption
    <2>4. Base(type) + total_bytes <= 2 * FlashDeviceSize
      BY <2>1, <2>2, <2>3, BaseInside, BaseOfBoard DEF Typed, QspiAssumption
    <2> QED BY <1>e, <1>b, <2>4 DEF LowerOnly, Apart, InMode, Working
  <1>f. \A x, y \in Nat : x * y \in Nat
    BY SMT
  <1> USE DEF Progress
  <1>1. ASSUME NEW t \in {0, 1}, NEW n \in Sizes, Begin(t, n) PROVE Progress'
    BY <1>1, <1>a DEF Begin
  <1>2. CASE Enter4B
    <2>1. /\ pc = "enter" /\ pc' = "erase" /\ done' = done
          /\ lost' = lost /\ result' = result
      BY <1>2, <1>c DEF Enter4B, EnterFails, NoFault
    <2>2. \A j \in Nat : ~(j < 0 * SectSize)
      BY SMT DEF QspiAssumption
    <2> QED BY <2>1, <2>2, <1>a
  <1>3. CASE EraseSector
    <2>1. /\ pc = "erase" /\ pc' = "erase" /\ done' = done + 1
          /\ lost' = lost /\ result' = result
          /\ UNCHANGED <<hw, type, total_bytes, image>>
          /\ \/ Change(SectorBytes, LAMBDA a : Erased)
             \/ ~Reached(SectorAddr) /\ flash' = flash
      BY <1>3, <1>c DEF EraseSector, NoFault, call
    <2>2. SectorAddr \in Nat
      BY <1>f, BaseInside DEF SectorAddr, Typed, QspiAssumption
    <2>3. (done + 1) * SectSize = done * SectSize + SectSize
      BY SMT DEF Typed, QspiAssumption
    <2>4. ASSUME NEW j \in 0 .. total_bytes - 1, j < (done + 1) * SectSize
          PROVE  flash'[Base(type) + j] = Erased
      <3>1. /\ Base(type) + j \in Address
            /\ SectorAddr <= Base(type) + j /\ Base(type) + j < SectorAddr + SectSize =>
                 Reached(SectorAddr) /\ Base(type) + j \in SectorBytes
        BY <1>e, <2>1, <2>2, OnImage DEF SectorBytes, QspiAssumption
      <3>2. CASE j < done * SectSize
        <4>1. flash[Base(type) + j] = Erased
          BY <1>a, <2>1, <3>2
        <4> QED BY <2>1, <3>1, <4>1 DEF Change
      <3>3. CASE ~(j < done * SectSize)
        <4>1. SectorAddr <= Base(type) + j /\ Base(type) + j < SectorAddr + SectSize
          BY <1>f, <2>3, <2>4, <3>3, BaseInside DEF SectorAddr, Typed, QspiAssumption
        <4> QED BY <2>1, <3>1, <4>1 DEF Change
      <3> QED BY <3>2, <3>3
    <2> QED BY <2>1, <2>4, <1>a, <1>d
  <1>4. CASE EraseDone
    <2>1. /\ pc = "erase" /\ pc' = "program" /\ done' = 0 /\ ~MoreSectors
          /\ flash' = flash /\ lost' = lost /\ result' = result
          /\ UNCHANGED <<hw, type, total_bytes, image>>
      BY <1>4 DEF EraseDone, call
    <2>2. total_bytes <= done * SectSize
      <3>1. TotalSector <= done
        BY <2>1, WithinSectors DEF MoreSectors, Typed
      <3>2. TotalSector * SectSize <= done * SectSize
        BY <3>1, WithinSectors, Multiples DEF Typed, QspiAssumption
      <3> QED BY <3>2, <1>f, WithinSectors DEF Typed, QspiAssumption
    <2>3. ASSUME NEW j \in 0 .. total_bytes - 1 PROVE flash'[Base(type) + j] = Erased
      <3>1. j < done * SectSize
        BY <2>2, <1>f DEF Typed, QspiAssumption
      <3> QED BY <2>1, <3>1, <1>a
    <2>4. 0 * PAGE_SIZE = 0
      BY SMT DEF QspiAssumption
    <2> QED BY <2>1, <2>3, <2>4, <1>a, <1>d
  <1>5. CASE ProgramPage
    <2>1. /\ pc = "program" /\ pc' = "program" /\ done' = done + 1
          /\ lost' = lost /\ result' = result
          /\ UNCHANGED <<hw, type, total_bytes, image>>
          /\ Change(PageBytes, Written)
      BY <1>5, <1>c DEF ProgramPage, NoFault, call
    <2>2. PageAddr \in Nat
      BY <1>f, BaseInside DEF PageAddr, Typed, QspiAssumption
    <2>3. (done + 1) * PAGE_SIZE = done * PAGE_SIZE + PAGE_SIZE
      BY SMT DEF Typed, QspiAssumption
    <2>4. ASSUME NEW j \in 0 .. total_bytes - 1
          PROVE  flash'[Base(type) + j] =
                   IF j < (done + 1) * PAGE_SIZE THEN Data(j) ELSE Erased
      <3>1. /\ Base(type) + j \in Address
            /\ Base(type) + j \in PageBytes =>
                 /\ Reached(PageAddr) /\ PageAddr <= Base(type) + j
                 /\ Base(type) + j < PageAddr + PAGE_SIZE
            /\ PageAddr <= Base(type) + j /\ Base(type) + j < PageAddr + PAGE_SIZE =>
                 Reached(PageAddr) /\ Base(type) + j \in PageBytes
        BY <1>e, <2>1, <2>2, OnImage DEF PageBytes, QspiAssumption
      <3>2. PageAddr <= Base(type) + j /\ Base(type) + j < PageAddr + PAGE_SIZE
              <=> j >= done * PAGE_SIZE /\ j < (done + 1) * PAGE_SIZE
        BY <1>f, <2>3, BaseInside DEF PageAddr, Typed, QspiAssumption
      <3>3. flash[Base(type) + j] = IF j < done * PAGE_SIZE THEN Data(j) ELSE Erased
        BY <1>a, <2>1
      <3>4. CASE Base(type) + j \in PageBytes
        <4>1. flash'[Base(type) + j] = Written(Base(type) + j)
          BY <2>1, <3>1, <3>4 DEF Change
        <4>2. flash[Base(type) + j] = Erased
          BY <3>1, <3>2, <3>3, <3>4, <1>f DEF Typed, QspiAssumption
        <4>3. (Base(type) + j) - Base(type) = j
          BY BaseInside
        <4> QED BY <3>1, <3>2, <3>4, <4>1, <4>2, <4>3 DEF Written
      <3>5. CASE Base(type) + j \notin PageBytes
        <4>1. flash'[Base(type) + j] = flash[Base(type) + j]
          BY <2>1, <3>1, <3>5 DEF Change
        <4>2. ~(j >= done * PAGE_SIZE /\ j < (done + 1) * PAGE_SIZE)
          BY <3>1, <3>2, <3>5
        <4> QED BY <2>3, <3>3, <4>1, <4>2, <1>f DEF Typed, QspiAssumption
      <3> QED BY <3>4, <3>5
    <2> QED BY <2>1, <2>4, <1>a, <1>d
  <1>6. CASE ProgramDone
    <2>1. /\ pc = "program" /\ pc' = "verify" /\ done = TotalPage
          /\ flash' = flash /\ lost' = lost /\ result' = result
          /\ UNCHANGED <<hw, type, total_bytes, image>>
      BY <1>6 DEF ProgramDone, call
    <2>2. total_bytes < done * PAGE_SIZE
      <3> DEFINE p == total_bytes \div PAGE_SIZE
      <3>1. /\ p \in Nat /\ total_bytes % PAGE_SIZE \in Nat
            /\ total_bytes % PAGE_SIZE < PAGE_SIZE
            /\ total_bytes = p * PAGE_SIZE + (total_bytes % PAGE_SIZE)
        BY DivMod DEF Typed, QspiAssumption
      <3>2. done = p + 1
        BY <2>1 DEF TotalPage
      <3> HIDE DEF p
      <3>3. (p + 1) * PAGE_SIZE = p * PAGE_SIZE + PAGE_SIZE
        BY <3>1, SMT DEF QspiAssumption
      <3> QED BY <3>1, <3>2, <3>3, <1>f DEF QspiAssumption
    <2>3. ASSUME NEW j \in 0 .. total_bytes - 1 PROVE flash'[Base(type) + j] = Data(j)
      <3>1. j < done * PAGE_SIZE
        BY <2>2, <1>f DEF Typed, QspiAssumption
      <3> QED BY <2>1, <3>1, <1>a
    <2> QED BY <2>1, <2>3, <1>a, <1>d
  <1>7. CASE VerifyPage \/ VerifyDone
    <2>1. /\ pc = "verify" /\ pc' \in {"verify", "accept"}
          /\ flash' = flash /\ lost' = lost /\ result' = result
          /\ UNCHANGED <<hw, type, total_bytes, image>>
      BY <1>7 DEF VerifyPage, VerifyDone, call
    <2> QED BY <2>1, <1>a, <1>d
  <1>8. ~VerifyFails
    <2>1. PageIsRight /\ ~Fault("read") => ~VerifyFails
      BY DEF VerifyFails
    <2>2. ASSUME pc = "verify", done < total_bytes PROVE PageIsRight
      <3>1. \A j \in done .. done + Compared - 1 : j \in 0 .. total_bytes - 1
        BY <2>2 DEF Compared, Typed, QspiAssumption
      <3> QED BY <2>2, <3>1, <1>a DEF PageIsRight
    <2> QED BY <2>1, <2>2, <1>c DEF VerifyFails
  <1>9. CASE Exit4B
    <2>1. pc = "accept" /\ pc' = "idle" /\ result' = "success" /\ lost' = lost
      BY <1>9, <1>a, <1>c DEF Exit4B, NoFault
    <2> QED BY <2>1, <1>a
  <1>10. CASE PowerCut
    BY <1>10, <1>a DEF PowerCut
  <1>11. CASE UNCHANGED vars
    <2>1. UNCHANGED <<hw, type, total_bytes, image, flash, lost, result, pc, done>>
      BY <1>11 DEF vars
    <2> QED BY <2>1, <1>a, <1>d
  <1> QED BY <1>1, <1>2, <1>3, <1>4, <1>5, <1>6, <1>7, <1>8, <1>9, <1>10, <1>11
          DEF Next, qspi_update

(* An update fails only if something did: every byte programmed was erased *)
(* first, and every byte compared was programmed, for every size and every *)
(* relation of page, sector and chip, also after power cuts.               *)
THEOREM FailureHasReason == Spec => []FailsOnlyOnFault
  <1> DEFINE IInv == /\ Typed /\ Verified /\ Apart
                     /\ (Clean => LowerOnly) /\ Sound
  <1>1. Init => IInv
    BY TypedInit, VerifiedInit, ApartInit, LowerOnlyInit, SoundInit
  <1>2. IInv /\ [Next]_vars => IInv'
    BY TypedStep, VerifiedStep, ApartStep, LowerOnlyStep, SoundStep
  <1>3. IInv => FailsOnlyOnFault
    <2> SUFFICES ASSUME IInv, result = "failure", ~BeyondLower PROVE faults > 0
      BY DEF FailsOnlyOnFault
    <2>1. faults \in Nat /\ faults # 0
      BY DEF Sound, Sane, Progress
    <2> QED BY <2>1
  <1> HIDE DEF IInv
  <1> QED BY <1>1, <1>2, <1>3, PTL DEF Spec

=============================================================================
