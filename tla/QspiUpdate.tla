----------------------------- MODULE QspiUpdate -----------------------------
(***************************************************************************)
(* qspi_update of the three boards (qspi_flash_zynq.c, qspi_flash_mb.c,    *)
(* qspi_flash_zynqmp.c): the flash is put in its 4-byte address mode if it *)
(* is larger than 16 MB, an image of total_bytes bytes is erased for,      *)
(* programmed and verified, sector by sector and page by page, at the      *)
(* golden base (type 1) or at the update base (type 0), and the mode is    *)
(* left again.  The flash may fail to program a page without saying so, a  *)
(* transfer to it may fail, and the power may fail between any two steps   *)
(* or in the middle of one.                                                *)
(*                                                                         *)
(* A byte of the flash is [img, at]: byte `at' of the img-th image sent.   *)
(* The commands of a large part carry four address bytes.  A part that is  *)
(* not in 4-byte mode takes the first three for the address, so the        *)
(* command works on the address divided by 256 (here, by AddrByte).        *)
(***************************************************************************)
EXTENDS Naturals

CONSTANTS
  PAGE_SIZE, SectSize,
  FlashDeviceSize, \* of one chip, in bytes
  AddrByte,        \* the values of an address byte: 256
  UpdateBase,      \* 0x00300000, and 0x00A00000 on the MicroBlaze boards
  Sizes,           \* sizes of the images the servers hand over
  MaxUpdates, MaxFaults, MaxCuts  \* bounds

Boards == {"zynq", "mb", "zynqmp"}

ASSUME QspiAssumption ==
  /\ PAGE_SIZE \in Nat \ {0} /\ SectSize \in Nat \ {0}
  /\ AddrByte \in Nat \ {0} /\ FlashDeviceSize \in Nat \ {0}
  /\ SectSize % PAGE_SIZE = 0 /\ FlashDeviceSize % SectSize = 0
  /\ UpdateBase \in [Boards -> Nat]
  /\ \A b \in Boards : UpdateBase[b] % SectSize = 0
  /\ \A b \in Boards : UpdateBase[b] < FlashDeviceSize
  /\ MaxUpdates \in Nat /\ MaxFaults \in Nat /\ MaxCuts \in Nat
  /\ Sizes \subseteq Nat

VARIABLES
  hw,        \* the board, its flash part and whether there are two, stacked
  flash,
  four,      \* the chips that are in 4-byte address mode
  sel,       \* the chip that is selected
  type, total_bytes,  \* the arguments of qspi_update
  image,     \* which image rxbuffer holds
  pc,        \* where qspi_update is
  done,      \* sectors erased, pages programmed or bytes compared
  said,      \* history: "Verify Operation Successful" was sent
  result,    \* history: how the last call ended
  installed, \* history: what each area should hold, [img, size]
  upper,     \* history: an image went on in the upper chip
  lost,      \* history: the kinds of step a transfer failed in
  faults, cuts \* history: how many failures of each kind

vars == <<hw, flash, four, sel, type, total_bytes, image, pc, done, said,
          result, installed, upper, lost, faults, cuts>>
call == <<hw, type, total_bytes, image, upper>>

(* The parts FlashReadID tells apart, as far as qspi_update treats them    *)
(* differently: those of up to 16 MB, and of the larger ones those of one  *)
(* make, Winbond and Macronix ("plain") needing no write enable.  Parts of *)
(* several dies from Micron do not get past qspi_init but on the ZynqMP;   *)
(* two stacked ISSI parts are outside its table.                           *)
Parts == {"small", "micron", "issi", "spansion", "plain"}
Hardware == [board : Boards, part : Parts, stacked : {FALSE}] \cup
            [board : {"zynqmp"}, part : Parts \ {"issi"}, stacked : {TRUE}]

Big == hw.part # "small"
ZynqMP == hw.board = "zynqmp"

Address == 0 .. 2 * FlashDeviceSize - 1
Capacity == IF hw.stacked THEN 2 * FlashDeviceSize ELSE FlashDeviceSize
Erased == [img |-> 0, at |-> 0]
Junk == [img |-> 0, at |-> 1]
Nothing == [img |-> 0, size |-> 0]

(* write_addr, read_addr and erase_addr before the loops.                  *)
BugSameBase(t) == 0
Base(t) == IF t = 0 THEN UpdateBase[hw.board] ELSE 0

(* rxbuffer[j]: beyond total_bytes it holds what was there before.         *)
Data(j) == IF j < total_bytes THEN [img |-> image, at |-> j] ELSE Junk

BugNoTail == total_bytes \div PAGE_SIZE
TotalPage == total_bytes \div PAGE_SIZE + 1

TotalSector == total_bytes \div SectSize + 1

(* The condition of the erase loop.                                        *)
MoreSectors == done < TotalSector

Bytes(from, n) == {a \in Address : from <= a /\ a < from + n}

(* GetRealAddr: the chip an address belongs to.                            *)
Chip(a) == IF hw.stacked THEN a \div FlashDeviceSize ELSE 0

(* The program and erase commands that always take four address bytes,     *)
(* WRITE_CMD_4B and SEC_ERASE_CMD_4B.                                      *)
Uses4BCommands == ~ZynqMP /\ hw.part # "micron"

(* Whether the chip takes the address it is sent for the one meant.        *)
Reached(a) == ~Big \/ Uses4BCommands \/ Chip(a) \in four

(* The unit of n bytes a command for address a works on.                   *)
Unit(a, n) ==
  IF Reached(a) THEN Bytes(a, n)
  ELSE LET at == (a % FlashDeviceSize) \div AddrByte
       IN  Bytes(Chip(a) * FlashDeviceSize + (at - (at % n)), n)

Init ==
  /\ hw \in Hardware
  /\ flash = [a \in Address |-> Erased]
  /\ four = {} /\ sel = 0
  /\ type = 0 /\ total_bytes = 0 /\ image = 0
  /\ pc = "idle" /\ done = 0 /\ said = FALSE /\ result = "none"
  /\ installed = [t \in {0, 1} |-> Nothing]
  /\ upper = FALSE /\ lost = {} /\ faults = 0 /\ cuts = 0

(* The images are made to fit: an area, and what rounding up to sectors    *)
(* adds, ends where the other begins.                                      *)
Fits(t, n) ==
  Base(t) + (n \div SectSize + 1) * SectSize <=
    IF t = 1 THEN UpdateBase[hw.board] ELSE Capacity

(* A server calls qspi_update with the image it has verified.              *)
Begin(t, n) ==
  /\ pc = "idle" /\ image < MaxUpdates /\ Fits(t, n)
  /\ type' = t /\ total_bytes' = n /\ image' = image + 1
  /\ pc' = "enter" /\ done' = 0 /\ said' = FALSE /\ result' = "none"
  /\ installed' = [installed EXCEPT ![t] = Nothing]
  /\ upper' = (upper \/ Base(t) + n > FlashDeviceSize)
  /\ UNCHANGED <<hw, flash, four, sel, lost, faults, cuts>>

(* A transfer fails in a step of kind k.                                   *)
Fault(k) ==
  /\ faults < MaxFaults /\ faults' = faults + 1
  /\ lost' = lost \cup {k}
NoFault == UNCHANGED <<lost, faults>>

-----------------------------------------------------------------------------
(* FlashEnterExit4BAddMode writes the bank register of the chip that is    *)
(* selected, or sends it the write enable its make needs, selects the      *)
(* lower chip and sends that the command.  These chips follow it.          *)
ModeChips ==
  CASE hw.part = "spansion"          -> {sel}
    [] hw.part \in {"micron", "issi"} -> {sel} \cap {0}
    [] hw.part = "plain"             -> {0}
    [] OTHER                         -> {}
ModeSelects == IF hw.part = "spansion" THEN sel ELSE 0

(* The ZynqMP's qspi_update gives up when the mode cannot be entered, the  *)
(* others do not look.                                                     *)
EnterFails ==
  /\ Big /\ Fault("enter")
  /\ four' \in {four, four \cup ModeChips}
  /\ IF ZynqMP THEN pc' = "idle" /\ result' = "failure"
               ELSE pc' = "erase" /\ UNCHANGED result

Enter4B ==
  /\ pc = "enter"
  /\ \/ /\ four' = four \cup ModeChips /\ pc' = "erase"
        /\ NoFault /\ UNCHANGED result
     \/ EnterFails
  /\ sel' = ModeSelects
  /\ UNCHANGED <<call, flash, done, said, installed, cuts>>

(* The bytes a step works on change to what New says.                      *)
Change(S, New(_)) ==
  flash' = [a \in Address |-> IF a \in S THEN New(a) ELSE flash[a]]

SectorAddr == Base(type) + done * SectSize
SectorBytes == Unit(SectorAddr, SectSize)

(* FlashErase, one sector.  A chip may refuse an erase command that has    *)
(* a byte too many.  Only the ZynqMP's FlashErase reports a failed         *)
(* transfer, and then qspi_update returns with the mode still on.          *)
EraseSector ==
  /\ pc = "erase" /\ MoreSectors
  /\ sel' = Chip(SectorAddr)
  /\ \/ /\ \/ Change(SectorBytes, LAMBDA a : Erased)
           \/ ~Reached(SectorAddr) /\ UNCHANGED flash
        /\ NoFault /\ done' = done + 1 /\ UNCHANGED <<pc, result>>
     \/ /\ Fault("erase") /\ UNCHANGED flash
        /\ IF ZynqMP THEN pc' = "idle" /\ result' = "failure" /\ UNCHANGED done
           ELSE done' = done + 1 /\ UNCHANGED <<pc, result>>
  /\ UNCHANGED <<call, four, said, installed, cuts>>

EraseDone ==
  /\ pc = "erase" /\ ~MoreSectors
  /\ pc' = "program" /\ done' = 0
  /\ UNCHANGED <<call, flash, four, sel, said, result, installed, lost,
                 faults, cuts>>

PageAddr == Base(type) + done * PAGE_SIZE
PageBytes == Unit(PageAddr, PAGE_SIZE)

(* The page program: it writes on erased bytes only.                       *)
Written(a) ==
  IF Reached(PageAddr) /\ flash[a] = Erased THEN Data(a - Base(type)) ELSE Junk

(* FlashWrite, one page of PAGE_SIZE bytes also when fewer are left.  No   *)
(* board looks at whether it failed: a transfer that did leaves the page   *)
(* as it was, the flash that did spoils it.                                *)
ProgramPage ==
  /\ pc = "program" /\ done < TotalPage
  /\ sel' = Chip(PageAddr)
  /\ \/ Change(PageBytes, Written) /\ NoFault
     \/ Fault("page") /\ UNCHANGED flash
     \/ Fault("page") /\ Change(PageBytes, LAMBDA a : Junk)
  /\ done' = done + 1
  /\ UNCHANGED <<call, four, pc, said, result, installed, cuts>>

ProgramDone ==
  /\ pc = "program" /\ done = TotalPage
  /\ pc' = "verify" /\ done' = 0
  /\ UNCHANGED <<call, flash, four, sel, said, result, installed, lost,
                 faults, cuts>>

-----------------------------------------------------------------------------
(* The bytes the verify loop compares: all of a full page, of the last one *)
(* what is left.  `done' is readed_len.                                    *)
BugFullPagesOnly ==
  IF done + PAGE_SIZE <= total_bytes THEN PAGE_SIZE ELSE 0
Compared ==
  IF done + PAGE_SIZE <= total_bytes THEN PAGE_SIZE ELSE total_bytes - done

(* QUAD_READ_CMD_4B and READ_CMD_4B take four address bytes in any mode.   *)
PageIsRight ==
  \A j \in done .. done + Compared - 1 : flash[Base(type) + j] = Data(j)

(* The success message belongs to the branch of a page that is not full.   *)
PartOfPage == done + PAGE_SIZE > total_bytes

(* FlashRead and the comparison of a page.                                 *)
VerifyPage ==
  /\ pc = "verify" /\ done < total_bytes
  /\ PageIsRight
  /\ sel' = Chip(Base(type) + done)
  /\ said' = PartOfPage
  /\ done' = done + PAGE_SIZE
  /\ UNCHANGED <<call, flash, four, pc, result, installed, lost, faults,
                 cuts>>

(* A page that is not right; or one that could not be read, in whose place *)
(* the buffer still holds zeros or the page before.  error_printf: on the  *)
(* ZynqMP it prints through BufferPtr, which is never set there.           *)
VerifyFails ==
  /\ pc = "verify" /\ done < total_bytes
  /\ \/ ~PageIsRight /\ NoFault
     \/ PageIsRight /\ Fault("read")
  /\ sel' = Chip(Base(type) + done)
  /\ pc' \in IF ZynqMP THEN {"refuse", "dead"} ELSE {"refuse"}
  /\ UNCHANGED <<call, flash, four, done, said, result, installed, cuts>>

VerifyDone ==
  /\ pc = "verify" /\ done >= total_bytes
  /\ pc' = "accept"
  /\ UNCHANGED <<call, flash, four, sel, done, said, result, installed, lost,
                 faults, cuts>>

(* The mode is left, and qspi_update returns: XST_FAILURE after an error,  *)
(* and on the ZynqMP also if the mode could not be left.  After            *)
(* XST_SUCCESS the server forgets the image.                               *)
BugStays4B == four
Left4B == four \ ModeChips

Exit4B ==
  /\ pc \in {"accept", "refuse"}
  /\ LET ok == pc = "accept" IN
       \/ /\ four' = Left4B /\ NoFault
          /\ result' = IF ok THEN "success" ELSE "failure"
       \/ /\ Big /\ Fault("exit") /\ four' \in {four, Left4B}
          /\ result' = IF ok /\ ~ZynqMP THEN "success" ELSE "failure"
  /\ pc' = "idle" /\ sel' = ModeSelects
  /\ installed' = IF result' = "success"
                  THEN [installed EXCEPT ![type] = [img |-> image,
                                                    size |-> total_bytes]]
                  ELSE installed
  /\ UNCHANGED <<call, flash, done, said, cuts>>

(* The power fails.  The sector or page at work is left half done; the     *)
(* chips start in 3-byte mode, and qspi_init selects the lower one.        *)
PowerCut ==
  /\ pc # "idle" /\ cuts < MaxCuts /\ cuts' = cuts + 1
  /\ \/ pc = "erase" /\ MoreSectors /\ Change(SectorBytes, LAMBDA a : Junk)
     \/ pc = "program" /\ done < TotalPage /\ Change(PageBytes, LAMBDA a : Junk)
     \/ UNCHANGED flash
  /\ four' = {} /\ sel' = 0
  /\ pc' = "idle" /\ result' = "cut"
  /\ UNCHANGED <<call, done, said, installed, lost, faults>>

qspi_update ==
  \/ Enter4B
  \/ EraseSector \/ EraseDone \/ ProgramPage \/ ProgramDone
  \/ VerifyPage \/ VerifyFails \/ VerifyDone
  \/ Exit4B

Next ==
  \/ \E t \in {0, 1}, n \in Sizes : Begin(t, n)
  \/ qspi_update
  \/ PowerCut

Spec == Init /\ [][Next]_vars

-----------------------------------------------------------------------------
Holds(t, img, size) ==
  \A j \in 0 .. size - 1 : flash[Base(t) + j] = [img |-> img, at |-> j]

(* The boards that go on when the mode could not be entered: a command for *)
(* the update area then lands in the golden one.                           *)
EnteredBlindly == "enter" \in lost /\ ~ZynqMP

(* An image reported as installed stays whole until its own area is        *)
(* updated: neither a silent fault or a failed transfer, nor a power cut,  *)
(* nor the rounding up to sectors and pages of the other area's update, nor *)
(* a command with a misread address damages it.  So the board can always   *)
(* start the golden image while the other is replaced.  Excepted: the      *)
(* boards that ignore the failure of FlashEnterExit4BAddMode, after one.   *)
InstalledIntact ==
  ~EnteredBlindly =>
    \A t \in {0, 1} :
      installed[t] # Nothing => Holds(t, installed[t].img, installed[t].size)

(* The success message is never sent for an image that is not there.       *)
SuccessMessageIsTrue ==
  said /\ pc \in {"verify", "accept"} => Holds(type, image, total_bytes)

(* An image had bytes in the upper of two stacked chips, which             *)
(* FlashEnterExit4BAddMode does not put in 4-byte mode.                    *)
BeyondLower == Big /\ upper

(* Without a fault the verification succeeds: every byte that is           *)
(* programmed was erased first, every byte compared was programmed, and    *)
(* every command reached the address it was meant for.  Excepted: an image *)
(* that goes on in the upper chip, and those that follow it.               *)
FailsOnlyOnFault == result = "failure" => faults > 0 \/ BeyondLower

(* A call that ends, in success or in failure, leaves no chip in 4-byte    *)
(* mode, in which the boot ROM could not read it after a reset.  Excepted: *)
(* a transfer that failed in a step that is not retried, and as above; the *)
(* exit's write enable or bank register write then goes to the upper chip. *)
ModeRestored ==
  result \in {"success", "failure"} /\ ~BeyondLower
    /\ lost \cap {"enter", "erase", "exit"} = {}
  => four = {}

=============================================================================
