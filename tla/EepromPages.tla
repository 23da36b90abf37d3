---------------------------- MODULE EepromPages ----------------------------
(***************************************************************************)
(* EepromWriteData and EepromReadData of eeprom.c (16-byte pages, as       *)
(* configured): a buffer is written page by page, one I2C transfer each,   *)
(* and any transfer may fail.  An address on the bus is two parts: the     *)
(* block, in the slave address, and a byte within the block.               *)
(*                                                                         *)
(* The file holds both functions four times: for the controller of the     *)
(* processing system (psiic), for that of the fabric (xiic), and for two   *)
(* kinds of GPIO pins (gpio).  The loops over the pages are the same; what *)
(* becomes of the status of a transfer is not.                             *)
(*                                                                         *)
(* The byte of the device at an address is [of, at]: byte `at' of the      *)
(* of-th write; of = 0 before the first.                                   *)
(***************************************************************************)
EXTENDS Naturals

CONSTANTS
  PageSize,
  Block,       \* 256: what one byte of address reaches
  DeviceSize,  \* PageSize * TotalPage
  Starts, Counts,   \* the start_addr and ByteCount callers pass
  MaxCalls     \* bound: calls of either function

ASSUME EepromAssumption ==
  /\ PageSize \in Nat \ {0} /\ Block \in Nat \ {0} /\ DeviceSize \in Nat
  /\ Block % PageSize = 0 /\ DeviceSize % Block = 0
  /\ Starts \subseteq Nat /\ Counts \subseteq Nat \ {0} /\ MaxCalls \in Nat
  /\ \A s \in Starts, n \in Counts : s + n <= DeviceSize

Interfaces == {"psiic", "xiic", "gpio"}

VARIABLES
  intf,                   \* EEPROM_INTF
  mem, pointer,           \* the device: its bytes, its address pointer
  pc,                     \* "idle", "page", "point" or "receive"
  op,                     \* the last call: "none", "write" or "read"
  start_addr, ByteCount,  \* its arguments
  page_cnt,
  Status,                 \* what it returned
  before,                 \* history: mem when the last write began
  from, got,              \* history: where the last read took its bytes,
                          \* and how many it took
  calls                   \* history: how many calls were made

device == <<mem, pointer>>
args == <<intf, op, start_addr, ByteCount, before, calls>>
read == <<from, got>>
vars == <<device, args, pc, page_cnt, Status, read>>

Address == 0 .. DeviceSize - 1

Init ==
  /\ intf \in Interfaces
  /\ mem = [a \in Address |-> [of |-> 0, at |-> 0]] /\ pointer = 0
  /\ pc = "idle" /\ op = "none" /\ start_addr = 0 /\ ByteCount = 1
  /\ page_cnt = 1 /\ Status = "none" /\ before = mem /\ calls = 0
  /\ from = 0 /\ got = 0

Call(o, s, n) ==
  /\ pc = "idle" /\ calls < MaxCalls
  /\ pc' = IF o = "write" THEN "page" ELSE "point"
  /\ op' = o /\ start_addr' = s /\ ByteCount' = n
  /\ page_cnt' = s \div PageSize + 1
  /\ Status' = "none" /\ calls' = calls + 1 /\ before' = mem
  /\ UNCHANGED <<intf, device, read>>

Return(status) == pc' = "idle" /\ Status' = status

EepromWriteData(s, n) == Call("write", s, n)
EepromReadData(s, n) == Call("read", s, n)

start_page == start_addr \div PageSize + 1
end_page == (start_addr + ByteCount - 1) \div PageSize + 1
start_page_offset == start_addr % PageSize
end_page_offset == (start_addr + ByteCount - 1) % PageSize

(* Where a transfer goes: the block from the true address of the page, the *)
(* byte within it counted from the first page of the call.                 *)
BugBlockOfStart ==
  (start_addr \div Block) * Block + (((page_cnt - start_page) * PageSize) % Block)
Target ==
  IF page_cnt = start_page THEN start_addr
  ELSE (((page_cnt - 1) * PageSize) \div Block) * Block
       + (((page_cnt - start_page) * PageSize) % Block)

Length ==
  IF page_cnt = start_page
  THEN IF start_page_offset + ByteCount < PageSize
       THEN ByteCount ELSE PageSize - start_page_offset
  ELSE IF page_cnt = end_page /\ end_page_offset # PageSize - 1
       THEN end_page_offset + 1 ELSE PageSize

(* Where in the buffer the bytes of this transfer begin.                   *)
BugNoFirstPart == (page_cnt - start_page) * PageSize
BufferOffset ==
  IF page_cnt = start_page THEN 0
  ELSE PageSize - start_page_offset + (page_cnt - start_page - 1) * PageSize

(* The device's page write: the address counter stays within the page.     *)
InPage(a, j) == (a \div PageSize) * PageSize + ((a + j) % PageSize)

PageWrite(n) ==
  mem' = [a \in Address |->
    IF \E j \in 0 .. n - 1 : a = InPage(Target, j)
    THEN LET j == CHOOSE j \in 0 .. n - 1 : a = InPage(Target, j)
         IN  [of |-> calls, at |-> BufferOffset + j]
    ELSE mem[a]]

(* `ByteCount=XIic_Send(...); if(ByteCount!=(ByteCount+WrBfrOffset))': the *)
(* xiic copy takes the transfer of a buffer that fits the page for failed. *)
TakenForFailed ==
  intf = "xiic" /\ page_cnt = start_page
    /\ start_page_offset + ByteCount < PageSize

(* One turn of the loop.                                                   *)
WritePage ==
  /\ pc = "page" /\ ByteCount > 1 /\ page_cnt <= end_page
  /\ PageWrite(Length) /\ pointer' = InPage(Target, Length)
  /\ page_cnt' = page_cnt + 1
  /\ IF TakenForFailed THEN Return("failure") ELSE UNCHANGED <<pc, Status>>
  /\ UNCHANGED <<args, read>>

WriteEnds ==
  /\ pc = "page" /\ ByteCount > 1 /\ page_cnt > end_page
  /\ Return("success")
  /\ UNCHANGED <<device, args, page_cnt, read>>

(* The device stops acknowledging after n bytes: the call gives up.        *)
WriteFails ==
  /\ pc = "page" /\ ByteCount > 1 /\ page_cnt <= end_page
  /\ \E n \in 0 .. Length : PageWrite(n) /\ pointer' = InPage(Target, n)
  /\ Return("failure")
  /\ UNCHANGED <<args, page_cnt, read>>

(* ByteCount of 1 takes the branch that sends the address only.            *)
WriteAddressOnly ==
  /\ pc = "page" /\ ByteCount = 1
  /\ \/ pointer' = start_addr /\ Return("success")
     \/ UNCHANGED pointer /\ Return("failure")
  /\ UNCHANGED <<mem, args, page_cnt, read>>

(* What becomes of a read when its address was not acknowledged.  Only the *)
(* xiic copy looks.                                                        *)
BugLooksNowhere == pc' = "receive" /\ UNCHANGED Status
AddressRefused ==
  IF intf = "xiic" THEN Return("failure") ELSE pc' = "receive" /\ UNCHANGED Status

(* A read sends the address to move the pointer, the psiic copy by a call  *)
(* of EepromWriteData with no bytes.                                       *)
ReadMovesPointer ==
  /\ pc = "point"
  /\ \/ pointer' = start_addr /\ pc' = "receive" /\ UNCHANGED Status
     \/ UNCHANGED pointer /\ AddressRefused
  /\ UNCHANGED <<mem, args, page_cnt, read>>

(* The xiic copy keeps the length of the address in ByteCount.             *)
Wanted == IF intf = "xiic" THEN 1 ELSE ByteCount

(* The slave address selects the block, the pointer the byte in it.        *)
ReadReceives ==
  /\ pc = "receive"
  /\ Return("success") /\ got' = Wanted
  /\ from' = (start_addr \div Block) * Block + (pointer % Block)
  /\ pointer' = (from' + Wanted) % DeviceSize
  /\ UNCHANGED <<mem, args, page_cnt>>

(* Nothing is received.  Only the psiic copy says so: the others compare   *)
(* ByteCount with itself.                                                  *)
ReadFails ==
  /\ pc = "receive"
  /\ Return(IF intf = "psiic" THEN "failure" ELSE "success") /\ got' = 0
  /\ UNCHANGED <<device, args, page_cnt, from>>

Next ==
  \/ \E s \in Starts, n \in Counts : EepromWriteData(s, n) \/ EepromReadData(s, n)
  \/ WritePage \/ WriteEnds \/ WriteFails \/ WriteAddressOnly
  \/ ReadMovesPointer \/ ReadReceives \/ ReadFails

Spec == Init /\ [][Next]_vars

-----------------------------------------------------------------------------
Holds(n) ==
  \A a \in Address :
    mem[a] = IF start_addr <= a /\ a < start_addr + n
             THEN [of |-> calls, at |-> a - start_addr] ELSE before[a]

(* Target is right of every page of the call.                              *)
Reachable == start_addr % Block < PageSize \/ start_page = end_page

(* At every point of a write, and wherever it fails, the device holds a    *)
(* prefix of the buffer at the address asked for, and elsewhere what it    *)
(* held: the pages of the loop neither overlap nor leave gaps nor wrap, in *)
(* one page or several, of one block or two, if the buffer stays in a page *)
(* or starts in the first page of a block.                                 *)
WritesPrefix ==
  op = "write" /\ Reachable => \E n \in 0 .. ByteCount : Holds(n)

(* Between the pages nothing is unaccounted for: once the loop has ended   *)
(* without a failure the whole buffer is in the device, unless it is a     *)
(* single byte, of which EepromWriteData sends the address only.           *)
SuccessMeansWritten ==
  op = "write" /\ Status = "success" /\ ByteCount > 1 /\ Reachable
    => Holds(ByteCount)

(* The bytes a read of the xiic copy delivers are those at the address     *)
(* asked for, wherever the calls before it, and the transfers that failed, *)
(* left the device's pointer.  The other copies do not see that the        *)
(* address was refused, and deliver what the pointer was left at.          *)
ReadIsFromAddress ==
  op = "read" /\ pc = "idle" /\ Status = "success" /\ got > 0 /\ intf = "xiic"
    => from = start_addr

=============================================================================
