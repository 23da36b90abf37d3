# TLA+ models of xilinx_common_bsp

Specifications, model-checking configurations and machine-checked proofs for
the board support package under `src/` (C for MicroBlaze, Zynq and ZynqMP) and
for the client threads of the firmware-upgrade GUI
(`gui/firmware_upgrader_golden/`, Python). Paths below are relative to the
repository; file names without a directory are under `src/`. `PROJECT.json` maps
every definition to the lines it models.

## 1. Inventory

The BSP is a collection of drivers and services selected in `config.h`, run by
one main loop (`main.c`) plus interrupt handlers. There is no operating system:
concurrency is "main loop against interrupt handler", plus the other end of
each wire (Modbus master, network client, flash, EEPROM, I2C slave, DMA engine).

| Component | State | Operations | Talks to | What is hard |
|---|---|---|---|---|
| UART FIFO, transmit (`uartlite_fifo.c`, `rs485.c`) | ring, two indices and a count, direction of the RS-485 transceiver | `comSendBuf`, `UartSend`, `Uart0TxCpltIRQ`, `RS485_SendBefor/SendOver` | driver's interrupt handler, UART, Modbus slave | handler runs between any two steps of `UartSend`; the kick is not masked; turn-round of the bus |
| UART FIFO, receive (same file) | ring, two indices, count | `Uart0RxCpltIRQ`, `UartGetChar` | UART, `ReciveNew` callback | copy between two masked sections; overrun |
| Modbus RTU slave (`modbus_slave.c`, timer in `platform_mb.c`) | `RxBuf`/`RxCount`, `g_mods_timeout`, register P01 | `MODS_ReciveNew`, `Timer1Handler`, `MODS_Poll`, functions 03H and 06H | receive handler, axi timer, `RS485_SendBuf` | three actors share flag and count; frames are told apart by time alone |
| Firmware-update servers (`udp_update.c`, `tcp_update.c`, `lwip_common.c`) and clients (`udp_update.py`, `tcp_update.py`) | shared `rxbuffer`/`total_bytes`; per server `md5sum`, flag, area, `client_pcb` | receive, accept and close callbacks, `transfer_*_update_data`, `send_msg` | lwIP callbacks, `qspi_update`, network, GUI threads | shared buffer, packet loss, duplication and order, TCP's missing boundaries, messages to the wrong client |
| QSPI update (`qspi_flash_zynq.c`, `qspi_flash_mb.c`, `qspi_flash_zynqmp.c`) | two areas (golden, update) of one flash or two stacked ones, their address mode | `qspi_update`, `FlashErase`, `FlashWrite`, `FlashRead`, `FlashEnterExit4BAddMode`, `GetRealAddr` | update servers, flash, boot ROM | power cut, silent faults and ignored failures, rounding to sectors and pages, addresses misread in the wrong mode |
| EEPROM library (`eeprom.c`) | EEPROM content, its address pointer | `EepromWriteData`, `EepromReadData`, four copies | I2C controllers or GPIO pins, device | page and block crossings, failure in the middle, statuses overwritten |
| Command servers (`udp_cmd.c`, `tcp_cmd.c`) and clients (`memory_ops.py`, `udp_client.py`, `tcp_client.py`) | memory of the board, `sendlen`, `cerrent_ch`, `client_pcb`; the client's event and `recv_msg` | receive, accept, close and error callbacks, `transfer_*_cmd_data`; the GUI's callers and receiving threads | network, `transfer_data`, software reset | lengths from the packet, lengths kept from earlier commands, replies without numbers, time-outs and late replies |
| Start-up, network timers, main loop (`main.c`, `lwip_common.c`, `platform_*.c`) | how far `main` is, timer flags, `dhcp_timoutcntr`, `reset_pl` | `init_platform` to `lwip_common_init`, `timer_callback`, `transfer_data`, software reset | timer's and MAC's interrupt, lwIP, command servers | order of enabling and adding, flags reset after the call, a wait loop driven by an interrupt |
| Video pipeline configuration (`xswitch.c`, `clk_wiz.c`, `vtc.c`, `tpg.c`, `vpss.c`, gamma, demosaic, `csi_tx.c`) | which device runs | one routine each, a sequence of driver calls | vendor's drivers, `main`'s assertions | ignored and missing statuses |
| Video DMA (`vdma.c`) | registers of up to 8 engines, 2 channels each | `clear_display`, `vdma_config_direct`, `vdma_config` and their per-engine functions | engines that may still run after a warm restart | order of the writes, register pages, stopping before clearing |
| Bit-banged I2C (`xgpio_i2c.c`, `emio_i2c.c`) | direction and output registers of a port shared by all buses | start, stop, byte, ack, stretch; register and buffer transfers | slave on the wires, EEPROM library, serdes and HDMI chips | read-modify-write of a shared port, push-pull pins, stretching, ways out after a refusal |
| GPIO, RS-485, HDMI transmitter, serdes set-up | - | sequences of calls before the pipeline | `main` | statuses ignored |
| Others | - | ICAP, CSI receiver, HDMI receiver, MD5, PS and AXI I2C wrappers, ADC, gamma tables, GUI windows | - | see section 6 |

What makes each component correct: bytes leave and arrive in order, once each;
the bus is driven exactly while something is sent; no request is obeyed that was
not sent; a whole request is answered; the flash only ever receives a whole,
verified file, in the area asked for; what is installed stays bootable whatever
happens to the other area; clients learn the true outcome; an answer belongs to
the call that takes it; a device holds what was written where it was asked to be;
a bus is given back; a DMA engine never runs with half of its registers; nothing
runs before what it needs.

`PROJECT.json` lists every component with its status, and 40 hazards at the
lines where they bite with the properties that cover them, or the reason why
none does.

## 2. Modules

| Module | Models | State |
|---|---|---|
| `UartTxFifo` | transmit ring, `Uart0TxCpltIRQ`, RS-485 direction, UART core | one variable per field of `UART_T`, plus FIFO, shift register, pending interrupt |
| `UartRxFifo` | receive ring, handler against `UartGetChar` | same, receive half |
| `ByteFifo` | what a receive FIFO promises (abstract) | two counters |
| `ModbusSlave`, `MCModbusSlave` | slave, timer, bus with a list of frames | `RxBuf`, flag, timer, P01, program counter of `MODS_Poll` |
| `UpdateServers`, `MCUpdateServers` | both update servers, main loop, client threads, network | see inventory, plus packets under way |
| `CmdLink`, `MCCmdLink` | both command servers, the GUI's callers and receiving threads, network | memory, globals of the servers, sockets, event and `recv_msg` |
| `QspiUpdate`, `MCQspiUpdate` | `qspi_update` of the three boards on flash parts with faults and power cuts | the flash byte by byte, the chips' address mode, loop counters |
| `EepromPages`, `MCEepromPages` | `EepromWriteData`/`EepromReadData`, three kinds of interface, on a device with page wrap | the device byte by byte, its address pointer |
| `I2cMaster`, `MCI2cMaster` | both bit-banged masters, pin operation by pin operation, with a slave on each bus | direction and output registers, the slaves' state machines and registers |
| `RegisterBus` | what a register or EEPROM transfer promises its caller (abstract) | the registers, the call, its data and status |
| `VdmaConfig`, `MCVdmaConfig` | `vdma.c`, one register write or memset a step | every engine's registers, and what each channel runs with |
| `VideoPipeline` | the routines that configure devices, as sequences of driver calls | none |
| `Startup` (extends `VideoPipeline`) | `main`, the network timer, `lwip_common_init`, `transfer_data`, software reset | `main`'s place, devices started, timer flags, interface, `reset_pl` |
| `Loops` (extended by `VideoPipeline` and `VdmaConfig`) | a loop over straight code, as the sequence of what its turns do | none |
| `UartFifoProofs` (both rings), `StartupProofs` (`Startup` and `VdmaConfig`), `ModbusSlaveProofs`, `UpdateServersProofs`, `QspiUpdateProofs`, `EepromPagesProofs`, `CmdLinkProofs`, `I2cMasterProofs` | theorems, on the module of the same name where none is given | - |

**UartTxFifo.** Each action is the code between two points at which the
interrupt may be taken: what the code does between `DISABLE_INT` and
`ENABLE_INT` is one action. The kick is not masked, and each load and store it makes
of `usTxRead` is an action: the address of the byte (`Kick`, line 467), the sending
(`SendFirst`), the load and the store of `++usTxRead` (`LoadRead`, `Bump`, 468) and the
store that takes it back to the start (`BumpToStart`, 470). The handler advances the
same index (114-117): between load and store its advances are overwritten, and between
the two stores it reads behind the ring (`Foreign`). The driver and the UART core are
external and modelled from their use: a byte enters the FIFO, moves to the
shift register, and the FIFO-empty interrupt is raised when the last byte moves.
A byte is its serial number, so loss, repetition and stale bytes are visible in
`wire`. `usleep(1000)` in the handler may end before or after its byte is out,
whatever the line's speed makes of it. The hardware FIFO is 16 deep; the handler
enters a byte a millisecond and the model does not bound it.

**UartRxFifo.** `UartGetChar` is three actions (masked check, copy, masked
removal). Its specification is `RxSpec`, as the proofs of both rings are one module.
The ring implements `ByteFifo` through
`INSTANCE ByteFifo WITH Capacity <- RxBufSize, lost <- overrun`.

**ModbusSlave.** A byte in `RxBuf` is (frame, position); its value is looked up
in the list of frames the bus carries. The CRC passes for exactly one whole
frame (see the comment at `CrcIsZero`). Bytes of a frame follow each other
within 3.5 characters, so the timer cannot expire within a frame; the next frame
starts after it expired. `MODBUS_RTU_SLAVE` is off by default in `config.h`; the
model is of the code with it on. The receive handler and the timer are
interrupts, each one action; `MODS_Poll` is one action for each access to the
shared flag or count.

**UpdateServers.** A packet is a sequence of pieces, a piece what a client sent
in one call. UDP packets have one piece and may be lost, repeated or swapped with
the next; TCP may join a piece to the packet before. Callbacks run only inside
`xemacif_input`, one packet a call, and `transfer_data` runs both transfer
functions after it: `loop` alternates `"input"` and `"transfer"`. The MD5 digest
identifies its file. Of the percents that `process_print` sends during an update
one stands for all, before the outcome. `qspi_update` may also end with
no message behind them, as it does for an image of whole pages, or with texts the client does
not know. The client threads are the GUI's `run` methods, their
comparisons included: the third message the thread knows is compared with its
format string and equals nothing.

**CmdLink.** A receive callback is one step, as both servers run inside
`xemacif_input`. A client is two threads: the caller, which sends a request, waits
for an event, clears it and reads `recv_msg`; and the receiver, which stores a
message and then sets the event. Lengths are in bytes with the servers' limits
scaled down; a value in memory is the number of the request that wrote it. UDP
packets are lost or repeated, TCP's are joined, and TCP connections end in either
way (`fin`, `rst`) and are opened again; `client_pcb` is the connection accepted
last. The servers' commands for I2C devices have empty bodies (their calls are
commented out) and are modelled as that.

**QspiUpdate.** One action per sector erased, page programmed and page compared;
a fault leaves the sector or page with junk and reports nothing, as the code
reads nothing but the busy bit; a transfer may fail, which the boards ignore or
report each in its own way; a power cut leaves the step half done and ends the
call. The parts are those `FlashReadID` tells apart, as far as `qspi_update`
treats them differently: `small` (to 16 MB, three address bytes), and larger ones
of the makes whose 4-byte mode is entered differently. A chip that is not in
that mode takes the first three of four address bytes for its address: the command
works on the address divided by 256 (`Unit`, `AddrByte`). With two stacked chips
`GetRealAddr` selects one, and `FlashEnterExit4BAddMode` reaches only the lower, or
the one selected last (`ModeChips`).

**EepromPages.** One action per I2C transfer. The device is external: the
address counter wraps within a page on a write, and a transfer may fail at every
byte. The four copies of the functions are three interfaces: PS controller,
AXI controller, and GPIO pins of either kind, whose transfers are in `I2cMaster`.
The size of the device is the configured one, with one address byte and the
block in the slave address.

**I2cMaster.** An operation on the pins (a direction, a write, a sample, a wait)
is one step; a routine is the sequence of them in the code, a transfer a sequence
of routines, a call one or two transfers. `xgpio_i2c.c` writes its whole port with
the levels just read; `emio_i2c.c` writes a pin. When both lines move in one write,
the slave may hear either first. The slave follows the wires: it samples when scl
rises, moves sda when it falls, sees START and STOP, may refuse any byte, and may
hold scl low. `emio_i2c.c`'s register routines call the routines of
`xgpio_i2c.c`, and so does the model. With the variables of the same names
`I2cMaster` implements `RegisterBus`.

**VdmaConfig.** A program is a sequence of register writes and memsets per engine,
computed from the build (widths, numbers of frame stores, channels) as the code's
per-engine functions do. An engine takes its addresses and sizes over when VSIZE
is written while the run bit is set, and goes on with its frame when the bit is
cleared. Engines start cold, or run with an earlier program's values. Its specification
is `VdmaSpec`, as its proofs share a module with those of `Startup`.

**VideoPipeline, Startup.** A routine that configures a device is the sequence of
its driver calls: calls whose result nobody reads, calls whose failure ends the
routine, and waits for a clock to lock. Any call may fail. `Startup` runs them in
`main`'s order, with `main`'s assertions, the routines without a return statement
(`NoReturn`: `main` tests whatever the register holds), and interrupts between any
two steps once they are enabled. A server's start may fail as well (no memory, port
in use), which nobody reads: its packets are then not heard. A software reset starts
`main` again. Of a command the module keeps only the byte that asks for the reset: the
receive callback that sets `reset_pl` answers it as well, which is `CmdLink`'s matter, and the
command servers' transfer functions, called between callback and reset, are empty.

Composition: `Startup` composes `VideoPipeline`, the timers, the wait for DHCP and
the loop; `UpdateServers` both servers, the loop and the clients; `EepromPages`
rests on the transfers of `I2cMaster`, and `I2cMaster` on `RegisterBus`' promise.

## 3. Runs

| Run | Question | Bounds and why they are enough | Distinct states |
|---|---|---|---|
| `UartTx` | transmit ring under every interleaving, any line speed, overlapping calls | ring of 3, messages of 1-4, three calls: shorter than, equal to and longer than the ring, wrap in every position, the race in two messages and a third after it | 120,394 |
| `UartRx` | ring implements a FIFO, every byte delivered | ring of 3, 8 bytes: more than two turns of the ring and an overrun | 353 |
| `Modbus` | what is answered and obeyed, with bytes between any two steps of `MODS_Poll` | six frames: good, foreign, too long for `RxBuf`, unknown function, value out of range (a frame has a byte at least: silence is no frame); one byte lost anywhere | 402,170 |
| `QspiUpdate` | what is installed survives, success is true, failure has a reason, the mode is left | three boards, five kinds of parts, stacked or not; chips of 4 sectors of 2 pages of 2 bytes; sizes 0, 3, 4, 8, 9: below, at and above page, sector and chip; three updates, one fault, one cut | 2,453,690 |
| `UpdateUdp` | a UDP client against the network | three chunks, two faults: any two packets may be lost, repeated or swapped; flash failures and updates that end without a message | 4,268 |
| `UpdateBoth` | both servers on the shared buffer | one client each, two chunks, one fault, joins and flash failures | 54,586 |
| `EepromPages` | pages written where they belong, reads from where they were asked | two blocks of two pages of 4 bytes; 1, 2, 5 and 6 bytes from every address; two calls, failure at every byte | 79,253 |
| `CmdLink` | which call an answer belongs to | one client of each server, two words of memory, three calls, one packet lost or repeated, two connections; limits such that a bulk reply fits UDP and not TCP | 4.5 million |
| `I2cMaster` | the wires are shared and given back, registers change as promised | two buses (one and two address bytes), bytes of 2 bits, two calls in a row over either driver, with a stretching, refusing or absent device | 216,380 |
| `Vdma` | no channel starts with a mixture | three engines: one with 17 stores (one more than a page), one with 32, one without pages; both widths; one or two channels; cold or running | 106,078 |
| `Startup` | order of the start under failures and interrupts, timers | three boards, with and without DHCP; two half seconds of patience (24 in the code), two CSI transmitters, six ticks counted: three calls of the slow timer and a whole turn of the link detection | 467,340 |
| `DhcpWait` | the wait for an address ends (expected to be violated) | as `Startup`, with DHCP and four ticks | about 19,300 |

`CHECK_DEADLOCK FALSE` is in every cfg: the environment is bounded (messages,
frames, clients, calls), or `main` stops in an assertion, so every system comes to
rest.

Several properties hold except in a case that the code really has; they name the
case instead of leaving it out of the model, through a history variable or a
condition on the arguments:

* `overlapped` (`UartTxFifo`): `comSendBuf` was called with a message under way.
  A stale byte of the ring may then be sent and the ring stay shifted.
* `torn`: the first message during whose kick the handler advanced `usTxRead` between
  `UartSend`'s load and its last store of it. The advance is lost, or applied to an
  index behind the ring, and no code ever sets the indices right again: they stay apart when
  the ring is quiet, and the messages after that one are sent from shifted slots.
* `rushed`: the `usleep(1000)` of the handler ended before its byte was out, as on
  a line slower than 19200 baud. Then, and after every message of one byte, for
  which the handler does not sleep, the transceiver is turned round with the last
  byte still in the shift register (line 122 looks at the FIFO only).
* `Fits`: for a message longer than the ring, `UartSend` waits for room (line 440)
  before it has started the transmission that would make it.
* `overrun` (`UartRxFifo`): the handler stores over the oldest byte and moves
  `usRxWrite`, but not `usRxRead` (line 82): the bytes after that come out of order.
* `disturbed` (`ModbusSlave`): a byte came while `MODS_Poll` was at work, or before
  it had begun with the frame before. `MODS_Poll` clears `RxCount` without looking
  (line 1114), so the beginning of a frame may be dropped; the first byte of the
  next frame withdraws a raised flag (line 1130), so two frames may merge; and
  a good request may be refused for its length (line 882).
* `controlLost` (`UpdateServers`): a command or an answer, not a piece of the file,
  was lost: the UDP client has no timeout. The percents, which the thread shows and
  forgets, do not count.
* `untold`: an update reached the flash and ended without a message the client knows. An
  image of whole pages is not reported at all (`qspi_flash_zynq.c:357-366`), and a failed
  verification is reported with texts that the client's thread does not compare. The client
  then waits for ever although nothing was lost.
* `disturbed` (`CmdLink`): a call on this socket timed out, or a packet of it was
  repeated. The event is not cleared before a request and replies carry no number,
  so a late reply is taken by the next call. `AckedWriteHappened` says what is
  left of the promise then.
* `EnteredBlindly` (`QspiUpdate`): the Zynq and MicroBlaze boards ignore that the
  4-byte mode could not be entered; a command for the update area then lands in the
  golden one.
* `BeyondLower`: an image had bytes in the upper of two stacked chips. That chip is
  not in the mode, and verification fails; on the way out the mode of the wrong chip
  is left.
* `lost`: the kinds of step a transfer failed in. A failed `enter`, `erase` or
  `exit` is not retried, and the mode is not left.
* `Reachable` and `ByteCount > 1` (`EepromPages`): see the next section.
* `lost` (`I2cMaster`): the call passed over an error: it gave up waiting for a
  stretched clock and went on as if the slave had answered, it ignored that the
  address of an EEPROM read was refused, or the bus was not free when it began.
* `ClearedAtRest` leaves out engines 1-7 with one channel: `clear_display_1` to `_7`
  stop a channel if the engine has the other one.
* `HandlerFindsInterface` excepts an interface that `lwip_common_init` reported as
  refused: `main` ignores that and enables the interrupts, and the timer's handler
  does work on it. Which servers were started makes no difference to it, as nobody
  reads what `start_*_application` return.

### Code against comment

`DhcpWait` is expected to violate `DhcpWaitEnds`. A comment at `lwip_common.c:238`
says that interrupts are enabled there; the call under it is commented out, and
`main` enables them only after `lwip_common_init` has returned. The wait for an
address counts half seconds in `dhcp_timoutcntr`, which only the timer's handler
decrements: without a DHCP server the start waits for ever.

### Other behaviour the models have

None of these is excluded; each is either bounded by a property or one of the
exceptions above.

* The FIFO-empty interrupt between kick and step sends a byte twice and the last not
  at all (`uartlite_fifo.c:467`). Within the step (468-471) it does more: the store overwrites
  the handler's advances, so the ring stays shifted and every later message may carry
  bytes of earlier ones; and between the two stores at the ring's end the handler sends
  what lies behind the ring. `DamageIsBounded` bounds the messages up to and including
  the first one hit in this way, and `AlignedWhenQuiet` says that nothing else moves the indices
  apart. Neither bounds what comes after.
* The reply to the reset command is handed to lwIP in the turn of the loop that ends with the
  reset (`lwip_common.c:161`). Nothing waits for its frame to leave; no property is about it.
* Results are sent to the clients of both update servers (`lwip_common.c:288`): one
  client takes the other's success for its own. `UpdateUdp` has one client.
* TCP may join two sends into a segment, the command is not recognised
  (`tcp_update.c:177`, `215`), and the client waits for ever.
* An image of a whole number of pages is installed and verified, and the client is
  not told (`qspi_flash_zynq.c:366`). A failed verification is answered with texts
  that the GUI's thread does not know.
* An EEPROM buffer that starts in a later page has its following pages written at
  the start of the block (`eeprom.c:235`); a write of one byte sends the address only
  and returns `XST_SUCCESS` (198). A read whose address was refused returns
  `XST_SUCCESS` and other bytes (342) on all but the AXI controller, whose copy
  receives one byte of a read and reports every write within a page as failed.
* A bulk write is carried out before its length is compared with anything, and
  `sendlen` keeps the length of an earlier command (`udp_cmd.c:101`).
* `vdma_reg_cfg` reads beyond its three addresses for engines with more stores; the
  model gives such stores `Garbage`, and `Limit` the functions that do not.
* A clock that does not lock is reported on the console, and `XST_SUCCESS` returned,
  where the comment at `clk_wiz.c:51-61` speaks of `XST_FAILURE`. `axis_switch_cfg` and
  `vpss_config` end without a return statement. `main` ignores what `Uart0_Init`,
  `PsGpioSetup` and the I2C set-ups return.

## 4. Fairness

* `UartTxFifo`: the processor executes (weak fairness of `Main`, and of `Isr`)
  and the UART clocks (`Uart`). Nothing is assumed of the application.
* `UartRxFifo`: the main loop calls `UartGetChar` again and again.
* `ModbusSlave`: the main loop calls `MODS_Poll`, and a running timer expires.
  The bus owes nothing.
* `UpdateServers`: the main loop runs, lwIP hands over the packets of every
  client, and a GUI thread goes on while it can. The network owes nothing:
  packets may be lost up to the bound. `EndsUnlessControlLost` says
  what leaves a client waiting: a lost command or answer, or an update that ended untold.
* `Startup`: `main` executes, and the timer ticks once it runs and interrupts are
  taken. Frames owe nothing.
* `I2cMaster`: the program executes. That a slave ever releases the clock is not
  assumed; the code counts (`GiveUp`).
* `VdmaConfig`: the program executes. That a frame ends is not assumed.
* `QspiUpdate`, `EepromPages` and `CmdLink` have safety properties only.

## 5. Proofs

Proved by TLAPS for all values of the constants (ring sizes, message lengths,
numbers of clients, of chunks, of calls and of faults, frames on the bus, geometry of
flash and EEPROM, patience), from the assumptions named in the modules; three theorems
name a hypothesis of their own, given below:

* `UartFifoProofs`, transmit: `TypeCorrect`, `QuietIsAligned`, `BusIsDriven`,
  `BusDrivenToTheEnd`, `DamageStaysInMessage`. The ring's
  type is not inductive alone: the count may be decremented by the handler only
  where a byte was counted, and is incremented by `UartSend` only after it found
  room, while the handler may only have made more. The strengthening relates
  count, indices, FIFO and shift register, the driver's request and the program
  counters of both sides. It says how far `usTxRead` is ahead of or behind the count between
  kick and step (`Behind`), for as long as no stale index has been stored (`Coherent`): until
  the handler advances the index under it, the copy `UartSend` holds is up to date (`Copy`), and
  the handler that makes it stale empties the ring before `UartSend` stores it (`Tearing`), so
  its own message still goes out from the right slots. The type invariant holds
  for overlapping calls too; the others hold until the first overlap (`RestInv`).
  `BusIsDriven` and the number of bytes on the line rest on the count, which is masked,
  and need no assumption on the index.
  * `DrivenToTheEnd` needs `EndInv`: the handler counts the first byte of a message at
    its entry and sleeps after every other, so that the sleep has passed when it finds
    the count at zero, unless the first byte was the whole message.
  * `DamageIsBounded` needs what the line carries. Byte `b` lies in the slot
    `(b - 1) % TxBufSize` until it is overwritten `TxBufSize` bytes later (`RingInv`), so
    the read index says which byte comes next: the one after the last sent or, when
    the handler ran between kick and step (`Behind`), that one again, or for the second byte one
    from behind the ring. `StreamInv` says of all bytes that have entered the UART (wire,
    shift register, FIFO) that each finished message up to the first torn one is there whole
    or with such a second byte, and how far the last one is.
* `UartFifoProofs`, receive: `RxTypeCorrect`, `RxRingIsExact`, `RxImplementsFifo`. The
  inductive invariant is `RingHoldsWaiting` with the position of `usRxWrite`
  relative to `usRxRead` and the count; the step that matters is the handler
  storing between the copy and the removal. The refinement follows from it
  step by step: a store is a `Put`, a removal a `Get`, an overrun ends the
  promise.
* `ModbusSlaveProofs`: `EachAnswerHasItsFrame`, `GoodWritesAreAccepted`, `RxBufIsInSync`,
  `OnlyWritesWrite`. Three facts carry them. What is in `RxBuf` is past on the bus and
  was not lost (`BusInv`). The buffer is only emptied when the frame on the bus is
  over, its bytes so far are lost, or it counts as disturbed (`SyncInv`). And from the
  CRC to the answer the request stays where it is, as bytes that come meanwhile are
  appended after it (`RequestInv`). So what is answered is over, and what `RxBuf` holds
  comes after it (`AnswerInv`). `OnlyWritesWrite` (an action property: the register
  changes only to what a frame to this slave asks for) has the hypothesis
  `NoShortWrite`: no write to this slave is shorter than its eight bytes. The
  protocol has none; of one, `MODS_06H`, which reads `RxCount` anew, would take its CRC or
  bytes that came after it for the value.
* `UpdateServersProofs`: `UpdateTypeCorrect`, `FlashHoldsWholeFiles`,
  `FilesGoWhereAsked`, `SuccessIsTrue`. `OnlyWholeFiles`
  speaks of the flash; the invariant has to speak of the moment before: when a
  flag is up the buffer is a whole file (`FlaggedIsWhole`), at most one flag is up
  (`OneFlag`), and none is up when `xemacif_input` is called (`NoFlagAtInput`).
  The last is what the order of calls in `transfer_data` gives, and it is why
  appending to one buffer from two servers is safe for the flash.
  * `FilesGoWhereAsked` is of any clients of which those of one server ask for one area
    (`OneAreaPerServer`), as when each server has a single one. A server's area is a
    global that each client's command sets, and two clients of one server that ask for
    different areas may overtake each other. The packets a server gets, the data a command
    is found at the end of and the digest it is compared with are its own clients'
    (`AreaInv`).
  * `SuccessIsTrue` is of a single client of either server (`OneClient`): results are sent
    to the clients of both (section 3). Its invariant (`ToldTheTruth`) is of the messages
    under way: "success" is among them only once the file is installed, and what is
    installed stays so because the client never asks for another area.
* `QspiUpdateProofs`:
  * `MessageIsTrue`. The invariant (`Verified`) is what the verify loop has compared
    so far, and that the message belongs to a page after which nothing is left.
  * `InstalledSurvives`. `InstalledIntact` speaks of two areas and of faults of every
    kind; the proof has three parts. `WithinSectors`: the last page, rounded up, ends
    within the sectors, rounded up, that the image was found to fit. `InMode`: the
    lower chip is in 4-byte mode while a call works that needs it, although
    entry and exit reach whichever chip was selected last: a chip other than the
    lower is only left selected with the lower in the mode. `UnitInside`: so a
    command either works where it was meant to, or in the upper chip, which no
    golden image reaches. Together (`Confined`) no step touches the other area,
    and `Kept` is invariant.
  * `FailureHasReason`. Without a fault the bytes of the image are erased, then
    programmed, then compared (`Progress`), and every command that reaches one of them
    reaches the one it was meant for (`OnImage`), the rounded-up last sector and page
    included, which may lie in the upper chip.
  * `ModeIsRestored`, from `LowerOnly`: in a run without the failures named above the
    chips in the mode are at most the lower one, and it is selected at the exit.
* `EepromPagesProofs`: `PrefixWritten`, `SuccessIsWhole`, `ReadFindsAddress`. Between two
  turns of the loop the device holds the pages made so far (`PagesSoFar`), whose number
  of bytes (`Done`) follows from `start_page` and `end_page` by the arithmetic of
  quotients and remainders (`LoopArithmetic`, `Transfer`): no transfer reaches into the next
  page, so that the wrap of the device's address counter does no harm. The xiic copy
  of a read goes on only behind an address that was acknowledged
  (`PointerIsAddress`).
* `CmdLinkProofs`: `CallersGetTheirAnswers`, `ReadsSeeOneMoment`, `AckedWritesHappened`.
  While a socket is undisturbed, the one request or reply of the call under way is in
  exactly one place: on its way to the server (`Asked`), on its way back (`Returning`),
  or with the client's threads and behind the event (`Received`). None of these
  leaves room for a message of an earlier call, of which a closed TCP link leaves at most
  its end. Of a disturbed socket only `BackedBy` is left: a reply to a write has a
  request behind it that was carried out. The sum of a packet's lengths (`TotalLen`) is
  needed for one request only, which the proof gets by exhibiting the function.
* `StartupProofs`, the start: `InterfaceFound` (interrupts are taken in the loop only, and the
  loop is behind the last of `MainSteps`), `HalfRate` (`InStep`: flag,
  `odd` and the two counts), and `StreamPrepared`: `StartedInOrder` says which call of
  which routine starts each device (`Due`), that `main` past that call has it running,
  and that no routine before the last but one starts the transmitter. A routine
  of `Due` either stops `main` when it fails or makes no call that can fail
  (`DueRoutines`).

* `StartupProofs`, the video DMA: `ChannelsRunAsConfigured`, `BuffersClearedAtRest`. What
  a channel may have in its registers depends on how far the program is, and the
  program is a sequence computed from the build. So the proof is an outline
  (`Outline`): what is left of the program has, for each channel, a set of register
  states before each of its operations, and every operation takes each state of the
  set before it to the set after it. The invariant (`VdmaIInv`) says that what is left
  has an outline from the registers as they are; a memset fits only where the channels
  are stopped (`Fits`). An outline is put together as the program is: of one
  operation, of two sequences, and of a loop from one for each turn (`OfLoop`). The
  outline of a channel's code says which stores have their addresses and which page is
  on; it is made for every number of stores from 1 to 32, where the page changes at
  store 17 and goes back after store 32 (`OfPaged`). An end of frame stays in every set
  (`Asserts`), which is how it may come at any time.
* `I2cMasterProofs`: `BusesAreReleased`, `TheOtherBusesAreQuiet`, `FightsAreHarmless`, for
  every number of buses, every width of a byte, every content and decision of the
  slaves, and transfers of any length.
  * A *line* is a bus as the proof sees it: the directions and latches of its two pins,
    the state of its slave, and what `i2c_recv_ack` sampled. `Moves` says what an operation
    may make of a line, `FallsTo` what a slave may do when scl falls. An *assert* is a set
    of lines without a fight but over sda with scl low, closed under the slave letting
    scl go. An outline gives a routine the assert before each of its operations.
  * A *phase* is what a transfer may find between two routines: `"free"`; `"addr"` after
    START; `"askT"` and `"askS"` after a byte, `"taking"` and `"sending"` after the slave's
    answer to it; `"sent"` after a byte from the slave; `"closed"` when the slave is deaf.
    `RoutineOutline` has one outline for each routine of each driver and each phase it is
    called in. The delicate ones are `i2c_recv_ack` with stretching, whose wait ends only
    with scl high (`Loose` lines in between), and the end of a read: only a
    `nack` makes the slave let sda go, so that STOP can be seen (`AnswerOutline`).
  * A *chain* gives a transfer the phase before each of its routines; `WriteChains` and
    `ReadChains` make one for transfers of any number of bytes.
  * The invariant (`Inv`) says: the operations left of the routine have an outline from
    the line as it is to a phase, the routines left have a chain from there, the
    transfers left a plan from there to `"free"` (`OnCourse`), and all other buses are free
    (`OthersFree`); the first and the last until an error is passed over (`lost`). A free
    bus stays free through a write to the whole port, because the levels read from it
    are the high ones it is let go at (`OtherLine`).
  * `CallsAssumption` says that the calls are those of the two files, with buffers of any
    length, of which an EEPROM read asks for a byte at least, as every call of it does.

`TypeOK` of the UART rings and of the update servers is proved and not checked by a run.

The video DMA's proof needs an induction over the turns of a loop. The library's induction
theorems cannot be cited, as they take an operator for a parameter. In its place stands
the least counterexample: a non-empty set of numbers below a bound has a least member,
which follows from the well-foundedness of strict inclusion between finite sets
(`Least` in `StartupProofs`), and a loop (`Loops`) is a recursive function, which
unfolds by its definition. The loops of `I2cMaster` are sequences given by their index,
whose outlines and chains are given by index as well.

Only model-checked:

* all liveness (`SendReturns`, `BytesDelivered`, `AnsweredUnlessDisturbed`,
  `EndsUnlessControlLost`, `EveryCallReturns`, `DisplayStarts`, `TimersServed`), which TLAPS
  cannot treat under fairness;
* the refinement `PromiseKept` of `I2cMaster`. It speaks of the value of a byte, put
  together from its bits by division by powers of two, of which the provers know not even
  that `2^n` is at least 1. What the wires do is proved, and what they carry is
  checked, with bytes of two bits.

## 6. Not modelled, and known limits

* MIPI CSI receiver, ICAP: their calls in `main` are commented out or under `#if 0`.
  HDMI receiver IT6801: tables of registers and a handler that nothing sets up.
* PS and AXI I2C wrappers, ADS7128: one call of a vendor's driver each. MD5, CRC: a
  digest or CRC is taken to identify its data. Gamma coefficients, register tables of
  the serdes and HDMI chips, the version: numbers. GUI windows: the threads behind
  them are in `UpdateServers` and `CmdLink`.
* `UpdateServers` has no byte counts: it does not show `rxbuffer` running past
  its array, nor `total_bytes - 6` below zero, nor a piece of a file that equals a
  command. TCP aborts (`tcp_server_err`) are left out here; `CmdLink` has the
  command server's.
* `QspiUpdate`: images end, rounded up to a sector more than they need, before the
  other area or the end of the flash. A golden image that fills its area exactly up to
  `UpdateBase` erases the first sector of the update area (`qspi_flash_zynq.c:749`). The
  bulk and die erase of images as large as the flash are not modelled. After
  `error_printf` on the ZynqMP, which prints through a pointer that nothing sets,
  nothing is promised (`"dead"`).
* `EepromPages`: the size is the configured one; devices with two address bytes are in
  `I2cMaster` only.
* `I2cMaster`: delays are left out; transfers of 32-bit registers are under `#if 0`.
  One master; no arbitration.
* `VdmaConfig`: `vdma_read_init` and `vdma_write_init`, which nothing calls, and the
  interrupt callbacks, which are not connected.
* `ModbusSlave`: 03H and 06H, the functions that are compiled.
* `Startup`: that devices behind a clock that has not locked do not run is hardware
  the model does not have (`NoLock`). LEDs, caches and the console are left out.

## 7. Plan

Done in this order, most important behaviour first: UART rings, Modbus slave,
update servers, flash update, EEPROM; command servers, start-up and timers,
bit-banged I2C, video DMA, the three boards' flash updates; proofs, for every
component, of every safety property that a run checks but one, `PromiseKept`.

Next, to model: byte counts, two TCP clients and `tcp_server_err` in `UpdateServers`;
its composition with `QspiUpdate` (failure and retry), and of `ModbusSlave` with
`UartTxFifo` (a reply while the last is being sent); an abstract command link that
`CmdLink` implements.

Next, to prove: `PromiseKept`, with powers of two as a recursive function and the
value of the bits passed as a part of every line.

## 8. Running

`tlc -config <Run>.cfg <Module>` with the module of each entry of `runs`;
`tlapm <Module>Proofs.tla` for the proofs.
