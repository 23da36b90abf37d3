------------------------------ MODULE Startup ------------------------------
(***************************************************************************)
(* main.c, lwip_common.c and platform_{mb,zynq,zynqmp}.c: from init_platform *)
(* to the endless loop, the network timer's interrupt that ticks under it, *)
(* and the software reset a command may ask for.                           *)
(*                                                                         *)
(* The processor has one core: an interrupt's handler runs between two     *)
(* steps of main, whole.  Interrupts reach it once platform_enable_        *)
(* interrupts has been called and never before.                            *)
(***************************************************************************)
EXTENDS VideoPipeline

CONSTANTS
  Boards,        \* the platforms: "mb", "zynq", "zynqmp"
  Dhcp,          \* the values of LWIP_DHCP that are built: of BOOLEAN
  DhcpPatience,  \* the half seconds the start waits for an address, 24 in the code
  MaxTicks       \* ticks that are counted

ASSUME StartupAssumption ==
  /\ Boards \subseteq {"mb", "zynq", "zynqmp"} /\ Dhcp \subseteq BOOLEAN
  /\ DhcpPatience \in Nat /\ MaxTicks \in Nat

EthLinkDetectInterval == 4   \* ETH_LINK_DETECT_INTERVAL

\* What main calls before the loop, each once, in this order.
MainSteps == <<"init_platform", "xgpio_i2c_init", "PsGpioSetup", "Uart0_Init",
               "sil9136_config", "serdes", "axis_switch_cfg", "clkwiz_config",
               "vtc_config", "tpg_config", "vdma_config_direct", "vpss_config",
               "gamma_lut_init", "demosaic_init", "csi_tx_config", "lwip_common_init">>

\* A failure of one of these stops main in an assertion; others' are ignored.
BugVpssUnchecked ==
  {"xgpio_i2c_init", "axis_switch_cfg", "clkwiz_config", "vtc_config", "tpg_config",
   "gamma_lut_init", "demosaic_init", "csi_tx_config"}
Asserted ==
  {"xgpio_i2c_init", "axis_switch_cfg", "clkwiz_config", "vtc_config", "tpg_config",
   "vpss_config", "gamma_lut_init", "demosaic_init", "csi_tx_config"}

\* These end without a return statement: main tests whatever is in the register.
NoReturn == {"axis_switch_cfg", "vpss_config"}

VARIABLES
  board,    \* the platform
  dhcp,     \* LWIP_DHCP
  pc,       \* what main calls next
  step,     \* its place in MainSteps
  at,       \* the routine's next driver call
  running,  \* the devices that were started
  ready,    \* the calls that were made and did what they should
  irq,      \* the processor takes interrupts
  timer,    \* the network timer runs
  ip,       \* the interface has an address
  TcpFastTmrFlag, TcpSlowTmrFlag, odd, DetectEthLinkStatus, dhcp_timoutcntr,
  linkBroken, \* the handler worked on an interface that was never added
  rxq,      \* the frame the MAC's interrupt queued: "none", or what it asks for
  reset_pl,
  ticks, slows   \* ticks and calls of tcp_slowtmr, up to MaxTicks ticks

timers == <<TcpFastTmrFlag, TcpSlowTmrFlag, odd, DetectEthLinkStatus,
            dhcp_timoutcntr, linkBroken>>
counts == <<ticks, slows>>
link == <<rxq, reset_pl>>
setup == <<step, at, running, ready, irq, timer, ip>>
pipeline == <<at, running>>
vars == <<board, dhcp, pc, setup, timers, link, counts>>

Loop == {"tcp_fasttmr", "fast_reset", "tcp_slowtmr", "slow_reset", "xemacif_input",
         "reset"}

(***************************************************************************)
(* The interrupts.                                                         *)
(***************************************************************************)
\* The handler of the network timer: timer00_callback, timer_callback.
BugNotOdd ==
  /\ irq /\ timer /\ "timer" \in ready
  /\ TcpFastTmrFlag' = 1 /\ odd' = odd /\ TcpSlowTmrFlag' = 1
  /\ dhcp_timoutcntr' = dhcp_timoutcntr
  /\ DetectEthLinkStatus' = (DetectEthLinkStatus + 1) % EthLinkDetectInterval
  /\ linkBroken' = linkBroken
  /\ ticks' = IF ticks < MaxTicks THEN ticks + 1 ELSE ticks
  /\ UNCHANGED <<board, dhcp, pc, setup, link, slows>>
timer_callback ==
  /\ irq /\ timer /\ "timer" \in ready
  /\ TcpFastTmrFlag' = 1 /\ odd' = 1 - odd
  /\ TcpSlowTmrFlag' = IF odd' = 1 THEN 1 ELSE TcpSlowTmrFlag
  /\ dhcp_timoutcntr' = IF odd' = 1 /\ dhcp /\ dhcp_timoutcntr > 0   \* bound: stops at 0
                        THEN dhcp_timoutcntr - 1 ELSE dhcp_timoutcntr
  /\ DetectEthLinkStatus' = (DetectEthLinkStatus + 1) % EthLinkDetectInterval
  /\ linkBroken' = (linkBroken \/ (DetectEthLinkStatus' = 0 /\ "netif" \notin ready))
  /\ ticks' = IF ticks < MaxTicks THEN ticks + 1 ELSE ticks
  /\ UNCHANGED <<board, dhcp, pc, setup, link, slows>>

\* The MAC's interrupt queues a frame: the reset command or the DHCP server's
\* answer.  No other frame concerns this module.
emac_recv_handler ==
  /\ irq /\ "netif" \in ready /\ rxq = "none"
  /\ rxq' \in {"reset"} \cup (IF dhcp THEN {"address"} ELSE {})
  /\ UNCHANGED <<board, dhcp, pc, setup, timers, reset_pl, counts>>

(***************************************************************************)
(* The start.                                                              *)
(***************************************************************************)
Goto(p) == pc' = p
Call(f) == pc = "main" /\ step <= Len(MainSteps) /\ MainSteps[step] = f
Return == step' = step + 1 /\ at' = 1 /\ UNCHANGED pc

\* The interrupt controller, then the network timer: what works afterwards,
\* whichever call fails.  Nobody reads the status.  On Zynq and ZynqMP a failed
\* configuration of the timer is not even in the status.
timer0_init == {{}, {"timer"}}
setup_mb == {{}} \cup {{"intc"} \cup t : t \in timer0_init}
setup_zynq == {{}, {"intc"}, {"intc", "timer"}}
setup_zynqmp == {{}, {"intc"}, {"intc", "timer"}}
platform_setup_interrupts ==
  \E done \in (IF board = "mb" THEN setup_mb
                ELSE IF board = "zynq" THEN setup_zynq ELSE setup_zynqmp) :
    /\ ready' = ready \cup done
    /\ timer' = (board = "mb" /\ "timer" \in done)   \* timer0_init starts it

init_platform ==
  /\ Call("init_platform") /\ platform_setup_interrupts /\ Return
  /\ UNCHANGED <<board, dhcp, running, irq, ip, timers, link, counts>>

\* main is in a routine that configures a device; its calls, and what is left.
Configuring ==
  /\ pc = "main" /\ step <= Len(MainSteps)
  /\ MainSteps[step] \notin {"init_platform", "lwip_common_init"}
Calls == Routine(MainSteps[step])
Elsewhere == UNCHANGED <<board, dhcp, irq, timer, ip, timers, link, counts>>

\* main after a routine that reports failure: its assertion, or nothing.
Reported ==
  IF MainSteps[step] \in Asserted THEN Goto("Xil_Assert") /\ UNCHANGED <<step, at>>
  ELSE Return

\* The routine's next call does what it should.
DriverCall ==
  /\ Configuring /\ at <= Len(Calls)
  /\ at' = at + 1 /\ running' = running \cup Calls[at].starts
  /\ UNCHANGED <<pc, step, ready>> /\ Elsewhere

\* The next call fails and ends the routine.
DriverCallFails ==
  /\ Configuring /\ at <= Len(Calls) /\ Calls[at].kind = "try"
  /\ Reported /\ UNCHANGED <<running, ready>> /\ Elsewhere

\* The clock does not lock, and the routine goes on.
NoLock ==
  /\ Configuring /\ at <= Len(Calls) /\ Calls[at].kind = "lock"
  /\ at' = at + 1 /\ UNCHANGED <<pc, step, running, ready>> /\ Elsewhere

\* The routine ends: with success, or with what it left in the register.
RoutineEnds ==
  /\ Configuring /\ at > Len(Calls)
  /\ \/ ready' = ready \cup {MainSteps[step]} /\ Return
     \/ MainSteps[step] \in NoReturn /\ Reported /\ UNCHANGED ready
  /\ UNCHANGED running /\ Elsewhere

\* lwip_common_init up to the wait.  main ignores that the interface was refused.
lwip_common_init ==
  /\ Call("lwip_common_init") /\ step' = step + 1
  /\ \/ Goto("platform_enable_interrupts") /\ UNCHANGED <<ready, ip>>
     \/ /\ ready' = ready \cup {"netif"}
        /\ ip' = ~dhcp
        /\ Goto(IF dhcp THEN "dhcp_wait" ELSE "start_applications")
  /\ dhcp_timoutcntr' = IF ready' # ready /\ dhcp THEN DhcpPatience ELSE dhcp_timoutcntr
  /\ UNCHANGED <<board, dhcp, pipeline, irq, timer, TcpFastTmrFlag, TcpSlowTmrFlag,
                 odd, DetectEthLinkStatus, linkBroken, link, counts>>

\* One turn of the wait for an address, and the default address in the end.
DhcpWait ==
  /\ pc = "dhcp_wait"
  /\ LET over == ip \/ dhcp_timoutcntr = 0 \/ rxq = "address"
     IN  /\ Goto(IF over THEN "start_applications" ELSE "dhcp_wait")
         /\ ip' = over
  /\ rxq' = "none"
  /\ TcpFastTmrFlag' = 0 /\ TcpSlowTmrFlag' = 0
  /\ UNCHANGED <<board, dhcp, pipeline, step, ready, irq, timer, odd, DetectEthLinkStatus,
                 dhcp_timoutcntr, linkBroken, reset_pl, counts>>

\* A server listens afterwards, or its PCB could not be made or bound.
start_udp_update_application == {{}, {"udp_update"}}
start_tcp_update_application == {{}, {"tcp_update"}}
start_tcp_cmd_application == {{}, {"tcp_cmd"}}
start_udp_cmd_application == {{}, {"udp_cmd"}}
CommandServers == {"tcp_cmd", "udp_cmd"}
Servers == CommandServers \cup {"udp_update", "tcp_update"}

\* Nobody reads the four statuses.
start_applications ==
  /\ pc = "start_applications"
  /\ \E u \in start_udp_update_application, t \in start_tcp_update_application,
        c \in start_tcp_cmd_application, d \in start_udp_cmd_application :
       ready' = ready \cup u \cup t \cup c \cup d
  /\ Goto("platform_enable_interrupts")
  /\ UNCHANGED <<board, dhcp, pipeline, step, irq, timer, ip, timers, link, counts>>

BugNoTimerStart ==
  /\ pc = "platform_enable_interrupts"
  /\ irq' = TRUE /\ timer' = timer
  /\ Goto("tcp_fasttmr")
  /\ UNCHANGED <<board, dhcp, pipeline, step, ready, ip, timers, link, counts>>
BugEnabledEarly ==
  /\ pc \in {"platform_enable_interrupts", "main"} /\ ~irq /\ step > 1
  /\ irq' = TRUE /\ timer' = TRUE
  /\ Goto(IF pc = "main" THEN "main" ELSE "tcp_fasttmr")
  /\ UNCHANGED <<board, dhcp, pipeline, step, ready, ip, timers, link, counts>>
platform_enable_interrupts ==
  /\ pc = "platform_enable_interrupts"
  /\ irq' = TRUE /\ timer' = (timer \/ board # "mb")
  /\ Goto("tcp_fasttmr")
  /\ UNCHANGED <<board, dhcp, pipeline, step, ready, ip, timers, link, counts>>

(***************************************************************************)
(* The loop: transfer_data.                                                *)
(***************************************************************************)
tcp_fasttmr ==
  /\ pc = "tcp_fasttmr"
  /\ Goto(IF TcpFastTmrFlag = 1 THEN "fast_reset" ELSE "tcp_slowtmr")
  /\ UNCHANGED <<board, dhcp, setup, timers, link, counts>>
fast_reset ==
  /\ pc = "fast_reset" /\ TcpFastTmrFlag' = 0 /\ Goto("tcp_slowtmr")
  /\ UNCHANGED <<board, dhcp, setup, TcpSlowTmrFlag, odd, DetectEthLinkStatus,
                 dhcp_timoutcntr, linkBroken, link, counts>>
tcp_slowtmr ==
  /\ pc = "tcp_slowtmr"
  /\ Goto(IF TcpSlowTmrFlag = 1 THEN "slow_reset" ELSE "xemacif_input")
  /\ slows' = IF TcpSlowTmrFlag = 1 /\ ticks < MaxTicks THEN slows + 1 ELSE slows
  /\ UNCHANGED <<board, dhcp, setup, timers, link, ticks>>
slow_reset ==
  /\ pc = "slow_reset" /\ TcpSlowTmrFlag' = 0 /\ Goto("xemacif_input")
  /\ UNCHANGED <<board, dhcp, setup, TcpFastTmrFlag, odd, DetectEthLinkStatus,
                 dhcp_timoutcntr, linkBroken, link, counts>>

\* lwIP calls the receive function of the command server the frame is for, if it
\* listens.  The function does all a command asks for and answers it (CmdLink):
\* what stays of it here is the byte the reset command carries, zero or not.  The
\* transfers that follow in the turn are UpdateServers', or empty.
Listening == ready \cap CommandServers # {}
xemacif_input ==
  /\ pc = "xemacif_input" /\ rxq' = "none" /\ Goto("reset")
  /\ \/ UNCHANGED reset_pl
     \/ Listening /\ rxq = "reset" /\ reset_pl' \in {0, 1}
  /\ UNCHANGED <<board, dhcp, setup, timers, counts>>

Restart ==
  /\ pc' = "main" /\ step' = 1 /\ at' = 1 /\ running' = {} /\ ready' = {}
  /\ irq' = FALSE /\ timer' = FALSE
  /\ ip' = FALSE /\ TcpFastTmrFlag' = 0 /\ TcpSlowTmrFlag' = 0 /\ odd' = 1
  /\ DetectEthLinkStatus' = 0 /\ dhcp_timoutcntr' = DhcpPatience
  /\ linkBroken' = FALSE /\ rxq' = "none" /\ reset_pl' = 0
  /\ ticks' = 0 /\ slows' = 0

\* The software reset starts the program again from init_platform.
PsSoftwareReset ==
  /\ pc = "reset"
  /\ IF reset_pl = 1 THEN Restart
     ELSE Goto("tcp_fasttmr") /\ UNCHANGED <<setup, timers, link, counts>>
  /\ UNCHANGED <<board, dhcp>>

Init ==
  /\ board \in Boards /\ dhcp \in Dhcp
  /\ pc = "main" /\ step = 1 /\ at = 1 /\ running = {} /\ ready = {}
  /\ irq = FALSE /\ timer = FALSE
  /\ ip = FALSE /\ TcpFastTmrFlag = 0 /\ TcpSlowTmrFlag = 0 /\ odd = 1
  /\ DetectEthLinkStatus = 0 /\ dhcp_timoutcntr = DhcpPatience /\ linkBroken = FALSE
  /\ rxq = "none" /\ reset_pl = 0
  /\ ticks = 0 /\ slows = 0

main ==
  \/ init_platform \/ DriverCall \/ DriverCallFails \/ NoLock \/ RoutineEnds
  \/ lwip_common_init \/ DhcpWait
  \/ start_applications \/ platform_enable_interrupts
  \/ tcp_fasttmr \/ fast_reset \/ tcp_slowtmr \/ slow_reset \/ xemacif_input
  \/ PsSoftwareReset
Interrupt == timer_callback \/ emac_recv_handler
Next == main \/ Interrupt

Spec == Init /\ [][Next]_vars /\ WF_vars(main) /\ WF_vars(timer_callback)

(***************************************************************************)
(* Properties.                                                             *)
(***************************************************************************)
\* The timer's handler never works on an interface lwip_common_init has yet to
\* add: interrupts are enabled last.  A refused interface is left out, the
\* code goes on with it and the handler does use it.
HandlerFindsInterface ==
  linkBroken => step > Len(MainSteps) /\ ready \cap Servers = {}

\* tcp_slowtmr is never called more often than every second tick, whatever the
\* order of ticks, tests and resets of the flags.
SlowAtHalfRate == 2 * slows <= ticks

\* Once the loop runs with interrupts set up, lwIP's slow timer is called again
\* and again, although a tick may be lost at each reset of the flag.
TimersServed ==
  (pc \in Loop /\ "timer" \in ready) ~> (pc = "slow_reset" \/ pc = "main")

\* The CSI transmitter is activated on a prepared stream only: switch, timing,
\* pattern generator, VDMA, scaler, gamma and demosaic have been started,
\* whichever calls failed and whatever a missing return statement left.
AxisPrepared ==
  "csi" \in running =>
    {"switch", "vtc", "tpg", "vdma", "vpss", "gamma", "demosaic"} \subseteq running

\* With the timer set up, the wait for DHCP ends: with an address, or with the
\* default one when dhcp_timoutcntr has run out.
DhcpWaitEnds == (pc = "dhcp_wait" /\ "timer" \in ready) ~> pc # "dhcp_wait"

=============================================================================
