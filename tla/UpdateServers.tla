--------------------------- MODULE UpdateServers ---------------------------
(***************************************************************************)
(* Firmware update over the network: the UDP and the TCP server            *)
(* (udp_update.c, tcp_update.c), which share rxbuffer and total_bytes, the *)
(* main loop that runs them (transfer_data), and the client threads of the *)
(* GUI (udp_update.py, tcp_update.py).  Callbacks only run inside          *)
(* xemacif_input, which hands over one packet a call.                      *)
(*                                                                         *)
(* A packet is a sequence of pieces, of which UDP's have one; a piece is   *)
(* what a client sent in one call.  TCP may join pieces into one packet.   *)
(***************************************************************************)
EXTENDS Naturals, Sequences

CONSTANTS
  UdpClients, TcpClients,  \* each uploads its file once
  None,
  Chunks,        \* in how many pieces a client sends its file
  Area,          \* which area each client asks for: 0 update, 1 golden
  Joins,         \* TCP may join pieces, in both directions
  FlashMayFail,  \* qspi_update may return XST_FAILURE
  MaxFaults      \* bound: packets lost, repeated or swapped

Clients == UdpClients \cup TcpClients

ASSUME UpdateAssumption ==
  /\ None \notin Clients /\ UdpClients \cap TcpClients = {}
  /\ Chunks \in Nat \ {0} /\ Area \in [Clients -> {0, 1}]
  /\ Joins \in BOOLEAN /\ FlashMayFail \in BOOLEAN /\ MaxFaults \in Nat

Servers == {"udp", "tcp"}
ServerOf(c) == IF c \in UdpClients THEN "udp" ELSE "tcp"

VARIABLES
  rxbuffer,          \* its first total_bytes bytes, as pieces
  md5sum,            \* whose file each server holds the digest of
  start_update_flag, start_update_type, client_pcb,  \* of each server
  loop,              \* "input" or "transfer": where transfer_data is
  up, down,          \* packets to the server, messages to each client
  cpc, sent,         \* where the client's thread is, chunks it has sent
  flash,             \* what each area was last programmed with
  faults,            \* history: how many packets the network spoilt
  controlLost,       \* history: one of them was more than a piece of a file
  untold             \* history: an update ended with no message its client
                     \*   knows

server == <<rxbuffer, md5sum, start_update_flag, start_update_type,
            client_pcb, loop, flash>>
client == <<cpc, sent>>
network == <<faults, controlLost, untold>>
vars == <<server, up, down, client, network>>

Kinds == {"syn", "md5sum", "clear", "chunk", "text", "fin"}
Pieces == {p \in [kind : Kinds, of : Clients, n : Nat] :
             p.kind = "text" => p.n \in {0, 1}}
Packets == Seq(Pieces) \ {<<>>}

Piece(kind, c, n) == [kind |-> kind, of |-> c, n |-> n]
File(c) == [n \in 1 .. Chunks |-> Piece("chunk", c, n)]

Init ==
  /\ rxbuffer = <<>> /\ md5sum = [s \in Servers |-> None]
  /\ start_update_flag = [s \in Servers |-> FALSE]
  /\ start_update_type = [s \in Servers |-> 0]
  /\ client_pcb = [s \in Servers |-> None]
  /\ loop = "input"
  /\ up = [c \in Clients |-> <<>>] /\ down = [c \in Clients |-> <<>>]
  /\ cpc = [c \in Clients |-> "start"] /\ sent = [c \in Clients |-> 0]
  /\ flash = [t \in {0, 1} |-> <<>>]
  /\ faults = 0 /\ controlLost = FALSE /\ untold = FALSE

-----------------------------------------------------------------------------
(* The client threads.                                                     *)

(* The packets after piece p is sent: TCP may join it to the last one.     *)
SendTo(c, q, p) ==
  {Append(q, <<p>>)} \cup
  IF Joins /\ c \in TcpClients /\ q # <<>> /\ q[Len(q)][1].kind # "syn"
  THEN {[q EXCEPT ![Len(q)] = Append(@, p)]} ELSE {}

Send(c, p) == \E q \in SendTo(c, up[c], p) : up' = [up EXCEPT ![c] = q]

(* connect, for TCP, then the digest and "clear".                          *)
ClientStarts(c) ==
  LET hello == IF c \in TcpClients THEN << <<Piece("syn", c, 0)>> >> ELSE <<>>
  IN  /\ cpc[c] = "start"
      /\ \E q \in SendTo(c, Append(hello, <<Piece("md5sum", c, 0)>>),
                         Piece("clear", c, 0)) :
           up' = [up EXCEPT ![c] = q]
      /\ cpc' = [cpc EXCEPT ![c] = "ack"]
      /\ UNCHANGED <<server, down, sent, network>>

(* Any first message but the acknowledgement ends the thread.              *)
ClientReadsAck(c) ==
  /\ cpc[c] = "ack" /\ down[c] # <<>>
  /\ down' = [down EXCEPT ![c] = Tail(@)]
  /\ IF Head(down[c]) = "cleared"
     THEN cpc' = [cpc EXCEPT ![c] = "send"] /\ UNCHANGED up
     ELSE /\ cpc' = [cpc EXCEPT ![c] = "error"]
          /\ IF c \in TcpClients THEN Send(c, Piece("fin", c, 0))
             ELSE UNCHANGED up
  /\ UNCHANGED <<server, sent, network>>

MoreToSend(c) == sent[c] < Chunks

ClientSendsChunk(c) ==
  /\ cpc[c] = "send" /\ MoreToSend(c)
  /\ Send(c, Piece("chunk", c, sent[c] + 1))
  /\ sent' = [sent EXCEPT ![c] = @ + 1]
  /\ UNCHANGED <<server, down, cpc, network>>

(* self.text, "update" or "golden".                                        *)
ClientSendsText(c) ==
  /\ cpc[c] = "send" /\ ~MoreToSend(c)
  /\ Send(c, Piece("text", c, Area[c]))
  /\ cpc' = [cpc EXCEPT ![c] = "wait"]
  /\ UNCHANGED <<server, down, sent, network>>

(* The last loop knows three messages; it compares the third with its      *)
(* format, "0x%lx", which no message equals.  TCP may join a message to    *)
(* the next, and then it equals none.                                      *)
EndOf(m) == IF m = "success" THEN "succeeded"
            ELSE IF m = "md5 failed" THEN "failed" ELSE "wait"

ClientReadsResult(c) ==
  /\ cpc[c] = "wait" /\ down[c] # <<>>
  /\ down' = [down EXCEPT ![c] = Tail(@)]
  /\ \/ /\ cpc' = [cpc EXCEPT ![c] = EndOf(Head(down[c]))]
        /\ IF c \in TcpClients /\ cpc'[c] # "wait"
           THEN Send(c, Piece("fin", c, 0)) ELSE UNCHANGED up
     \/ Joins /\ c \in TcpClients /\ UNCHANGED <<cpc, up>>
  /\ UNCHANGED <<server, sent, network>>

ClientStep(c) ==
  \/ ClientStarts(c) \/ ClientReadsAck(c) \/ ClientSendsChunk(c)
  \/ ClientSendsText(c) \/ ClientReadsResult(c)

-----------------------------------------------------------------------------
(* The servers' callbacks.                                                 *)

(* udp_update_svr_send_msg, tcp_update_svr_send_msg: to the client the     *)
(* server holds, if any.  d is `down' so far.                              *)
Tell(d, to, m) == IF to = None THEN d ELSE [d EXCEPT ![to] = Append(@, m)]

BugNoDigest(s, bytes) == TRUE
DigestMatches(s, bytes) == md5sum[s] # None /\ bytes = File(md5sum[s])

BugTellsNobody(pcb) == down
TellFailed(pcb) == Tell(down, pcb, "md5 failed")

(* "update" (area 0) or "golden" (1): bytes are compared with the digest.  *)
Verify(s, area, bytes, pcb) ==
  IF DigestMatches(s, bytes)
  THEN /\ start_update_flag' = [start_update_flag EXCEPT ![s] = TRUE]
       /\ start_update_type' = [start_update_type EXCEPT ![s] = area]
       /\ rxbuffer' = bytes
       /\ down' = Tell(down, pcb, "md5 ok")
       /\ UNCHANGED md5sum
  ELSE /\ md5sum' = [md5sum EXCEPT ![s] = None]
       /\ rxbuffer' = <<>>
       /\ down' = TellFailed(pcb)
       /\ UNCHANGED <<start_update_flag, start_update_type>>

Clear(s, pcb) ==
  /\ start_update_flag' = [start_update_flag EXCEPT ![s] = FALSE]
  /\ rxbuffer' = <<>>
  /\ down' = Tell(down, pcb, "cleared")
  /\ UNCHANGED <<md5sum, start_update_type>>

(* The four branches both callbacks have.  The digest's looks at the start *)
(* of the packet only; the commands must be all of it; the rest is data.   *)
Branches(s, p, pcb) ==
  LET first == p[1] IN
  IF first.kind = "md5sum"
  THEN /\ md5sum' = [md5sum EXCEPT ![s] = first.of]
       /\ UNCHANGED <<rxbuffer, start_update_flag, start_update_type, down>>
  ELSE IF Len(p) = 1 /\ first.kind = "text"
  THEN Verify(s, first.n, rxbuffer, pcb)
  ELSE IF Len(p) = 1 /\ first.kind = "clear"
  THEN Clear(s, pcb)
  ELSE /\ rxbuffer' = rxbuffer \o p
       /\ UNCHANGED <<md5sum, start_update_flag, start_update_type, down>>

udp_update_recv_callback(c, p) ==
  /\ client_pcb' = [client_pcb EXCEPT !["udp"] = c]
  /\ Branches("udp", p, c)

accept_callback(c) ==
  /\ client_pcb' = [client_pcb EXCEPT !["tcp"] = c]
  /\ UNCHANGED <<rxbuffer, md5sum, start_update_flag, start_update_type, down>>

(* p is NULL: the command may be the end of the data.  The server then     *)
(* holds no client, whichever closed.                                      *)
TcpClosed ==
  /\ client_pcb' = [client_pcb EXCEPT !["tcp"] = None]
  /\ IF rxbuffer # <<>> /\ rxbuffer[Len(rxbuffer)].kind = "text"
     THEN Verify("tcp", rxbuffer[Len(rxbuffer)].n,
                 SubSeq(rxbuffer, 1, Len(rxbuffer) - 1), client_pcb["tcp"])
     ELSE UNCHANGED <<rxbuffer, md5sum, start_update_flag, start_update_type,
                      down>>

tcp_update_recv_callback(p) ==
  /\ UNCHANGED client_pcb
  /\ Branches("tcp", p, client_pcb["tcp"])

(* A FIN that comes with data is given to the callback after it: a packet  *)
(* and then NULL.  Here it waits for the next call of xemacif_input.       *)
HasFin(p) == p[Len(p)].kind = "fin"
WithoutFin(p) == IF HasFin(p) THEN SubSeq(p, 1, Len(p) - 1) ELSE p

BugTwoPackets == {"input", "transfer"}
AfterPacket == {"transfer"}

(* xemacif_input.                                                          *)
Input(c) ==
  /\ loop = "input" /\ up[c] # <<>>
  /\ loop' \in AfterPacket
  /\ LET p == Head(up[c]) IN
     /\ up' = [up EXCEPT ![c] =
          IF HasFin(p) /\ Len(p) > 1
          THEN << <<p[Len(p)]>> >> \o Tail(@) ELSE Tail(@)]
     /\ \/ c \in UdpClients /\ udp_update_recv_callback(c, p)
        \/ c \in TcpClients /\ p[1].kind = "syn" /\ accept_callback(c)
        \/ c \in TcpClients /\ p[1].kind = "fin" /\ TcpClosed
        \/ /\ c \in TcpClients /\ p[1].kind \notin {"syn", "fin"}
           /\ tcp_update_recv_callback(WithoutFin(p))
  /\ UNCHANGED <<flash, client, network>>

-----------------------------------------------------------------------------
(* transfer_udp_update_data and transfer_tcp_update_data.                  *)

(* The percents of the progress, of which one stands for all.              *)
udp_update_process_print(d) == Tell(d, client_pcb["udp"], "percent")
tcp_update_process_print(d) == Tell(d, client_pcb["tcp"], "percent")
process_print(d) == tcp_update_process_print(udp_update_process_print(d))

(* send_msg, and what qspi_update sends with it: to the clients of both    *)
(* servers, the percents before the outcome.                               *)
send_msg(d, m) == Tell(Tell(d, client_pcb["udp"], m), client_pcb["tcp"], m)
Broadcast(m) == send_msg(process_print(down), m)

(* qspi_update: it sends the success message when it has compared the last *)
(* page of the image, if that is not a whole page.  An image of whole pages*)
(* ends without it: which files those are is left open.                    *)
Program(s) ==
  /\ flash' = [flash EXCEPT ![start_update_type[s]] = rxbuffer]
  /\ \/ rxbuffer' = <<>> /\ down' = Broadcast("success") /\ UNCHANGED untold
     \/ rxbuffer' = <<>> /\ down' = process_print(down) /\ untold' = TRUE
     \/ /\ FlashMayFail
        /\ down' = Tell(Broadcast("verify error"), client_pcb[s], "qspi error")
        /\ untold' = TRUE
        /\ UNCHANGED rxbuffer
  /\ md5sum' = [md5sum EXCEPT ![s] = None]
  /\ client_pcb' =
       IF s = "udp" THEN [client_pcb EXCEPT !["udp"] = None] ELSE client_pcb
  /\ start_update_flag' = [start_update_flag EXCEPT ![s] = FALSE]
  /\ UNCHANGED start_update_type

(* UDP's runs first; at most one packet came before, so at most one flag   *)
(* is up.                                                                  *)
Transfer ==
  /\ loop = "transfer" /\ loop' = "input"
  /\ \/ \E s \in Servers :
          /\ start_update_flag[s]
          /\ s = "tcp" => ~start_update_flag["udp"]
          /\ Program(s)
     \/ /\ \A s \in Servers : ~start_update_flag[s]
        /\ UNCHANGED <<rxbuffer, md5sum, start_update_flag,
                       start_update_type, client_pcb, flash, down, untold>>
  /\ UNCHANGED <<up, client, faults, controlLost>>

-----------------------------------------------------------------------------
(* The network, for UDP.                                                   *)

Fault == faults < MaxFaults /\ faults' = faults + 1 /\ UNCHANGED untold

LosePacket(c) ==
  /\ Fault /\ up[c] # <<>>
  /\ \E i \in 1 .. Len(up[c]) :
       /\ up' = [up EXCEPT ![c] = SubSeq(@, 1, i - 1) \o SubSeq(@, i + 1, Len(@))]
       /\ controlLost' = (controlLost \/ up[c][i][1].kind \in {"clear", "text"})
  /\ UNCHANGED <<server, down, client>>

RepeatPacket(c) ==
  /\ Fault /\ up[c] # <<>>
  /\ up' = [up EXCEPT ![c] = Append(@, Head(@))]
  /\ UNCHANGED <<server, down, client, controlLost>>

SwapPackets(c) ==
  /\ Fault /\ Len(up[c]) > 1
  /\ up' = [up EXCEPT ![c] = <<@[2], @[1]>> \o SubSeq(@, 3, Len(@))]
  /\ UNCHANGED <<server, down, client, controlLost>>

LoseMessage(c) ==
  /\ Fault /\ down[c] # <<>>
  /\ down' = [down EXCEPT ![c] = Tail(@)]
  /\ controlLost' = (controlLost \/ Head(down[c]) # "percent")
  /\ UNCHANGED <<server, up, client>>

MainLoop == Transfer \/ \E c \in Clients : Input(c)

Next ==
  \/ \E c \in Clients : ClientStep(c)
  \/ MainLoop
  \/ \E c \in UdpClients :
       LosePacket(c) \/ RepeatPacket(c) \/ SwapPackets(c) \/ LoseMessage(c)

(* The main loop never stops and takes packets from every client; a thread *)
(* of the GUI goes on while it can.                                        *)
Spec ==
  /\ Init /\ [][Next]_vars
  /\ WF_vars(Transfer)
  /\ \A c \in Clients : WF_vars(Input(c)) /\ WF_vars(ClientStep(c))

-----------------------------------------------------------------------------
(* Buffers hold pieces, servers hold clients of their own protocol.        *)
TypeOK ==
  /\ rxbuffer \in Seq(Pieces) /\ up \in [Clients -> Seq(Packets)]
  /\ md5sum \in [Servers -> Clients \cup {None}]
  /\ start_update_flag \in [Servers -> BOOLEAN]
  /\ start_update_type \in [Servers -> {0, 1}]
  /\ client_pcb \in [Servers -> Clients \cup {None}]
  /\ client_pcb["udp"] \in UdpClients \cup {None}
  /\ client_pcb["tcp"] \in TcpClients \cup {None}
  /\ loop \in {"input", "transfer"}
  /\ cpc \in [Clients -> {"start", "ack", "send", "wait", "succeeded",
                          "failed", "error"}]
  /\ sent \in [Clients -> 0 .. Chunks]
  /\ flash \in [{0, 1} -> Seq(Pieces)]

(* The flash is only ever given the whole file of one client, piece by     *)
(* piece in order, although both servers append to the one buffer, and     *)
(* packets are lost, repeated and swapped.                                 *)
OnlyWholeFiles ==
  \A t \in {0, 1} : flash[t] # <<>> => \E c \in Clients : flash[t] = File(c)

(* With one client to a server, a file goes to the area its client asked   *)
(* for: neither the other server's command nor a repeated one diverts it.  *)
InAreaAsked ==
  \A t \in {0, 1}, c \in Clients : flash[t] = File(c) => Area[c] = t

(* A client whose thread saw the success message has its file in flash.    *)
SuccessIsMine ==
  \A c \in Clients : cpc[c] = "succeeded" => flash[Area[c]] = File(c)

(* A client learns how its upload ended, also when pieces of its file were *)
(* lost and when any packet was repeated or came out of order.  A lost     *)
(* command or a lost answer may leave it waiting, and so does an upload    *)
(* that reached the flash and ended without a message the client knows: an *)
(* image of whole pages is not reported at all, and a failed one with      *)
(* texts that the client does not compare.                                 *)
EndsUnlessControlLost ==
  \A c \in Clients :
    cpc[c] # "start" ~> (cpc[c] \in {"succeeded", "failed", "error"}
                         \/ controlLost \/ untold)

=============================================================================
