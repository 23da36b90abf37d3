------------------------ MODULE UpdateServersProofs ------------------------
(***************************************************************************)
(* The flash only ever gets whole files, for any clients of both servers,  *)
(* any length of the files and any behaviour of the network; in the area   *)
(* asked for, when the clients of a server agree on one; and the success a *)
(* single client is told of is its own.                                    *)
(*                                                                         *)
(* The argument is that the buffer cannot change between the digest that   *)
(* was right and qspi_update: a command raises a flag, and transfer_data   *)
(* runs both transfer functions before xemacif_input hands over the next   *)
(* packet, so no packet of either server finds a flag up.                  *)
(***************************************************************************)
EXTENDS UpdateServers, SequenceTheorems, TLAPS

NoFlagAtInput ==
  loop = "input" => \A s \in Servers : ~start_update_flag[s]

FlaggedIsWhole ==
  \A s \in Servers :
    start_update_flag[s] => \E c \in Clients : rxbuffer = File(c)

OneFlag ==
  \A s, t \in Servers : start_update_flag[s] /\ start_update_flag[t] => s = t

UpdateInv ==
  TypeOK /\ NoFlagAtInput /\ FlaggedIsWhole /\ OneFlag /\ OnlyWholeFiles

(* What a client sends stays a sequence of packets, joined or not.         *)
LEMMA SendToTyped ==
  ASSUME NEW c \in Clients, NEW q \in Seq(Packets), NEW p \in Pieces,
         NEW r \in SendTo(c, q, p)
  PROVE  r \in Seq(Packets)
<1>1. <<p>> \in Packets
  BY DEF Packets
<1>2. CASE r = Append(q, <<p>>)
  BY <1>1, <1>2, AppendProperties
<1>3. CASE q # <<>> /\ r = [q EXCEPT ![Len(q)] = Append(@, p)]
  <2>1. Len(q) \in 1 .. Len(q)
    BY <1>3, EmptySeq, LenProperties
  <2>2. q[Len(q)] \in Seq(Pieces)
    BY <2>1, ElementOfSeq DEF Packets
  <2>3. Append(q[Len(q)], p) \in Packets
    BY <2>2, AppendProperties DEF Packets
  <2>4. QED BY <1>3, <2>1, <2>3, ExceptSeq
<1>4. QED BY <1>2, <1>3 DEF SendTo

LEMMA SendTyped ==
  ASSUME TypeOK, NEW c \in Clients, NEW p \in Pieces, Send(c, p)
  PROVE  up' \in [Clients -> Seq(Packets)]
<1>1. PICK q \in SendTo(c, up[c], p) : up' = [up EXCEPT ![c] = q]
  BY DEF Send
<1>2. q \in Seq(Packets)
  BY SendToTyped DEF TypeOK
<1>3. QED BY <1>1, <1>2 DEF TypeOK

LEMMA PieceTyped ==
  ASSUME NEW k \in Kinds \ {"text"}, NEW c \in Clients, NEW n \in Nat
  PROVE  Piece(k, c, n) \in Pieces
BY DEF Piece, Pieces

LEMMA FileTyped == ASSUME NEW c \in Clients PROVE File(c) \in Seq(Pieces)
<1>1. \A n \in 1 .. Chunks : Piece("chunk", c, n) \in Pieces
  BY PieceTyped DEF Kinds
<1>2. QED BY <1>1, UpdateAssumption DEF File

-----------------------------------------------------------------------------
(* The digest is right only of a whole file, and what the branches leave   *)
(* in the buffer is then that file.                                        *)
ServerTypeOK ==
  /\ rxbuffer \in Seq(Pieces) /\ md5sum \in [Servers -> Clients \cup {None}]
  /\ start_update_flag \in [Servers -> BOOLEAN]
  /\ start_update_type \in [Servers -> {0, 1}]

NoFlag == \A s \in Servers : ~start_update_flag[s]

LEMMA VerifyKeeps ==
  ASSUME ServerTypeOK, NoFlag, NEW s \in Servers, NEW area \in {0, 1},
         NEW bytes \in Seq(Pieces), NEW pcb, Verify(s, area, bytes, pcb)
  PROVE  ServerTypeOK' /\ FlaggedIsWhole' /\ OneFlag'
<1>1. CASE DigestMatches(s, bytes)
  <2>1. /\ start_update_flag' = [start_update_flag EXCEPT ![s] = TRUE]
        /\ start_update_type' = [start_update_type EXCEPT ![s] = area]
        /\ rxbuffer' = bytes /\ md5sum' = md5sum
    BY <1>1 DEF Verify
  <2>2. ServerTypeOK'
    <3>1. start_update_flag' \in [Servers -> BOOLEAN]
      BY <2>1 DEF ServerTypeOK
    <3>2. start_update_type' \in [Servers -> {0, 1}]
      BY <2>1 DEF ServerTypeOK
    <3>3. QED BY <2>1, <3>1, <3>2 DEF ServerTypeOK
  <2>3. md5sum[s] \in Clients /\ bytes = File(md5sum[s])
    BY <1>1 DEF DigestMatches, ServerTypeOK
  <2>4. QED BY <2>1, <2>2, <2>3 DEF FlaggedIsWhole, OneFlag, ServerTypeOK, NoFlag
<1>2. CASE ~DigestMatches(s, bytes)
  <2>1. /\ md5sum' = [md5sum EXCEPT ![s] = None] /\ rxbuffer' = <<>>
        /\ start_update_flag' = start_update_flag
        /\ start_update_type' = start_update_type
    BY <1>2 DEF Verify
  <2>2. QED BY <2>1 DEF ServerTypeOK, FlaggedIsWhole, OneFlag, NoFlag
<1>3. QED BY <1>1, <1>2

LEMMA BranchesKeep ==
  ASSUME ServerTypeOK, NoFlag, NEW s \in Servers, NEW p \in Packets, NEW pcb,
         Branches(s, p, pcb)
  PROVE  ServerTypeOK' /\ FlaggedIsWhole' /\ OneFlag'
<1>1. p \in Seq(Pieces) /\ p[1] \in Pieces
  <2>1. 1 \in 1 .. Len(p)
    BY EmptySeq, LenProperties DEF Packets
  <2>2. QED BY <2>1, ElementOfSeq DEF Packets
<1>2. CASE p[1].kind = "md5sum"
  <2>1. /\ md5sum' = [md5sum EXCEPT ![s] = p[1].of]
        /\ UNCHANGED <<rxbuffer, start_update_flag, start_update_type>>
    BY <1>2 DEF Branches
  <2>2. p[1].of \in Clients
    BY <1>1 DEF Pieces
  <2>3. QED BY <2>1, <2>2 DEF ServerTypeOK, FlaggedIsWhole, OneFlag, NoFlag
<1>3. CASE p[1].kind = "text" /\ Len(p) = 1
  <2>1. Verify(s, p[1].n, rxbuffer, pcb)
    BY <1>3 DEF Branches
  <2>2. p[1].n \in {0, 1}
    BY <1>1, <1>3 DEF Pieces
  <2>3. QED BY <2>1, <2>2, VerifyKeeps DEF ServerTypeOK
<1>4. CASE p[1].kind = "clear" /\ Len(p) = 1
  <2>1. /\ start_update_flag' = [start_update_flag EXCEPT ![s] = FALSE]
        /\ rxbuffer' = <<>> /\ UNCHANGED <<md5sum, start_update_type>>
    BY <1>4 DEF Branches, Clear
  <2>2. start_update_flag' \in [Servers -> BOOLEAN]
    BY <2>1 DEF ServerTypeOK
  <2>3. \A t \in Servers : ~start_update_flag'[t]
    BY <2>1 DEF ServerTypeOK, NoFlag
  <2>4. QED BY <2>1, <2>2, <2>3 DEF ServerTypeOK, FlaggedIsWhole, OneFlag
<1>5. CASE /\ p[1].kind # "md5sum"
           /\ ~(p[1].kind = "text" /\ Len(p) = 1)
           /\ ~(p[1].kind = "clear" /\ Len(p) = 1)
  <2>1. /\ rxbuffer' = rxbuffer \o p
        /\ UNCHANGED <<md5sum, start_update_flag, start_update_type>>
    BY <1>5 DEF Branches
  <2>2. rxbuffer' \in Seq(Pieces)
    BY <1>1, <2>1, ConcatProperties DEF ServerTypeOK
  <2>3. QED BY <2>1, <2>2 DEF ServerTypeOK, FlaggedIsWhole, OneFlag, NoFlag
<1>6. QED BY <1>2, <1>3, <1>4, <1>5

-----------------------------------------------------------------------------
LEMMA UpdateInit == Init => UpdateInv
<1> SUFFICES ASSUME Init PROVE UpdateInv
  OBVIOUS
<1>1. TypeOK
  BY UpdateAssumption, EmptySeq DEF Init, TypeOK, Servers
<1>2. NoFlagAtInput /\ FlaggedIsWhole /\ OneFlag
  BY DEF Init, NoFlagAtInput, FlaggedIsWhole, OneFlag
<1>3. OnlyWholeFiles
  BY DEF Init, OnlyWholeFiles
<1>4. QED BY <1>1, <1>2, <1>3 DEF UpdateInv

(* A client's thread touches its own state and its packets only.           *)
LEMMA ClientKeeps ==
  ASSUME UpdateInv, NEW c \in Clients, ClientStep(c)
  PROVE  UpdateInv'
<1>1. TypeOK /\ UNCHANGED server
  BY DEF UpdateInv, ClientStep, ClientStarts, ClientReadsAck,
         ClientSendsChunk, ClientSendsText, ClientReadsResult
<1>2. /\ up' \in [Clients -> Seq(Packets)]
      /\ cpc' \in [Clients -> {"start", "ack", "send", "wait", "succeeded",
                               "failed", "error"}]
      /\ sent' \in [Clients -> 0 .. Chunks]
  <2>1. \A k \in {"syn", "md5sum", "clear", "chunk", "fin"}, n \in Nat :
          Piece(k, c, n) \in Pieces
    BY PieceTyped DEF Kinds
  <2>2. Piece("text", c, Area[c]) \in Pieces
    BY UpdateAssumption DEF Piece, Pieces, Kinds
  <2>3. CASE ClientStarts(c)
    <3> DEFINE hello ==
          IF c \in TcpClients THEN << <<Piece("syn", c, 0)>> >> ELSE <<>>
    <3>1. PICK q \in SendTo(c, Append(hello, <<Piece("md5sum", c, 0)>>),
                            Piece("clear", c, 0)) :
            up' = [up EXCEPT ![c] = q]
      BY <2>3 DEF ClientStarts
    <3>2. <<Piece("syn", c, 0)>> \in Packets /\ <<Piece("md5sum", c, 0)>> \in Packets
      BY <2>1 DEF Packets
    <3>3. hello \in Seq(Packets)
      BY <3>2, EmptySeq
    <3>4. Append(hello, <<Piece("md5sum", c, 0)>>) \in Seq(Packets)
      BY <3>2, <3>3, AppendProperties
    <3>5. q \in Seq(Packets)
      <4> HIDE DEF hello
      <4> QED BY <2>1, <3>1, <3>4, SendToTyped
    <3>6. up' \in [Clients -> Seq(Packets)]
      BY <1>1, <3>1, <3>5 DEF TypeOK
    <3>7. QED BY <1>1, <2>3, <3>6 DEF ClientStarts, TypeOK
  <2>4. CASE ClientReadsAck(c)
    <3>1. up' \in [Clients -> Seq(Packets)]
      BY <1>1, <2>1, <2>4, SendTyped DEF ClientReadsAck, TypeOK
    <3>2. QED BY <1>1, <2>4, <3>1 DEF ClientReadsAck, TypeOK
  <2>5. CASE ClientSendsChunk(c)
    <3>1. sent[c] + 1 \in 0 .. Chunks
      BY <1>1, <2>5, UpdateAssumption DEF ClientSendsChunk, MoreToSend, TypeOK
    <3>2. up' \in [Clients -> Seq(Packets)]
      BY <1>1, <2>1, <2>5, <3>1, SendTyped DEF ClientSendsChunk
    <3>3. QED BY <1>1, <2>5, <3>1, <3>2 DEF ClientSendsChunk, TypeOK
  <2>6. CASE ClientSendsText(c)
    <3>1. up' \in [Clients -> Seq(Packets)]
      BY <1>1, <2>2, <2>6, SendTyped DEF ClientSendsText
    <3>2. QED BY <1>1, <2>6, <3>1 DEF ClientSendsText, TypeOK
  <2>7. CASE ClientReadsResult(c)
    <3>1. up' \in [Clients -> Seq(Packets)]
      BY <1>1, <2>1, <2>7, SendTyped DEF ClientReadsResult, TypeOK
    <3>2. cpc' = cpc \/ cpc' = [cpc EXCEPT ![c] = EndOf(Head(down[c]))]
      BY <2>7 DEF ClientReadsResult
    <3>3. EndOf(Head(down[c])) \in {"succeeded", "failed", "wait"}
      BY DEF EndOf
    <3>4. QED BY <1>1, <2>7, <3>1, <3>2, <3>3 DEF ClientReadsResult, TypeOK
  <2>8. QED BY <2>3, <2>4, <2>5, <2>6, <2>7 DEF ClientStep
<1>3. TypeOK'
  BY <1>1, <1>2 DEF TypeOK, server
<1>4. QED BY <1>1, <1>3 DEF UpdateInv, server, NoFlagAtInput, FlaggedIsWhole,
                           OneFlag, OnlyWholeFiles

-----------------------------------------------------------------------------
(* A packet finds no flag up; it may raise one, and then the file is whole. *)
LEMMA WithoutFinTyped ==
  ASSUME NEW p \in Packets, p[1].kind # "fin"
  PROVE  WithoutFin(p) \in Packets
<1>1. p \in Seq(Pieces) /\ p # <<>> /\ Len(p) \in Nat \ {0}
  BY EmptySeq, LenProperties DEF Packets
<1>2. CASE HasFin(p)
  <2>1. Len(p) - 1 \in 1 .. Len(p)
    BY <1>1, <1>2 DEF HasFin
  <2>2. /\ SubSeq(p, 1, Len(p) - 1) \in Seq(Pieces)
        /\ Len(SubSeq(p, 1, Len(p) - 1)) = Len(p) - 1
    BY <1>1, <2>1, SubSeqProperties
  <2>3. SubSeq(p, 1, Len(p) - 1) # <<>>
    <3>1. Len(SubSeq(p, 1, Len(p) - 1)) # 0
      BY <1>1, <2>1, <2>2
    <3>2. Len(<<>>) = 0
      BY EmptySeq
    <3>3. QED BY <3>1, <3>2, Zenon
  <2>4. SubSeq(p, 1, Len(p) - 1) \in Packets
    BY <2>2, <2>3 DEF Packets
  <2>5. QED BY <1>2, <2>4 DEF WithoutFin
<1>3. CASE ~HasFin(p)
  BY <1>3 DEF WithoutFin
<1>4. QED BY <1>2, <1>3

LEMMA ClosedKeeps ==
  ASSUME ServerTypeOK, NoFlag, TcpClosed
  PROVE  ServerTypeOK' /\ FlaggedIsWhole' /\ OneFlag'
<1>1. CASE rxbuffer # <<>> /\ rxbuffer[Len(rxbuffer)].kind = "text"
  <2>1. Len(rxbuffer) \in 1 .. Len(rxbuffer)
    BY <1>1, EmptySeq, LenProperties DEF ServerTypeOK
  <2>2. rxbuffer[Len(rxbuffer)].n \in {0, 1}
    BY <1>1, <2>1, ElementOfSeq DEF ServerTypeOK, Pieces
  <2>3. SubSeq(rxbuffer, 1, Len(rxbuffer) - 1) \in Seq(Pieces)
    BY <2>1, SubSeqProperties DEF ServerTypeOK
  <2>4. Verify("tcp", rxbuffer[Len(rxbuffer)].n,
               SubSeq(rxbuffer, 1, Len(rxbuffer) - 1), client_pcb["tcp"])
    BY <1>1 DEF TcpClosed
  <2>5. "tcp" \in Servers
    BY DEF Servers
  <2>6. QED BY <2>2, <2>3, <2>4, <2>5, VerifyKeeps
<1>2. CASE ~(rxbuffer # <<>> /\ rxbuffer[Len(rxbuffer)].kind = "text")
  BY <1>2 DEF TcpClosed, ServerTypeOK, FlaggedIsWhole, OneFlag, NoFlag
<1>3. QED BY <1>1, <1>2

LEMMA InputKeeps ==
  ASSUME UpdateInv, NEW c \in Clients, Input(c)
  PROVE  UpdateInv'
<1> DEFINE p == Head(up[c])
<1>1. TypeOK /\ ServerTypeOK /\ NoFlag /\ OnlyWholeFiles
  BY DEF UpdateInv, TypeOK, ServerTypeOK, NoFlagAtInput, NoFlag, Input
<1>2. up[c] \in Seq(Packets) /\ up[c] # <<>>
  BY <1>1 DEF TypeOK, Input
<1>3. p \in Packets /\ Tail(up[c]) \in Seq(Packets)
  BY <1>2, HeadTailProperties
<1>4. up' \in [Clients -> Seq(Packets)]
  <2>1. Len(p) \in 1 .. Len(p)
    BY <1>3, EmptySeq, LenProperties DEF Packets
  <2>2. << <<p[Len(p)]>> >> \in Seq(Packets)
    <3>1. p[Len(p)] \in Pieces
      BY <1>3, <2>1, ElementOfSeq DEF Packets
    <3>2. <<p[Len(p)]>> \in Packets
      BY <3>1 DEF Packets
    <3>3. QED BY <3>2
  <2>3. << <<p[Len(p)]>> >> \o Tail(up[c]) \in Seq(Packets)
    BY <1>3, <2>2, ConcatProperties
  <2>4. \E q \in Seq(Packets) : up' = [up EXCEPT ![c] = q]
    BY <1>3, <2>3 DEF Input
  <2>5. QED BY <1>1, <2>4 DEF TypeOK
<1>5. /\ ServerTypeOK' /\ FlaggedIsWhole' /\ OneFlag'
      /\ \/ client_pcb' = client_pcb
         \/ c \in UdpClients /\ client_pcb' = [client_pcb EXCEPT !["udp"] = c]
         \/ c \in TcpClients /\ client_pcb' = [client_pcb EXCEPT !["tcp"] = c]
         \/ client_pcb' = [client_pcb EXCEPT !["tcp"] = None]
  <2>1. CASE c \in UdpClients /\ udp_update_recv_callback(c, p)
    BY <1>1, <1>3, <2>1, BranchesKeep DEF udp_update_recv_callback, Servers
  <2>2. CASE c \in TcpClients /\ accept_callback(c)
    BY <1>1, <2>2 DEF accept_callback, ServerTypeOK, FlaggedIsWhole, OneFlag,
                      NoFlag
  <2>3. CASE TcpClosed
    BY <1>1, <2>3, ClosedKeeps DEF TcpClosed
  <2>4. CASE /\ p[1].kind \notin {"syn", "fin"}
             /\ tcp_update_recv_callback(WithoutFin(p))
    <3>1. WithoutFin(p) \in Packets
      BY <1>3, <2>4, WithoutFinTyped
    <3>2. QED BY <1>1, <2>4, <3>1, BranchesKeep
              DEF tcp_update_recv_callback, Servers
  <2>5. QED BY <2>1, <2>2, <2>3, <2>4 DEF Input
<1>6. /\ client_pcb' \in [Servers -> Clients \cup {None}]
      /\ client_pcb'["udp"] \in UdpClients \cup {None}
      /\ client_pcb'["tcp"] \in TcpClients \cup {None}
  BY <1>1, <1>5 DEF TypeOK, Servers
<1>7. loop' = "transfer" /\ UNCHANGED <<flash, cpc, sent>>
  BY DEF Input, AfterPacket, client
<1>8. TypeOK'
  BY <1>1, <1>4, <1>5, <1>6, <1>7 DEF TypeOK, ServerTypeOK
<1>9. NoFlagAtInput' /\ OnlyWholeFiles'
  BY <1>1, <1>7 DEF NoFlagAtInput, OnlyWholeFiles
<1>10. QED BY <1>5, <1>8, <1>9 DEF UpdateInv

(* qspi_update programs what the digest was right of, and no flag stays.   *)
LEMMA TransferKeeps ==
  ASSUME UpdateInv, Transfer
  PROVE  UpdateInv'
<1>1. TypeOK /\ loop' = "input" /\ UNCHANGED <<up, cpc, sent>>
  BY DEF UpdateInv, Transfer, client
<1>2. CASE \A s \in Servers : ~start_update_flag[s]
  <2>1. UNCHANGED <<rxbuffer, md5sum, start_update_flag, start_update_type,
                    client_pcb, flash>>
    BY <1>2 DEF Transfer
  <2>2. TypeOK'
    BY <1>1, <2>1 DEF TypeOK
  <2>3. QED BY <1>2, <2>1, <2>2 DEF UpdateInv, NoFlagAtInput, FlaggedIsWhole,
                                    OneFlag, OnlyWholeFiles
<1>3. ASSUME NEW s \in Servers, start_update_flag[s], Program(s)
      PROVE  UpdateInv'
  <2>1. /\ flash' = [flash EXCEPT ![start_update_type[s]] = rxbuffer]
        /\ rxbuffer' \in {<<>>, rxbuffer}
        /\ md5sum' = [md5sum EXCEPT ![s] = None]
        /\ client_pcb' \in {client_pcb, [client_pcb EXCEPT !["udp"] = None]}
        /\ start_update_flag' = [start_update_flag EXCEPT ![s] = FALSE]
        /\ start_update_type' = start_update_type
    BY <1>3 DEF Program
  <2>2. \A t \in Servers : ~start_update_flag'[t]
    BY <1>1, <1>3, <2>1 DEF UpdateInv, OneFlag, TypeOK
  <2>3. start_update_flag' \in [Servers -> BOOLEAN]
    BY <1>1, <2>1 DEF TypeOK
  <2>4. md5sum' \in [Servers -> Clients \cup {None}]
    BY <1>1, <2>1 DEF TypeOK
  <2>5. /\ client_pcb' \in [Servers -> Clients \cup {None}]
        /\ client_pcb'["udp"] \in UdpClients \cup {None}
        /\ client_pcb'["tcp"] \in TcpClients \cup {None}
    BY <1>1, <2>1 DEF TypeOK, Servers
  <2>6. flash' \in [{0, 1} -> Seq(Pieces)] /\ rxbuffer' \in Seq(Pieces)
    <3>1. rxbuffer' \in Seq(Pieces)
      <4>1. rxbuffer' = <<>> \/ rxbuffer' = rxbuffer
        BY <2>1
      <4>2. <<>> \in Seq(Pieces) /\ rxbuffer \in Seq(Pieces)
        BY <1>1, EmptySeq DEF TypeOK
      <4>3. QED BY <4>1, <4>2, Zenon
    <3>2. rxbuffer \in Seq(Pieces) /\ flash \in [{0, 1} -> Seq(Pieces)]
      BY <1>1 DEF TypeOK
    <3>3. flash' \in [{0, 1} -> Seq(Pieces)]
      BY <2>1, <3>2
    <3>4. QED BY <3>1, <3>3
  <2>7. TypeOK'
    BY <1>1, <2>1, <2>3, <2>4, <2>5, <2>6 DEF TypeOK
  <2>8. OnlyWholeFiles'
    <3>1. \E c \in Clients : rxbuffer = File(c)
      BY <1>3 DEF UpdateInv, FlaggedIsWhole
    <3>2. SUFFICES ASSUME NEW t \in {0, 1}, flash'[t] # <<>>
                   PROVE  \E c \in Clients : flash'[t] = File(c)
      BY DEF OnlyWholeFiles
    <3>3. CASE t = start_update_type[s]
      BY <1>1, <2>1, <3>1, <3>3 DEF TypeOK
    <3>4. CASE t # start_update_type[s]
      BY <1>1, <2>1, <3>2, <3>4 DEF TypeOK, UpdateInv, OnlyWholeFiles
    <3>5. QED BY <3>3, <3>4
  <2>9. QED BY <2>2, <2>7, <2>8 DEF UpdateInv, NoFlagAtInput, FlaggedIsWhole,
                                    OneFlag
<1>4. QED BY <1>2, <1>3 DEF Transfer

(* Lost, repeated and swapped packets are packets still.                   *)
LEMMA NetworkKeeps ==
  ASSUME UpdateInv, NEW c \in UdpClients,
         LosePacket(c) \/ RepeatPacket(c) \/ SwapPackets(c) \/ LoseMessage(c)
  PROVE  UpdateInv'
<1>1. TypeOK /\ UNCHANGED <<server, cpc, sent>>
  BY DEF UpdateInv, LosePacket, RepeatPacket, SwapPackets, LoseMessage, client
<1>2. up[c] \in Seq(Packets) /\ Len(up[c]) \in Nat
  BY <1>1, LenProperties DEF TypeOK, Clients
<1>3. \E q \in Seq(Packets) : up' = [up EXCEPT ![c] = q]
  <2>1. CASE LosePacket(c)
    <3>1. PICK i \in 1 .. Len(up[c]) :
            up' = [up EXCEPT ![c] =
                     SubSeq(@, 1, i - 1) \o SubSeq(@, i + 1, Len(@))]
      BY <2>1 DEF LosePacket
    <3>2. SubSeq(up[c], 1, i - 1) \in Seq(Packets)
      BY <1>2, SubSeqProperties
    <3>3. SubSeq(up[c], i + 1, Len(up[c])) \in Seq(Packets)
      BY <1>2, SubSeqProperties
    <3>4. QED BY <3>1, <3>2, <3>3, ConcatProperties
  <2>2. CASE RepeatPacket(c)
    <3>1. Head(up[c]) \in Packets
      BY <1>2, <2>2, HeadTailProperties DEF RepeatPacket
    <3>2. Append(up[c], Head(up[c])) \in Seq(Packets)
      BY <1>2, <3>1, AppendProperties
    <3>3. QED BY <2>2, <3>2 DEF RepeatPacket
  <2>3. CASE SwapPackets(c)
    <3>1. up[c][1] \in Packets /\ up[c][2] \in Packets
      BY <1>2, <2>3, ElementOfSeq DEF SwapPackets
    <3>2. <<up[c][2], up[c][1]>> \in Seq(Packets)
      BY <3>1
    <3>3. SubSeq(up[c], 3, Len(up[c])) \in Seq(Packets)
      BY <1>2, <2>3, SubSeqProperties DEF SwapPackets
    <3>4. QED BY <2>3, <3>2, <3>3, ConcatProperties DEF SwapPackets
  <2>4. CASE LoseMessage(c)
    BY <1>1, <1>2, <2>4 DEF LoseMessage, TypeOK, Clients
  <2>5. QED BY <2>1, <2>2, <2>3, <2>4
<1>4. up' \in [Clients -> Seq(Packets)]
  BY <1>1, <1>3 DEF TypeOK, Clients
<1>5. TypeOK'
  BY <1>1, <1>4 DEF TypeOK, server
<1>6. QED BY <1>1, <1>5 DEF UpdateInv, server, NoFlagAtInput, FlaggedIsWhole,
                           OneFlag, OnlyWholeFiles

LEMMA UpdateStep == UpdateInv /\ [Next]_vars => UpdateInv'
<1> SUFFICES ASSUME UpdateInv, [Next]_vars PROVE UpdateInv'
  OBVIOUS
<1>1. CASE UNCHANGED vars
  BY <1>1 DEF UpdateInv, vars, server, client, TypeOK, NoFlagAtInput,
              FlaggedIsWhole, OneFlag, OnlyWholeFiles
<1>2. CASE Next
  BY <1>2, ClientKeeps, InputKeeps, TransferKeeps, NetworkKeeps
  DEF Next, MainLoop
<1>3. QED BY <1>1, <1>2

(* Buffers, servers and threads keep their types: the server of each       *)
(* protocol only ever answers a client of its own.                         *)
THEOREM UpdateTypeCorrect == Spec => []TypeOK
<1>1. UpdateInv => TypeOK
  BY DEF UpdateInv
<1>2. QED BY <1>1, UpdateInit, UpdateStep, PTL DEF Spec

(* Whatever the clients of both servers send into the one buffer, and      *)
(* whatever the network loses, repeats or swaps, qspi_update is only ever  *)
(* given the whole file of one client.                                     *)
THEOREM FlashHoldsWholeFiles == Spec => []OnlyWholeFiles
<1>1. UpdateInv => OnlyWholeFiles
  BY DEF UpdateInv
<1>2. QED BY <1>1, UpdateInit, UpdateStep, PTL DEF Spec

-----------------------------------------------------------------------------
(* Where a file goes.  When the clients of one server all ask for the same *)
(* area, as a single one does, no command can divert a file: the packets a *)
(* server gets are of its own clients, one command a packet in UDP, and a  *)
(* command that ends the data can only have come by TCP.                   *)
OneAreaPerServer ==
  \A c, d \in Clients : ServerOf(c) = ServerOf(d) => Area[c] = Area[d]

PiecesOf(c) == {p \in Pieces : p.of = c /\ (p.kind = "text" => p.n = Area[c])}
PacketsOf(c) ==
  {p \in Packets : p \in Seq(PiecesOf(c)) /\ (c \in UdpClients => Len(p) = 1)}

(* Data: a command in it was joined to a packet of TCP.                    *)
DataPieces ==
  {p \in Pieces : p.kind = "text" => p.of \in TcpClients /\ p.n = Area[p.of]}

OwnPackets == \A c \in Clients : up[c] \in Seq(PacketsOf(c))
OwnData == rxbuffer \in Seq(DataPieces)
OwnDigests == \A s \in Servers : md5sum[s] # None => ServerOf(md5sum[s]) = s

FlaggedAsAsked ==
  \A s \in Servers : start_update_flag[s] =>
    \E c \in Clients : /\ rxbuffer = File(c) /\ ServerOf(c) = s
                       /\ start_update_type[s] = Area[c]

AreaInv == OwnPackets /\ OwnData /\ OwnDigests /\ FlaggedAsAsked /\ InAreaAsked

(* What a client is told.  A success message is under way, or read, only   *)
(* when the file of the one client there is has been programmed where it   *)
(* asked.                                                                  *)
OneClient == \A c, d \in Clients : c = d

Messages == {"cleared", "md5 ok", "md5 failed", "percent", "success",
             "verify error", "qspi error"}

Installed(c) == flash[Area[c]] = File(c)
MayBeTold(c) == IF Installed(c) THEN Messages ELSE Messages \ {"success"}

ToldTheTruth ==
  /\ down \in [Clients -> Seq(Messages)]
  /\ \A c \in Clients : down[c] \in Seq(MayBeTold(c))

TruthInv == ToldTheTruth /\ SuccessIsMine

(* A sequence over one set is one over another that has its elements.      *)
LEMMA SeqOver ==
  ASSUME NEW S, NEW T, NEW q \in Seq(S), \A i \in 1 .. Len(q) : q[i] \in T
  PROVE  q \in Seq(T)
BY LenProperties

LEMMA PacketOfNotEmpty ==
  ASSUME NEW c \in Clients, NEW p \in PacketsOf(c)
  PROVE  /\ p \in Packets /\ p \in Seq(PiecesOf(c)) /\ Len(p) \in Nat \ {0}
         /\ p[1] \in PiecesOf(c) /\ p[Len(p)] \in PiecesOf(c)
<1>1. p \in Packets /\ p \in Seq(PiecesOf(c)) /\ p # <<>>
  BY DEF PacketsOf, Packets
<1>2. Len(p) \in Nat \ {0}
  BY <1>1, EmptySeq, LenProperties
<1>3. QED BY <1>1, <1>2, ElementOfSeq

LEMMA SinglePacket ==
  ASSUME NEW c \in Clients, NEW p \in PiecesOf(c)
  PROVE  <<p>> \in PacketsOf(c)
<1>1. p \in Pieces
  BY DEF PiecesOf
<1>2. <<p>> \in Seq(Pieces) /\ <<p>> \in Seq(PiecesOf(c)) /\ Len(<<p>>) = 1
      /\ <<p>> # <<>>
  BY <1>1
<1>3. QED BY <1>2 DEF PacketsOf, Packets

LEMMA OwnPieces ==
  ASSUME NEW c \in Clients
  PROVE  /\ \A k \in Kinds \ {"text"}, n \in Nat : Piece(k, c, n) \in PiecesOf(c)
         /\ Piece("text", c, Area[c]) \in PiecesOf(c)
BY UpdateAssumption DEF PiecesOf, Pieces, Piece, Kinds

LEMMA SendToOwn ==
  ASSUME NEW c \in Clients, NEW q \in Seq(PacketsOf(c)), NEW p \in PiecesOf(c),
         NEW r \in SendTo(c, q, p)
  PROVE  r \in Seq(PacketsOf(c))
<1>1. CASE r = Append(q, <<p>>)
  BY <1>1, SinglePacket, AppendProperties
<1>2. CASE c \in TcpClients /\ q # <<>> /\ r = [q EXCEPT ![Len(q)] = Append(@, p)]
  <2>1. Len(q) \in 1 .. Len(q)
    BY <1>2, EmptySeq, LenProperties
  <2>2. q[Len(q)] \in PacketsOf(c)
    BY <2>1, ElementOfSeq
  <2>3. q[Len(q)] \in Seq(PiecesOf(c)) /\ q[Len(q)] \in Seq(Pieces)
    BY <2>2 DEF PacketsOf, Packets
  <2>4. /\ Append(q[Len(q)], p) \in Seq(PiecesOf(c))
        /\ Append(q[Len(q)], p) \in Seq(Pieces)
        /\ Append(q[Len(q)], p) # <<>>
    BY <2>3, AppendProperties DEF PiecesOf
  <2>5. c \notin UdpClients
    BY <1>2, UpdateAssumption
  <2>6. Append(q[Len(q)], p) \in PacketsOf(c)
    BY <2>4, <2>5 DEF PacketsOf, Packets
  <2>7. QED BY <1>2, <2>1, <2>6, ExceptSeq
<1>3. QED BY <1>1, <1>2 DEF SendTo

LEMMA SendOwn ==
  ASSUME OwnPackets, NEW c \in Clients, NEW p \in PiecesOf(c), Send(c, p)
  PROVE  \E q \in Seq(PacketsOf(c)) : up' = [up EXCEPT ![c] = q]
<1>1. PICK q \in SendTo(c, up[c], p) : up' = [up EXCEPT ![c] = q]
  BY DEF Send
<1>2. q \in Seq(PacketsOf(c))
  BY SendToOwn DEF OwnPackets
<1>3. QED BY <1>1, <1>2

(* Whose packets have changed, if any, and what the servers have kept.     *)
LEMMA AreaKept ==
  ASSUME AreaInv, TypeOK, NEW c \in Clients,
         up' = up \/ (\E q \in Seq(PacketsOf(c)) : up' = [up EXCEPT ![c] = q]),
         UNCHANGED server
  PROVE  AreaInv'
<1>1. OwnPackets'
  BY DEF AreaInv, OwnPackets, TypeOK
<1>2. QED BY <1>1 DEF AreaInv, OwnData, OwnDigests, FlaggedAsAsked, InAreaAsked,
                      server

LEMMA ClientKeepsArea ==
  ASSUME UpdateInv, AreaInv, NEW c \in Clients, ClientStep(c)
  PROVE  AreaInv'
<1>1. TypeOK /\ OwnPackets /\ UNCHANGED server
  BY DEF UpdateInv, AreaInv, ClientStep, ClientStarts, ClientReadsAck,
         ClientSendsChunk, ClientSendsText, ClientReadsResult
<1>2. /\ \A k \in {"syn", "md5sum", "clear", "chunk", "fin"}, n \in Nat :
           Piece(k, c, n) \in PiecesOf(c)
      /\ Piece("text", c, Area[c]) \in PiecesOf(c)
  BY OwnPieces DEF Kinds
<1>3. up' = up \/ \E q \in Seq(PacketsOf(c)) : up' = [up EXCEPT ![c] = q]
  <2>1. CASE ClientStarts(c)
    <3> DEFINE hello ==
          IF c \in TcpClients THEN << <<Piece("syn", c, 0)>> >> ELSE <<>>
    <3>1. PICK q \in SendTo(c, Append(hello, <<Piece("md5sum", c, 0)>>),
                            Piece("clear", c, 0)) :
            up' = [up EXCEPT ![c] = q]
      BY <2>1 DEF ClientStarts
    <3>2. /\ <<Piece("syn", c, 0)>> \in PacketsOf(c)
          /\ <<Piece("md5sum", c, 0)>> \in PacketsOf(c)
      BY <1>2, SinglePacket
    <3>3. hello \in Seq(PacketsOf(c))
      BY <3>2, EmptySeq
    <3>4. Append(hello, <<Piece("md5sum", c, 0)>>) \in Seq(PacketsOf(c))
      BY <3>2, <3>3, AppendProperties
    <3>5. q \in Seq(PacketsOf(c))
      <4> HIDE DEF hello
      <4> QED BY <1>2, <3>1, <3>4, SendToOwn
    <3>6. QED BY <3>1, <3>5
  <2>2. CASE ClientReadsAck(c) \/ ClientReadsResult(c)
    <3>1. up' = up \/ Send(c, Piece("fin", c, 0))
      BY <2>2 DEF ClientReadsAck, ClientReadsResult
    <3>2. QED BY <1>1, <1>2, <3>1, SendOwn
  <2>3. CASE ClientSendsChunk(c)
    <3>1. Send(c, Piece("chunk", c, sent[c] + 1)) /\ sent[c] + 1 \in Nat
      BY <1>1, <2>3 DEF ClientSendsChunk, TypeOK
    <3>2. QED BY <1>1, <1>2, <3>1, SendOwn
  <2>4. CASE ClientSendsText(c)
    BY <1>1, <1>2, <2>4, SendOwn DEF ClientSendsText
  <2>5. QED BY <2>1, <2>2, <2>3, <2>4 DEF ClientStep
<1>4. QED BY <1>1, <1>3, AreaKept

LEMMA NetworkKeepsArea ==
  ASSUME UpdateInv, AreaInv, NEW c \in UdpClients,
         LosePacket(c) \/ RepeatPacket(c) \/ SwapPackets(c) \/ LoseMessage(c)
  PROVE  AreaInv'
<1>1. TypeOK /\ UNCHANGED server
  BY DEF UpdateInv, LosePacket, RepeatPacket, SwapPackets, LoseMessage
<1>2. up[c] \in Seq(PacketsOf(c)) /\ Len(up[c]) \in Nat
  BY LenProperties DEF AreaInv, OwnPackets, Clients
<1>3. up' = up \/ \E q \in Seq(PacketsOf(c)) : up' = [up EXCEPT ![c] = q]
  <2>1. CASE LosePacket(c)
    <3>1. PICK i \in 1 .. Len(up[c]) :
            up' = [up EXCEPT ![c] =
                     SubSeq(@, 1, i - 1) \o SubSeq(@, i + 1, Len(@))]
      BY <2>1 DEF LosePacket
    <3>2. /\ SubSeq(up[c], 1, i - 1) \in Seq(PacketsOf(c))
          /\ SubSeq(up[c], i + 1, Len(up[c])) \in Seq(PacketsOf(c))
      BY <1>2, SubSeqProperties
    <3>3. QED BY <3>1, <3>2, ConcatProperties
  <2>2. CASE RepeatPacket(c)
    <3>1. Head(up[c]) \in PacketsOf(c)
      BY <1>2, <2>2, HeadTailProperties DEF RepeatPacket
    <3>2. Append(up[c], Head(up[c])) \in Seq(PacketsOf(c))
      BY <1>2, <3>1, AppendProperties
    <3>3. QED BY <2>2, <3>2 DEF RepeatPacket
  <2>3. CASE SwapPackets(c)
    <3>1. up[c][1] \in PacketsOf(c) /\ up[c][2] \in PacketsOf(c)
      BY <1>2, <2>3, ElementOfSeq DEF SwapPackets
    <3>2. <<up[c][2], up[c][1]>> \in Seq(PacketsOf(c))
      BY <3>1
    <3>3. SubSeq(up[c], 3, Len(up[c])) \in Seq(PacketsOf(c))
      BY <1>2, <2>3, SubSeqProperties DEF SwapPackets
    <3>4. QED BY <2>3, <3>2, <3>3, ConcatProperties DEF SwapPackets
  <2>4. CASE LoseMessage(c)
    BY <2>4 DEF LoseMessage
  <2>5. QED BY <2>1, <2>2, <2>3, <2>4
<1>4. QED BY <1>1, <1>3, AreaKept DEF Clients

(* A file has one owner, and is not the empty buffer.                      *)
LEMMA OneOwner ==
  ASSUME NEW c \in Clients
  PROVE  /\ File(c) # <<>>
         /\ \A d \in Clients : File(d) = File(c) => d = c
<1>1. 1 \in 1 .. Chunks
  BY UpdateAssumption
<1>2. \A d \in Clients : File(d)[1].of = d
  BY <1>1 DEF File, Piece
<1>3. File(c) # <<>>
  <2>1. DOMAIN File(c) = 1 .. Chunks
    BY DEF File
  <2>2. Len(File(c)) = Chunks
    BY <2>1, FileTyped, LenProperties, UpdateAssumption
  <2>3. QED BY <2>2, EmptySeq, UpdateAssumption
<1>4. QED BY <1>2, <1>3

(* The part of the state that the callbacks look after.                    *)
OwnState == OwnData /\ OwnDigests /\ FlaggedAsAsked

LEMMA VerifyKeepsArea ==
  ASSUME ServerTypeOK, NoFlag, OwnState, OneAreaPerServer,
         NEW c \in Clients, NEW s \in Servers, ServerOf(c) = s,
         NEW bytes \in Seq(DataPieces), NEW pcb, Verify(s, Area[c], bytes, pcb)
  PROVE  OwnState'
<1>1. CASE DigestMatches(s, bytes)
  <2>1. /\ start_update_flag' = [start_update_flag EXCEPT ![s] = TRUE]
        /\ start_update_type' = [start_update_type EXCEPT ![s] = Area[c]]
        /\ rxbuffer' = bytes /\ md5sum' = md5sum
    BY <1>1 DEF Verify
  <2>2. md5sum[s] \in Clients /\ bytes = File(md5sum[s])
    BY <1>1 DEF DigestMatches, ServerTypeOK
  <2>3. ServerOf(md5sum[s]) = s
    BY <2>2, UpdateAssumption DEF OwnState, OwnDigests
  <2>4. Area[md5sum[s]] = Area[c]
    BY <2>2, <2>3 DEF OneAreaPerServer
  <2>5. \A t \in Servers : start_update_flag'[t] => t = s
    BY <2>1 DEF ServerTypeOK, NoFlag
  <2>6. start_update_type'[s] = Area[c]
    BY <2>1 DEF ServerTypeOK
  <2>7. FlaggedAsAsked'
    BY <2>1, <2>2, <2>3, <2>4, <2>5, <2>6 DEF FlaggedAsAsked
  <2>8. QED BY <2>1, <2>7 DEF OwnState, OwnData, OwnDigests
<1>2. CASE ~DigestMatches(s, bytes)
  <2>1. /\ md5sum' = [md5sum EXCEPT ![s] = None] /\ rxbuffer' = <<>>
        /\ start_update_flag' = start_update_flag
    BY <1>2 DEF Verify
  <2>2. OwnDigests'
    BY <2>1 DEF OwnState, OwnDigests, ServerTypeOK
  <2>3. OwnData' /\ FlaggedAsAsked'
    BY <2>1, EmptySeq DEF OwnData, FlaggedAsAsked, NoFlag
  <2>4. QED BY <2>2, <2>3 DEF OwnState
<1>3. QED BY <1>1, <1>2

LEMMA BranchesKeepArea ==
  ASSUME ServerTypeOK, NoFlag, OwnState, OneAreaPerServer,
         NEW c \in Clients, NEW s \in Servers, ServerOf(c) = s,
         NEW p \in Seq(PiecesOf(c)), Len(p) \in Nat \ {0},
         c \in UdpClients => Len(p) = 1,
         NEW pcb, Branches(s, p, pcb)
  PROVE  OwnState'
<1>1. p[1] \in PiecesOf(c)
  BY ElementOfSeq
<1>2. CASE p[1].kind = "md5sum"
  <2>1. /\ md5sum' = [md5sum EXCEPT ![s] = p[1].of]
        /\ UNCHANGED <<rxbuffer, start_update_flag, start_update_type>>
    BY <1>2 DEF Branches
  <2>2. p[1].of = c
    BY <1>1 DEF PiecesOf
  <2>3. OwnDigests'
    BY <2>1, <2>2 DEF OwnState, OwnDigests, ServerTypeOK
  <2>4. QED BY <2>1, <2>3 DEF OwnState, OwnData, FlaggedAsAsked
<1>3. CASE p[1].kind = "text" /\ Len(p) = 1
  <2>1. Verify(s, p[1].n, rxbuffer, pcb)
    BY <1>3 DEF Branches
  <2>2. p[1].n = Area[c]
    BY <1>1, <1>3 DEF PiecesOf
  <2>3. QED BY <2>1, <2>2, VerifyKeepsArea DEF OwnState, OwnData
<1>4. CASE p[1].kind = "clear" /\ Len(p) = 1
  <2>1. /\ start_update_flag' = [start_update_flag EXCEPT ![s] = FALSE]
        /\ rxbuffer' = <<>> /\ UNCHANGED <<md5sum, start_update_type>>
    BY <1>4 DEF Branches, Clear
  <2>2. \A t \in Servers : ~start_update_flag'[t]
    BY <2>1 DEF ServerTypeOK, NoFlag
  <2>3. QED BY <2>1, <2>2, EmptySeq
        DEF OwnState, OwnData, OwnDigests, FlaggedAsAsked
<1>5. CASE /\ p[1].kind # "md5sum"
           /\ ~(p[1].kind = "text" /\ Len(p) = 1)
           /\ ~(p[1].kind = "clear" /\ Len(p) = 1)
  <2>1. /\ rxbuffer' = rxbuffer \o p
        /\ UNCHANGED <<md5sum, start_update_flag, start_update_type>>
    BY <1>5 DEF Branches
  <2>2. ASSUME NEW i \in 1 .. Len(p) PROVE p[i] \in DataPieces
    <3>1. p[i] \in PiecesOf(c)
      BY ElementOfSeq
    <3>2. CASE c \in UdpClients
      <4>1. Len(p) = 1
        BY <3>2, Zenon
      <4>2. i = 1
        <5>1. i \in 1 .. 1
          BY <4>1, Zenon
        <5>2. QED BY <5>1
      <4>3. p[i].kind # "text"
        BY <1>5, <4>1, <4>2, Zenon
      <4>4. QED BY <3>1, <4>3 DEF PiecesOf, DataPieces
    <3>3. CASE c \in TcpClients
      BY <3>1, <3>3 DEF PiecesOf, DataPieces
    <3>4. QED BY <3>2, <3>3 DEF Clients
  <2>3. p \in Seq(DataPieces)
    BY <2>2, SeqOver
  <2>4. rxbuffer' \in Seq(DataPieces)
    BY <2>1, <2>3, ConcatProperties DEF OwnState, OwnData
  <2>5. QED BY <2>1, <2>4 DEF OwnState, OwnData, OwnDigests, FlaggedAsAsked,
                              NoFlag
<1>6. QED BY <1>2, <1>3, <1>4, <1>5

LEMMA ClosedKeepsArea ==
  ASSUME ServerTypeOK, NoFlag, OwnState, OneAreaPerServer, TcpClosed
  PROVE  OwnState'
<1>1. CASE rxbuffer # <<>> /\ rxbuffer[Len(rxbuffer)].kind = "text"
  <2> DEFINE last == rxbuffer[Len(rxbuffer)]
             bytes == SubSeq(rxbuffer, 1, Len(rxbuffer) - 1)
  <2>1. rxbuffer \in Seq(DataPieces) /\ Len(rxbuffer) \in 1 .. Len(rxbuffer)
    BY <1>1, EmptySeq, LenProperties DEF OwnState, OwnData
  <2>2. last \in DataPieces
    BY <2>1, ElementOfSeq
  <2>3. last.of \in TcpClients /\ last.n = Area[last.of]
    BY <1>1, <2>2 DEF DataPieces
  <2>4. bytes \in Seq(DataPieces)
    BY <2>1, SubSeqProperties
  <2>5. Verify("tcp", last.n, bytes, client_pcb["tcp"])
    BY <1>1 DEF TcpClosed
  <2> HIDE DEF last, bytes
  <2>6. "tcp" \in Servers /\ ServerOf(last.of) = "tcp" /\ last.of \in Clients
    BY <2>3, UpdateAssumption DEF Servers, ServerOf, Clients
  <2>7. Verify("tcp", Area[last.of], bytes, client_pcb["tcp"])
    BY <2>3, <2>5
  <2>8. QED BY <2>4, <2>6, <2>7, VerifyKeepsArea
<1>2. CASE ~(rxbuffer # <<>> /\ rxbuffer[Len(rxbuffer)].kind = "text")
  BY <1>2 DEF TcpClosed, OwnState, OwnData, OwnDigests, FlaggedAsAsked
<1>3. QED BY <1>1, <1>2

LEMMA WithoutFinOwn ==
  ASSUME NEW c \in Clients, NEW p \in PacketsOf(c), p[1].kind # "fin"
  PROVE  /\ WithoutFin(p) \in Seq(PiecesOf(c))
         /\ Len(WithoutFin(p)) \in Nat \ {0}
<1>1. p \in Seq(PiecesOf(c)) /\ p \in Packets
  BY PacketOfNotEmpty
<1>2. WithoutFin(p) \in Seq(PiecesOf(c))
  BY <1>1, SubSeqProperties DEF WithoutFin
<1>3. WithoutFin(p) \in Packets
  BY <1>1, WithoutFinTyped
<1>4. QED BY <1>2, <1>3, EmptySeq DEF Packets

LEMMA InputKeepsArea ==
  ASSUME UpdateInv, AreaInv, OneAreaPerServer, NEW c \in Clients, Input(c)
  PROVE  AreaInv'
<1> DEFINE p == Head(up[c])
<1>1. TypeOK /\ ServerTypeOK /\ NoFlag /\ OwnState
  BY DEF UpdateInv, AreaInv, OwnState, TypeOK, ServerTypeOK, NoFlagAtInput,
         NoFlag, Input
<1>2. up[c] \in Seq(PacketsOf(c)) /\ up[c] # <<>>
  BY DEF AreaInv, OwnPackets, Input
<1>3. p \in PacketsOf(c) /\ Tail(up[c]) \in Seq(PacketsOf(c))
  BY <1>2, HeadTailProperties
<1>4. /\ p \in Seq(PiecesOf(c)) /\ Len(p) \in Nat \ {0}
      /\ p[Len(p)] \in PiecesOf(c) /\ (c \in UdpClients => Len(p) = 1)
  BY <1>3, PacketOfNotEmpty DEF PacketsOf
<1>5. OwnPackets'
  <2>1. << <<p[Len(p)]>> >> \in Seq(PacketsOf(c))
    BY <1>4, SinglePacket
  <2>2. << <<p[Len(p)]>> >> \o Tail(up[c]) \in Seq(PacketsOf(c))
    BY <1>3, <2>1, ConcatProperties
  <2>3. \E q \in Seq(PacketsOf(c)) : up' = [up EXCEPT ![c] = q]
    BY <1>3, <2>2 DEF Input
  <2>4. QED BY <1>1, <2>3 DEF TypeOK, AreaInv, OwnPackets
<1>6. OwnState'
  <2>1. CASE c \in UdpClients /\ udp_update_recv_callback(c, p)
    <3>1. ServerOf(c) = "udp" /\ "udp" \in Servers
      BY <2>1 DEF ServerOf, Servers
    <3>2. Branches("udp", p, c)
      BY <2>1 DEF udp_update_recv_callback
    <3> HIDE DEF p
    <3>3. QED BY <1>1, <1>4, <3>1, <3>2, BranchesKeepArea
  <2>2. CASE c \in TcpClients /\ accept_callback(c)
    BY <1>1, <2>2 DEF accept_callback, OwnState, OwnData, OwnDigests,
                      FlaggedAsAsked
  <2>3. CASE TcpClosed
    BY <1>1, <2>3, ClosedKeepsArea
  <2>4. CASE /\ c \in TcpClients /\ p[1].kind \notin {"syn", "fin"}
             /\ tcp_update_recv_callback(WithoutFin(p))
    <3>1. ServerOf(c) = "tcp" /\ "tcp" \in Servers /\ c \notin UdpClients
      BY <2>4, UpdateAssumption DEF ServerOf, Servers
    <3>2. Branches("tcp", WithoutFin(p), client_pcb["tcp"])
      BY <2>4 DEF tcp_update_recv_callback
    <3>3. p[1].kind # "fin"
      BY <2>4
    <3> HIDE DEF p
    <3>4. WithoutFin(p) \in Seq(PiecesOf(c)) /\ Len(WithoutFin(p)) \in Nat \ {0}
      BY <1>3, <3>3, WithoutFinOwn
    <3>5. QED BY <1>1, <3>1, <3>2, <3>4, BranchesKeepArea
  <2>5. QED BY <2>1, <2>2, <2>3, <2>4 DEF Input
<1>7. InAreaAsked'
  BY DEF AreaInv, InAreaAsked, Input
<1>8. QED BY <1>5, <1>6, <1>7 DEF AreaInv, OwnState

LEMMA TransferKeepsArea ==
  ASSUME UpdateInv, AreaInv, Transfer
  PROVE  AreaInv'
<1>1. TypeOK /\ UNCHANGED up
  BY DEF UpdateInv, Transfer
<1>2. CASE \A s \in Servers : ~start_update_flag[s]
  BY <1>1, <1>2 DEF Transfer, AreaInv, OwnPackets, OwnData, OwnDigests,
                    FlaggedAsAsked, InAreaAsked
<1>3. ASSUME NEW s \in Servers, start_update_flag[s], Program(s)
      PROVE  AreaInv'
  <2>1. /\ flash' = [flash EXCEPT ![start_update_type[s]] = rxbuffer]
        /\ rxbuffer' = <<>> \/ rxbuffer' = rxbuffer
        /\ md5sum' = [md5sum EXCEPT ![s] = None]
        /\ start_update_flag' = [start_update_flag EXCEPT ![s] = FALSE]
    BY <1>3 DEF Program
  <2>2. \A t \in Servers : ~start_update_flag'[t]
    BY <1>1, <1>3, <2>1 DEF UpdateInv, OneFlag, TypeOK
  <2>3. OwnPackets' /\ FlaggedAsAsked'
    BY <1>1, <2>2 DEF AreaInv, OwnPackets, FlaggedAsAsked
  <2>4. OwnDigests'
    BY <1>1, <2>1 DEF AreaInv, OwnDigests, TypeOK
  <2>5. OwnData'
    <3>1. rxbuffer \in Seq(DataPieces) /\ <<>> \in Seq(DataPieces)
      BY EmptySeq DEF AreaInv, OwnData
    <3>2. QED BY <2>1, <3>1, Zenon DEF OwnData
  <2>6. InAreaAsked'
    <3>1. PICK d \in Clients :
            rxbuffer = File(d) /\ start_update_type[s] = Area[d]
      BY <1>3 DEF AreaInv, FlaggedAsAsked
    <3>2. SUFFICES ASSUME NEW t \in {0, 1}, NEW c \in Clients,
                          flash'[t] = File(c)
                   PROVE  Area[c] = t
      BY DEF InAreaAsked
    <3>3. CASE t = start_update_type[s]
      <4>1. File(c) = File(d)
        BY <1>1, <2>1, <3>1, <3>2, <3>3 DEF TypeOK
      <4>2. c = d
        BY <4>1, OneOwner
      <4>3. QED BY <3>1, <3>3, <4>2
    <3>4. CASE t # start_update_type[s]
      <4>1. flash[t] = File(c)
        BY <1>1, <2>1, <3>2, <3>4 DEF TypeOK
      <4>2. QED BY <4>1 DEF AreaInv, InAreaAsked
    <3>5. QED BY <3>3, <3>4
  <2>7. QED BY <2>3, <2>4, <2>5, <2>6 DEF AreaInv
<1>4. QED BY <1>2, <1>3 DEF Transfer

LEMMA AreaInit == Init => AreaInv
<1> SUFFICES ASSUME Init PROVE AreaInv
  OBVIOUS
<1>1. OwnPackets /\ OwnData
  BY EmptySeq DEF Init, OwnPackets, OwnData
<1>2. OwnDigests /\ FlaggedAsAsked
  BY DEF Init, OwnDigests, FlaggedAsAsked
<1>3. InAreaAsked
  BY OneOwner DEF Init, InAreaAsked
<1>4. QED BY <1>1, <1>2, <1>3 DEF AreaInv

LEMMA AreaStep ==
  ASSUME OneAreaPerServer
  PROVE  UpdateInv /\ AreaInv /\ [Next]_vars => AreaInv'
<1> SUFFICES ASSUME UpdateInv, AreaInv, [Next]_vars PROVE AreaInv'
  OBVIOUS
<1>1. CASE UNCHANGED vars
  BY <1>1 DEF AreaInv, vars, server, OwnPackets, OwnData, OwnDigests,
              FlaggedAsAsked, InAreaAsked
<1>2. CASE Next
  BY <1>2, ClientKeepsArea, InputKeepsArea, TransferKeepsArea, NetworkKeepsArea
  DEF Next, MainLoop
<1>3. QED BY <1>1, <1>2

LEMMA UpdateAlways == Spec => []UpdateInv
BY UpdateInit, UpdateStep, PTL DEF Spec

(* Any number of clients, of which those of one server ask for one area:   *)
(* no file is programmed into the other, whatever commands the clients of  *)
(* the other server send, whatever is repeated, swapped or joined, and     *)
(* whichever connection is closed in between.                              *)
THEOREM FilesGoWhereAsked ==
  ASSUME OneAreaPerServer
  PROVE  Spec => []InAreaAsked
<1>1. AreaInv => InAreaAsked
  BY DEF AreaInv
<1>2. UpdateInv /\ AreaInv /\ [Next]_vars => AreaInv'
  BY AreaStep
<1>3. QED BY <1>1, <1>2, AreaInit, UpdateAlways, PTL DEF Spec

-----------------------------------------------------------------------------
(* What the one client is told.                                            *)

LEMMA TellTyped ==
  ASSUME NEW d \in [Clients -> Seq(Messages)], NEW m \in Messages,
         NEW to \in Clients \cup {None}
  PROVE  Tell(d, to, m) \in [Clients -> Seq(Messages)]
<1>1. CASE to = None
  BY <1>1 DEF Tell
<1>2. CASE to # None
  <2>1. Append(d[to], m) \in Seq(Messages)
    BY <1>2, AppendProperties
  <2>2. QED BY <1>2, <2>1 DEF Tell
<1>3. QED BY <1>1, <1>2

(* Any message but success may be told.                                    *)
LEMMA TellTrue ==
  ASSUME ToldTheTruth, NEW m \in Messages \ {"success"},
         NEW to \in Clients \cup {None}, down' = Tell(down, to, m),
         UNCHANGED flash
  PROVE  ToldTheTruth'
<1>1. down' \in [Clients -> Seq(Messages)]
  BY TellTyped DEF ToldTheTruth
<1>2. ASSUME NEW c \in Clients PROVE down'[c] \in Seq(MayBeTold(c))
  <2>1. m \in MayBeTold(c) /\ down[c] \in Seq(MayBeTold(c))
    BY DEF MayBeTold, ToldTheTruth
  <2>2. down'[c] = down[c] \/ down'[c] = Append(down[c], m)
    BY DEF Tell, ToldTheTruth
  <2>3. Append(down[c], m) \in Seq(MayBeTold(c))
    BY <2>1, AppendProperties
  <2>4. QED BY <2>1, <2>2, <2>3
<1>3. \A c \in Clients : MayBeTold(c)' = MayBeTold(c)
  BY DEF MayBeTold, Installed
<1>4. QED BY <1>1, <1>2, <1>3 DEF ToldTheTruth

(* A message less is no lie.                                               *)
LEMMA ReadTrue ==
  ASSUME ToldTheTruth, NEW c \in Clients, down[c] # <<>>,
         down' = [down EXCEPT ![c] = Tail(@)], UNCHANGED flash
  PROVE  ToldTheTruth'
<1>1. down[c] \in Seq(Messages) /\ down[c] \in Seq(MayBeTold(c))
  BY DEF ToldTheTruth
<1>2. Tail(down[c]) \in Seq(Messages) /\ Tail(down[c]) \in Seq(MayBeTold(c))
  BY <1>1, HeadTailProperties
<1>3. down' \in [Clients -> Seq(Messages)]
  BY <1>2 DEF ToldTheTruth
<1>4. \A d \in Clients : down'[d] \in Seq(MayBeTold(d))
  BY <1>2 DEF ToldTheTruth
<1>5. \A d \in Clients : MayBeTold(d)' = MayBeTold(d)
  BY DEF MayBeTold, Installed
<1>6. QED BY <1>3, <1>4, <1>5 DEF ToldTheTruth

LEMMA NothingTold ==
  ASSUME TruthInv, UNCHANGED <<down, flash, cpc>>
  PROVE  TruthInv'
BY DEF TruthInv, ToldTheTruth, MayBeTold, Installed, SuccessIsMine

LEMMA ClientKeepsTruth ==
  ASSUME UpdateInv, TruthInv, NEW c \in Clients, ClientStep(c)
  PROVE  TruthInv'
<1>1. TypeOK /\ ToldTheTruth /\ UNCHANGED flash
  BY DEF UpdateInv, TruthInv, ClientStep, ClientStarts, ClientReadsAck,
         ClientSendsChunk, ClientSendsText, ClientReadsResult, server
<1>2. ToldTheTruth'
  <2>1. CASE UNCHANGED down
    BY <1>1, <2>1 DEF ToldTheTruth, MayBeTold, Installed
  <2>2. CASE down[c] # <<>> /\ down' = [down EXCEPT ![c] = Tail(@)]
    BY <1>1, <2>2, ReadTrue
  <2>3. QED BY <2>1, <2>2 DEF ClientStep, ClientStarts, ClientReadsAck,
          ClientSendsChunk, ClientSendsText, ClientReadsResult
<1>3. ASSUME NEW d \in Clients, cpc'[d] = "succeeded" PROVE Installed(d)
  <2>1. CASE cpc[d] = "succeeded"
    BY <2>1 DEF TruthInv, SuccessIsMine, Installed
  <2>2. CASE cpc[d] # "succeeded"
    <3>1. d = c /\ ClientReadsResult(c) /\ cpc'[c] = EndOf(Head(down[c]))
      BY <1>1, <1>3, <2>2 DEF TypeOK, ClientStep, ClientStarts, ClientReadsAck,
         ClientSendsChunk, ClientSendsText, ClientReadsResult
    <3>2. Head(down[c]) = "success" /\ down[c] # <<>>
      BY <1>3, <3>1 DEF EndOf, ClientReadsResult
    <3>3. Head(down[c]) \in MayBeTold(c)
      BY <1>1, <3>2, HeadTailProperties DEF ToldTheTruth
    <3>4. QED BY <3>1, <3>2, <3>3 DEF MayBeTold
  <2>3. QED BY <2>1, <2>2
<1>4. SuccessIsMine'
  BY <1>1, <1>3 DEF SuccessIsMine, Installed
<1>5. QED BY <1>2, <1>4 DEF TruthInv

LEMMA InputKeepsTruth ==
  ASSUME UpdateInv, TruthInv, NEW c \in Clients, Input(c)
  PROVE  TruthInv'
<1>1. TypeOK /\ ToldTheTruth /\ UNCHANGED <<flash, cpc>>
  BY DEF UpdateInv, TruthInv, Input, client
<1>2. \/ UNCHANGED down
      \/ \E to \in Clients \cup {None}, m \in Messages \ {"success"} :
           down' = Tell(down, to, m)
  <2>1. ASSUME NEW s, NEW area, NEW bytes, NEW pcb \in Clients \cup {None},
               Verify(s, area, bytes, pcb)
        PROVE  \E m \in Messages \ {"success"} : down' = Tell(down, pcb, m)
    BY <2>1 DEF Verify, TellFailed, Messages
  <2>2. ASSUME NEW s, NEW p, NEW pcb \in Clients \cup {None}, Branches(s, p, pcb)
        PROVE  \/ UNCHANGED down
               \/ \E m \in Messages \ {"success"} : down' = Tell(down, pcb, m)
    <3>1. UNCHANGED down \/ Verify(s, p[1].n, rxbuffer, pcb) \/ Clear(s, pcb)
      BY <2>2 DEF Branches
    <3>2. Clear(s, pcb) => down' = Tell(down, pcb, "cleared")
      BY DEF Clear
    <3>3. "cleared" \in Messages \ {"success"}
      BY DEF Messages
    <3>4. QED BY <2>1, <3>1, <3>2, <3>3
  <2>3. client_pcb["tcp"] \in Clients \cup {None}
    BY <1>1 DEF TypeOK, Servers
  <2>4. CASE udp_update_recv_callback(c, Head(up[c]))
    <3>1. Branches("udp", Head(up[c]), c)
      BY <2>4 DEF udp_update_recv_callback
    <3>2. QED BY <2>2, <3>1
  <2>5. CASE accept_callback(c)
    BY <2>5 DEF accept_callback
  <2>6. CASE TcpClosed
    <3>1. \/ UNCHANGED down
          \/ Verify("tcp", rxbuffer[Len(rxbuffer)].n,
                    SubSeq(rxbuffer, 1, Len(rxbuffer) - 1), client_pcb["tcp"])
      BY <2>6 DEF TcpClosed
    <3>2. QED BY <2>1, <2>3, <3>1
  <2>7. CASE tcp_update_recv_callback(WithoutFin(Head(up[c])))
    <3>1. Branches("tcp", WithoutFin(Head(up[c])), client_pcb["tcp"])
      BY <2>7 DEF tcp_update_recv_callback
    <3>2. QED BY <2>2, <2>3, <3>1
  <2>8. QED BY <2>4, <2>5, <2>6, <2>7 DEF Input
<1>3. ToldTheTruth'
  <2>1. CASE UNCHANGED down
    BY <1>1, <2>1 DEF ToldTheTruth, MayBeTold, Installed
  <2>2. CASE ~UNCHANGED down
    BY <1>1, <1>2, <2>2, TellTrue
  <2>3. QED BY <2>1, <2>2
<1>4. SuccessIsMine'
  BY <1>1 DEF TruthInv, SuccessIsMine
<1>5. QED BY <1>3, <1>4 DEF TruthInv

(* The whole file of the only client is where it asked for from then on,   *)
(* whatever messages go with it.                                           *)
LEMMA TransferKeepsTruth ==
  ASSUME OneClient, UpdateInv, AreaInv, TruthInv, Transfer
  PROVE  TruthInv'
<1>1. TypeOK /\ ToldTheTruth /\ UNCHANGED cpc
  BY DEF UpdateInv, TruthInv, Transfer, client
<1>2. CASE UNCHANGED <<down, flash>>
  BY <1>1, <1>2, NothingTold
<1>3. ASSUME NEW s \in Servers, start_update_flag[s], Program(s)
      PROVE  TruthInv'
  <2>1. PICK d \in Clients :
          rxbuffer = File(d) /\ start_update_type[s] = Area[d]
    BY <1>3 DEF AreaInv, FlaggedAsAsked
  <2>2. flash' = [flash EXCEPT ![start_update_type[s]] = rxbuffer]
    BY <1>3 DEF Program
  <2>3. \A c \in Clients : Installed(c)'
    <3>1. SUFFICES ASSUME NEW c \in Clients PROVE flash'[Area[c]] = File(c)
      BY DEF Installed
    <3>2. c = d
      BY DEF OneClient
    <3>3. Area[d] \in {0, 1}
      BY UpdateAssumption
    <3>4. QED BY <1>1, <2>1, <2>2, <3>2, <3>3 DEF TypeOK
  <2>4. down' \in [Clients -> Seq(Messages)]
    <3> DEFINE F == [Clients -> Seq(Messages)]
    <3>1. /\ client_pcb["udp"] \in Clients \cup {None}
          /\ client_pcb["tcp"] \in Clients \cup {None}
          /\ client_pcb[s] \in Clients \cup {None}
      BY <1>1 DEF TypeOK, Servers
    <3>2. \A m \in {"percent", "success", "verify error", "qspi error"} :
            m \in Messages
      BY DEF Messages
    <3>3. down \in F
      BY <1>1 DEF ToldTheTruth
    <3>4. process_print(down) \in F
      <4>1. udp_update_process_print(down) \in F
        BY <3>1, <3>2, <3>3, TellTyped DEF udp_update_process_print
      <4>2. QED
        BY <3>1, <3>2, <4>1, TellTyped DEF process_print, tcp_update_process_print
    <3>5. ASSUME NEW m \in {"success", "verify error"} PROVE Broadcast(m) \in F
      <4>1. Tell(process_print(down), client_pcb["udp"], m) \in F
        BY <3>1, <3>2, <3>4, TellTyped
      <4>2. QED BY <3>1, <3>2, <4>1, TellTyped DEF Broadcast, send_msg
    <3>6. Tell(Broadcast("verify error"), client_pcb[s], "qspi error") \in F
      BY <3>1, <3>2, <3>5, TellTyped
    <3>7. \/ down' = Broadcast("success")
          \/ down' = process_print(down)
          \/ down' = Tell(Broadcast("verify error"), client_pcb[s], "qspi error")
      BY <1>3 DEF Program
    <3>8. QED BY <3>4, <3>5, <3>6, <3>7
  <2>5. ToldTheTruth'
    BY <2>3, <2>4 DEF ToldTheTruth, MayBeTold
  <2>6. SuccessIsMine'
    BY <2>3 DEF SuccessIsMine, Installed
  <2>7. QED BY <2>5, <2>6 DEF TruthInv
<1>4. QED BY <1>2, <1>3 DEF Transfer

LEMMA NetworkKeepsTruth ==
  ASSUME UpdateInv, TruthInv, NEW c \in UdpClients,
         LosePacket(c) \/ RepeatPacket(c) \/ SwapPackets(c) \/ LoseMessage(c)
  PROVE  TruthInv'
<1>1. UNCHANGED <<flash, cpc>> /\ ToldTheTruth
  BY DEF TruthInv, LosePacket, RepeatPacket, SwapPackets, LoseMessage, server,
         client
<1>2. CASE LosePacket(c) \/ RepeatPacket(c) \/ SwapPackets(c)
  BY <1>1, <1>2, NothingTold DEF LosePacket, RepeatPacket, SwapPackets
<1>3. CASE LoseMessage(c)
  <2>1. ToldTheTruth'
    BY <1>1, <1>3, ReadTrue DEF LoseMessage, Clients
  <2>2. QED BY <1>1, <2>1 DEF TruthInv, SuccessIsMine
<1>4. QED BY <1>2, <1>3

LEMMA TruthInit == Init => TruthInv
<1> SUFFICES ASSUME Init PROVE TruthInv
  OBVIOUS
<1>1. ToldTheTruth
  BY EmptySeq DEF Init, ToldTheTruth
<1>2. SuccessIsMine
  BY DEF Init, SuccessIsMine
<1>3. QED BY <1>1, <1>2 DEF TruthInv

(* With a single client, of either server: a thread that read the success  *)
(* message has its file in the area it asked for, however packets and      *)
(* messages were lost, repeated, swapped or joined.                        *)
THEOREM SuccessIsTrue ==
  ASSUME OneClient
  PROVE  Spec => []SuccessIsMine
<1>1. TruthInv => SuccessIsMine
  BY DEF TruthInv
<1>2. OneAreaPerServer
  BY DEF OneClient, OneAreaPerServer
<1>3. UpdateInv /\ AreaInv /\ [Next]_vars => AreaInv'
  BY <1>2, AreaStep
<1>4. UpdateInv /\ AreaInv /\ TruthInv /\ [Next]_vars => TruthInv'
  <2> SUFFICES ASSUME UpdateInv, AreaInv, TruthInv, [Next]_vars
               PROVE  TruthInv'
    OBVIOUS
  <2>1. CASE UNCHANGED vars
    BY <2>1, NothingTold DEF vars, server, client
  <2>2. CASE Next
    BY <2>2, ClientKeepsTruth, InputKeepsTruth, TransferKeepsTruth,
       NetworkKeepsTruth DEF Next, MainLoop
  <2>3. QED BY <2>1, <2>2
<1>5. QED
  BY <1>1, <1>3, <1>4, AreaInit, TruthInit, UpdateAlways, PTL DEF Spec

=============================================================================
