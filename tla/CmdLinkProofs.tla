---------------------------- MODULE CmdLinkProofs ----------------------------
(***************************************************************************)
(* Why the command clients get the answers they wait for although no reply *)
(* carries the number of its request: as long as a socket is undisturbed,  *)
(* the one request or reply of the call under way is in exactly one place  *)
(* - on its way to the server, on its way back, with the client's thread   *)
(* or behind the event - and the places it may be in leave no room for     *)
(* one of an earlier call.  All of it holds for any clients, calls, memory *)
(* and reply sizes, and for every bound on calls, faults and links.        *)
(***************************************************************************)
EXTENDS CmdLink, SequenceTheorems, TLAPS

WriteKinds == {"write", "wbulk"}

Requests ==
  [of : Clients, link : Nat, id : Nat, kind : Kinds \cup {"fin", "rst"},
   addr : 0 .. Words - 1, words : 1 .. Words]

Packets == Seq(Requests) \ {<<>>}

(* A sequence, whatever of; and what a client receives.                    *)
IsSeq(s) == s \in Seq({s[k] : k \in 1 .. Len(s)})
Message(m) == m = <<>> \/ m = <<m[1]>>

(* The words a read takes from memory m.                                   *)
Result(r, m) == Slice(m, r.addr, IF r.kind = "read" THEN 1 ELSE r.words)

(* m is the server's reply to request r: what it read was in memory at one *)
(* of the moments in past, and what it says was written is among done.     *)
ReplyTo(r, past, done, m) ==
  /\ m = <<m[1]>>
  /\ m[1].of = r.of /\ m[1].id = r.id
  /\ m[1].kind = IF r.kind = "private" THEN "zeros" ELSE r.kind
  /\ r.kind \in BulkKinds => m[1].len <= MaxReply[ServerOf(r.of)]
  /\ r.kind \in {"read", "rbulk"} =>
       \E s \in past : m[1].data = Result(r, s)
  /\ r.kind \in WriteKinds => r \in done

IsReply(c, m) == ReplyTo(req[c], seen[c], executed, m)

(* A reply to a write has one that was carried out behind it.              *)
BackedBy(c, done, m) ==
  m # <<>> /\ m[1].kind \in WriteKinds =>
    \E w \in done : /\ w.of = c /\ w.kind = m[1].kind
                    /\ w.addr = m[1].addr /\ w.words = m[1].words

(* A packet that the server may still answer on the present socket.        *)
IsLive(c, k) == c \in UdpClients \/ up[c][k][1].link = link[c]

Open(c) == c \in UdpClients \/ link[c] \in open[c]

-----------------------------------------------------------------------------
TypeInv ==
  /\ up \in [Clients -> Seq(Packets)] /\ DOMAIN down = Clients
  /\ link \in [Clients -> Nat] /\ open \in [TcpClients -> SUBSET Nat]
  /\ client_pcb \in (TcpClients \X Nat) \cup {None}
  /\ event \in [Clients -> BOOLEAN] /\ pending \in [Clients -> BOOLEAN]
  /\ DOMAIN recv_msg = Clients
  /\ cpc \in [Clients -> {"idle", "wait", "awake", "cleared"}]
  /\ DOMAIN req = Clients /\ DOMAIN seen = Clients
  /\ disturbed \in [Clients -> BOOLEAN]
  /\ calls \in Nat /\ executed \subseteq Requests

PacketsOK(c) ==
  /\ \A k \in 1 .. Len(up[c]) :
       up[c][k][1].of = c /\ up[c][k][1].link <= link[c]
  /\ IsSeq(down[c])
  /\ \A k \in 1 .. Len(down[c]) :
       Message(down[c][k]) /\ BackedBy(c, executed, down[c][k])
  /\ Message(recv_msg[c]) /\ BackedBy(c, executed, recv_msg[c])
  /\ cpc[c] # "idle" =>
       req[c] \in Requests /\ req[c].of = c /\ req[c].kind \in Kinds

(* The call under way is in one place.                                     *)
Asked(c) ==
  Open(c) =>
    \A k \in 1 .. Len(up[c]) : IsLive(c, k) =>
      /\ cpc[c] = "wait" /\ up[c][k] = <<req[c]>>
      /\ down[c] = <<>> /\ ~pending[c] /\ ~event[c]
      /\ \A l \in 1 .. Len(up[c]) : IsLive(c, l) => l = k

(* A link that is closed ends with <<>>, and only such a one.              *)
Returning(c) ==
  /\ \A k \in 1 .. Len(down[c]) :
       /\ k > 1 => down[c][k] = <<>>
       /\ down[c][k] = <<>> => ~Open(c)
  /\ down[c] # <<>> /\ down[c][1] # <<>> =>
       cpc[c] = "wait" /\ IsReply(c, down[c][1]) /\ ~pending[c] /\ ~event[c]

Received(c) ==
  /\ recv_msg[c] # <<>> =>
       /\ pending[c] => cpc[c] = "wait" /\ ~event[c]
       /\ event[c] => cpc[c] \in {"wait", "awake"}
       /\ pending[c] \/ event[c] \/ cpc[c] \in {"awake", "cleared"}
            => IsReply(c, recv_msg[c])
  /\ Open(c) /\ (pending[c] \/ event[c]) => recv_msg[c] # <<>>

InStep(c) == Asked(c) /\ Returning(c) /\ Received(c)

ClientInv(c) == PacketsOK(c) /\ (~disturbed[c] => InStep(c))

IInv == TypeInv /\ \A c \in Clients : ClientInv(c)

-----------------------------------------------------------------------------
(* Sequences whose elements have no common type.                           *)

LEMMA EmptyIsSeq == IsSeq(<<>>) /\ Len(<<>>) = 0
BY EmptySeq DEF IsSeq

LEMMA SeqLen ==
  ASSUME NEW s, IsSeq(s)
  PROVE  Len(s) \in Nat /\ (s # <<>> <=> Len(s) # 0)
BY LenProperties, EmptySeq DEF IsSeq

LEMMA SeqAppend ==
  ASSUME NEW s, IsSeq(s), NEW x
  PROVE  /\ IsSeq(Append(s, x)) /\ Len(Append(s, x)) = Len(s) + 1
         /\ Append(s, x) # <<>>
         /\ Append(s, x)[Len(s) + 1] = x
         /\ \A k \in 1 .. Len(s) : Append(s, x)[k] = s[k]
<1> DEFINE E == {s[k] : k \in 1 .. Len(s)}
           F == E \cup {x}
           t == Append(s, x)
           G == {t[k] : k \in 1 .. Len(t)}
<1>1. s \in Seq(E) /\ Len(s) \in Nat
  BY LenProperties DEF IsSeq
<1>2. s \in Seq(F)
  BY <1>1, SeqMonotonic
<1>3. /\ t \in Seq(F) /\ Len(t) = Len(s) + 1 /\ t # <<>>
      /\ t[Len(s) + 1] = x /\ \A k \in 1 .. Len(s) : t[k] = s[k]
  <2> HIDE DEF E, F
  <2>1. x \in F
    BY DEF F
  <2> QED BY <1>1, <1>2, <2>1, AppendProperties
<1> HIDE DEF t
<1>4. t \in Seq(G)
  <2> HIDE DEF F
  <2>1. t \in [1 .. Len(t) -> F]
    BY <1>3, LenProperties
  <2>2. t \in [1 .. Len(t) -> G]
    BY <2>1
  <2>3. Len(t) \in Nat
    BY <1>3, LenProperties
  <2> QED BY <2>2, <2>3, SeqDef
<1> QED BY <1>3, <1>4 DEF IsSeq, t

LEMMA SeqTail ==
  ASSUME NEW s, IsSeq(s), s # <<>>
  PROVE  /\ IsSeq(Tail(s)) /\ Len(Tail(s)) = Len(s) - 1 /\ Len(s) \in Nat \ {0}
         /\ Head(s) = s[1]
         /\ \A k \in 1 .. Len(Tail(s)) : Tail(s)[k] = s[k + 1]
<1> DEFINE E == {s[k] : k \in 1 .. Len(s)}
           t == Tail(s)
           G == {t[k] : k \in 1 .. Len(t)}
<1>1. s \in Seq(E) /\ Len(s) \in Nat /\ Len(s) # 0
  BY SeqLen DEF IsSeq
<1>2. /\ t \in Seq(E) /\ Len(t) = Len(s) - 1 /\ Head(s) = s[1]
      /\ \A k \in 1 .. Len(t) : t[k] = s[k + 1]
  <2> HIDE DEF E
  <2> QED BY <1>1, HeadTailProperties
<1> HIDE DEF t
<1>3. t \in Seq(G)
  <2> HIDE DEF E
  <2>1. t \in [1 .. Len(t) -> E]
    BY <1>2, LenProperties
  <2>2. t \in [1 .. Len(t) -> G]
    BY <2>1
  <2>3. Len(t) \in Nat
    BY <1>2, LenProperties
  <2> QED BY <2>2, <2>3, SeqDef
<1> QED BY <1>1, <1>2, <1>3 DEF IsSeq, t

(* A packet of one request is as long as that request.                     *)
LEMMA OneRequest ==
  ASSUME NEW r, RequestLen(r) \in Nat PROVE TotalLen(<<r>>) = RequestLen(r)
<1> DEFINE p == <<r>>
<1>1. Len(p) = 1 /\ p[1] = r
  OBVIOUS
<1> HIDE DEF p
<1> DEFINE Sums(f) == [k \in 0 .. Len(p) |->
                         IF k = 0 THEN 0 ELSE f[k - 1] + RequestLen(p[k])]
           g == [k \in 0 .. 1 |-> IF k = 0 THEN 0 ELSE RequestLen(r)]
           upto == CHOOSE f : f = Sums(f)
<1>2. g = Sums(g)
  BY <1>1
<1>3. upto = Sums(upto)
  <2> HIDE DEF g, Sums
  <2> QED BY <1>2
<1>4. upto[1] = RequestLen(r)
  <2> HIDE DEF upto
  <2>1. upto[0] = 0
    BY <1>1, <1>3
  <2> QED BY <1>1, <1>3, <2>1
<1>5. TotalLen(p) = upto[1]
  BY <1>1 DEF TotalLen
<1> QED BY <1>4, <1>5 DEF p

-----------------------------------------------------------------------------
(* Types.                                                                  *)

LEMMA UpTypes ==
  ASSUME TypeInv, NEW c \in Clients
  PROVE  /\ up[c] \in Seq(Packets) /\ Len(up[c]) \in Nat
         /\ up[c] # <<>> => Len(up[c]) # 0
         /\ \A k \in 1 .. Len(up[c]) :
              /\ up[c][k] \in Packets /\ up[c][k] \in Seq(Requests)
              /\ up[c][k] # <<>> /\ Len(up[c][k]) \in Nat \ {0}
              /\ up[c][k][1] \in Requests /\ Head(up[c][k]) = up[c][k][1]
<1>1. up[c] \in Seq(Packets)
  BY DEF TypeInv
<1>2. Len(up[c]) \in Nat /\ (up[c] # <<>> => Len(up[c]) # 0)
  BY <1>1, LenProperties, EmptySeq
<1>3. ASSUME NEW k \in 1 .. Len(up[c])
      PROVE  /\ up[c][k] \in Packets /\ up[c][k] \in Seq(Requests)
             /\ up[c][k] # <<>> /\ Len(up[c][k]) \in Nat \ {0}
             /\ up[c][k][1] \in Requests /\ Head(up[c][k]) = up[c][k][1]
  <2> DEFINE p == up[c][k]
  <2>1. p \in Packets
    BY <1>1, ElementOfSeq
  <2>2. p \in Seq(Requests) /\ p # <<>>
    BY <2>1 DEF Packets
  <2> HIDE DEF p
  <2>3. Len(p) \in Nat \ {0} /\ Head(p) = p[1]
    BY <2>2, EmptySeq, HeadTailProperties
  <2>4. p[1] \in Requests
    BY <2>2, <2>3, ElementOfSeq
  <2> QED BY <2>1, <2>2, <2>3, <2>4 DEF p
<1> QED BY <1>1, <1>2, <1>3

LEMMA UpTail ==
  ASSUME TypeInv, NEW c \in Clients, up[c] # <<>>
  PROVE  /\ Tail(up[c]) \in Seq(Packets) /\ Len(Tail(up[c])) = Len(up[c]) - 1
         /\ \A k \in 1 .. Len(Tail(up[c])) : Tail(up[c])[k] = up[c][k + 1]
         /\ Len(up[c]) \in Nat \ {0}
         /\ Head(up[c]) = up[c][1] /\ Head(up[c]) \in Packets
         /\ Head(Head(up[c])) = up[c][1][1] /\ Head(up[c])[1] = up[c][1][1]
         /\ up[c][1][1] \in Requests
<1>1. up[c] \in Seq(Packets) /\ Len(up[c]) \in Nat /\ Len(up[c]) # 0
  BY UpTypes
<1>2. Head(up[c]) = up[c][1]
  BY <1>1, HeadTailProperties
<1>3. 1 \in 1 .. Len(up[c])
  BY <1>1
<1>4. up[c][1] \in Packets /\ Head(up[c][1]) = up[c][1][1] /\ up[c][1][1] \in Requests
  BY <1>3, UpTypes
<1>5. /\ Tail(up[c]) \in Seq(Packets) /\ Len(Tail(up[c])) = Len(up[c]) - 1
      /\ \A k \in 1 .. Len(Tail(up[c])) : Tail(up[c])[k] = up[c][k + 1]
  BY <1>1, HeadTailProperties
<1> QED BY <1>1, <1>2, <1>4, <1>5

LEMMA SingleIsPacket ==
  ASSUME NEW r \in Requests PROVE <<r>> \in Packets
BY DEF Packets

LEMMA Kinded ==
  ASSUME NEW c \in Clients, NEW k \in Calls[c]
  PROVE  /\ k.kind \in Kinds /\ k.addr \in 0 .. Words - 1 /\ k.words \in 1 .. Words
<1>1. Calls[c] \in SUBSET [kind : Kinds, addr : 0 .. Words - 1, words : 1 .. Words]
  BY CmdAssumption
<1> QED BY <1>1

(* What a new request does to the packets under way.                       *)
LEMMA SentPackets ==
  ASSUME TypeInv, NEW c \in Clients, NEW r \in Requests,
         NEW q \in SendTo(c, up[c], r)
  PROVE  /\ q \in Seq(Packets) /\ Len(q) \in Nat
         /\ \/ /\ q = Append(up[c], <<r>>) /\ Len(q) = Len(up[c]) + 1
               /\ q[Len(q)] = <<r>>
               /\ \A k \in 1 .. Len(up[c]) : q[k] = up[c][k]
            \/ /\ c \in TcpClients /\ Len(q) = Len(up[c])
               /\ Len(up[c]) \in 1 .. Len(up[c])
               /\ up[c][Len(up[c])][1].link = r.link
               /\ \A k \in 1 .. Len(q) : q[k][1] = up[c][k][1]
<1>1. up[c] \in Seq(Packets) /\ Len(up[c]) \in Nat
  BY UpTypes
<1>2. CASE q = Append(up[c], <<r>>)
  BY <1>1, <1>2, SingleIsPacket, AppendProperties
<1>3. CASE ~(q = Append(up[c], <<r>>))
  <2> DEFINE n == Len(up[c])
             x == Append(up[c][n], r)
  <2>1. /\ c \in TcpClients /\ up[c] # <<>> /\ up[c][n][1].link = r.link
        /\ q = [up[c] EXCEPT ![n] = x]
    BY <1>3 DEF SendTo
  <2>2. n \in 1 .. n
    BY <1>1, <2>1, UpTypes
  <2>3. up[c][n] \in Seq(Requests) /\ Len(up[c][n]) \in Nat \ {0}
    BY <2>2, UpTypes
  <2>4. x \in Seq(Requests) /\ x # <<>> /\ x[1] = up[c][n][1]
    <3> HIDE DEF n
    <3> QED BY <2>3, AppendProperties
  <2>5. x \in Packets
    BY <2>4 DEF Packets
  <2> HIDE DEF x
  <2>6. q \in Seq(Packets) /\ Len(q) = n
    BY <1>1, <2>1, <2>2, <2>5, ExceptSeq
  <2>7. \A k \in 1 .. n : q[k] = IF k = n THEN x ELSE up[c][k]
    BY <1>1, <2>1, <2>2, LenProperties
  <2> QED BY <1>1, <2>1, <2>2, <2>4, <2>6, <2>7
<1> QED BY <1>2, <1>3

LEMMA ConstantTypes ==
  /\ Words \in Nat \ {0} /\ MaxCalls \in Nat /\ MaxFaults \in Nat
  /\ MaxLinks \in [Clients -> Nat \ {0}] /\ MaxReply \in [Servers -> Nat]
  /\ UdpClients \cap TcpClients = {}
  /\ \A c \in Clients : <<c, 1>> # None
  /\ \A c \in Clients, l \in Nat : <<c, l>> # None
BY CmdAssumption

LEMMA NewRequest ==
  ASSUME TypeInv, NEW c \in Clients, NEW kind \in Kinds \cup {"fin", "rst"},
         NEW addr \in 0 .. Words - 1, NEW words \in 1 .. Words, NEW id \in Nat
  PROVE  /\ Request(c, kind, addr, words, id) \in Requests
         /\ Request(c, kind, addr, words, id).of = c
         /\ Request(c, kind, addr, words, id).link = link[c]
         /\ Request(c, kind, addr, words, id).kind = kind
BY DEF TypeInv, Request, Requests

(* The steps a client takes without the network.                           *)
Alone(d) ==
  Wakes(d) \/ TimesOut(d) \/ ClearsEvent(d) \/ ReadsMessage(d) \/ Receives(d)
  \/ SetsEvent(d)

Served(d) ==
  UdpMemory(d) \/ UdpOther(d) \/ TcpMemory(d) \/ TcpOther(d) \/ TcpClosed(d)
  \/ TcpServerErr(d) \/ TcpRefused(d)

LEMMA Steps ==
  [Next]_vars => \/ \E d \in Clients : \/ Issue(d) \/ Alone(d) \/ Relink(d)
                                       \/ Served(d) \/ Fault(d)
                 \/ Reset \/ UNCHANGED vars
BY DEF Next, Alone, Served

(* What a server takes from the packets of a client, and what of it counts.*)
LEMMA Taken ==
  ASSUME TypeInv, NEW d \in Clients, Served(d)
  PROVE  /\ up[d] # <<>> /\ up' = [up EXCEPT ![d] = Tail(up[d])]
         /\ up[d][1][1] \in Requests
         /\ UNCHANGED <<link, faults, thread, caller>>
<1>1. \E S : Got(d, S)
  BY DEF Served, UdpMemory, UdpOther, TcpMemory, TcpOther, TcpClosed,
         TcpServerErr, TcpRefused
<1> QED BY <1>1, UpTail DEF Got, Rest

LEMMA Done ==
  ASSUME TypeInv, NEW d \in Clients, Served(d)
  PROVE  /\ executed \subseteq executed' /\ executed' \subseteq Requests
         /\ DOMAIN seen' = Clients
         /\ \A c \in Clients : cpc[c] # "idle" => seen[c] \subseteq seen'[c]
<1>1. up[d][1][1] \in Requests /\ Head(Head(up[d])) = up[d][1][1]
  BY Taken, UpTail
<1>2. CASE UdpMemory(d) \/ TcpMemory(d)
  <2>1. PICK s, n : s \in Servers /\ Execute(s, up[d][1][1], n)
    BY <1>1, <1>2 DEF UdpMemory, TcpMemory, Servers
  <2> QED BY <1>1, <2>1 DEF Execute, Remember, TypeInv
<1>3. CASE UdpOther(d) \/ TcpOther(d)
  BY <1>3 DEF UdpOther, TcpOther, Other, TypeInv
<1>4. CASE TcpClosed(d) \/ TcpServerErr(d) \/ TcpRefused(d)
  BY <1>4 DEF TcpClosed, TcpServerErr, TcpRefused, board, TypeInv
<1> QED BY <1>2, <1>3, <1>4 DEF Served

(* How a server answers: not at all, by a reply or by the end of links.    *)
Silent == UNCHANGED <<down, open, client_pcb>>

Answers(d) ==
  \E s \in Servers :
    LET r == up[d][1][1]
        n == TotalLen(up[d][1])
    IN  /\ s = ServerOf(d) /\ Open(d) /\ IsLive(d, 1) /\ r.kind \in Kinds
        /\ down' = [down EXCEPT ![d] = Append(down[d], <<Reply(s, r, n)>>)]
        /\ UNCHANGED <<open, client_pcb>>
        /\ ~TooLong(s, r, n)
        /\ r.kind \in MemoryKinds => Execute(s, r, n)

Ends(d) ==
  /\ client_pcb' \in {client_pcb, None}
  /\ d \in TcpClients
  /\ \E ls : /\ CloseLinks(ls) /\ <<d, up[d][1][1].link>> \in ls
             /\ ls \subseteq {<<d, up[d][1][1].link>>, client_pcb}

LEMMA ServedHow ==
  ASSUME TypeInv, NEW d \in Clients, PacketsOK(d), Served(d)
  PROVE  Silent \/ Answers(d) \/ Ends(d)
<1> DEFINE r == up[d][1][1]
           n == TotalLen(up[d][1])
<1>1. /\ r \in Requests /\ Head(Head(up[d])) = r /\ Head(up[d])[1] = r
      /\ Head(up[d]) = up[d][1] /\ Len(up[d]) \in Nat \ {0} /\ up[d] # <<>>
  BY Taken, UpTail
<1>2. r.of = d
  BY <1>1 DEF PacketsOK
<1>3. d \in UdpClients => d \notin TcpClients
  BY ConstantTypes
<1>4. CASE UdpMemory(d)
  <2>1. d \in UdpClients /\ Execute("udp", r, n) /\ r.kind \in MemoryKinds
    BY <1>1, <1>4 DEF UdpMemory, Got
  <2>2. CASE TooLong("udp", r, n)
    BY <1>1, <1>4, <2>2 DEF UdpMemory, Silent
  <2>3. CASE ~TooLong("udp", r, n)
    <3>1. UdpAnswer(r, n)
      BY <1>1, <1>4, <2>3 DEF UdpMemory
    <3> HIDE DEF r, n
    <3> QED BY <1>2, <2>1, <2>3, <3>1
            DEF UdpAnswer, Answers, ServerOf, Servers, Open, IsLive, Kinds, r, n
  <2> QED BY <2>2, <2>3
<1>5. CASE UdpOther(d)
  <2>1. d \in UdpClients /\ r.kind \in OtherKinds /\ UdpAnswer(r, n)
    BY <1>1, <1>5 DEF UdpOther, Got
  <2>2. r.kind \notin MemoryKinds
    BY <2>1 DEF OtherKinds, MemoryKinds, I2cKinds, VariableKinds
  <2>3. ~TooLong("udp", r, n)
    BY <2>2 DEF TooLong, MemoryKinds
  <2> HIDE DEF r, n
  <2> QED BY <1>2, <2>1, <2>2, <2>3
          DEF UdpAnswer, Answers, ServerOf, Servers, Open, IsLive, Kinds, r, n
<1>6. ASSUME Held(d), d \in TcpClients, TcpAnswer(d, r, n),
             r.kind \in Kinds, ~TooLong("tcp", r, n),
             r.kind \in MemoryKinds => Execute("tcp", r, n)
      PROVE  Silent \/ Answers(d)
  <2>1. CASE UNCHANGED down
    BY <1>6, <2>1 DEF TcpAnswer, Silent
  <2>2. CASE /\ r.link = link[d]
             /\ down' = [down EXCEPT ![d] = Append(@, <<Reply("tcp", r, n)>>)]
    <3>1. Open(d) /\ IsLive(d, 1)
      BY <1>1, <1>6, <2>2 DEF Open, Held, IsLive
    <3> HIDE DEF r, n
    <3> QED BY <1>3, <1>6, <2>2, <3>1 DEF TcpAnswer, Answers, ServerOf, Servers, r, n
  <2> QED BY <1>6, <2>1, <2>2 DEF TcpAnswer
<1>7. CASE TcpMemory(d)
  <2>1. /\ d \in TcpClients /\ Execute("tcp", r, n) /\ r.kind \in MemoryKinds
        /\ Held(d)
    BY <1>1, <1>7 DEF TcpMemory, Got
  <2>2. CASE TooLong("tcp", r, n)
    <3>1. CloseLinks({<<d, r.link>>}) /\ UNCHANGED client_pcb
      BY <1>1, <1>7, <2>2 DEF TcpMemory
    <3> QED BY <2>1, <3>1 DEF Ends
  <2>3. CASE ~TooLong("tcp", r, n)
    <3>1. TcpAnswer(d, r, n)
      BY <1>1, <1>7, <2>3 DEF TcpMemory
    <3> QED BY <1>6, <2>1, <2>3, <3>1 DEF Kinds
  <2> QED BY <2>2, <2>3
<1>8. CASE TcpOther(d)
  <2>1. /\ d \in TcpClients /\ r.kind \in OtherKinds /\ TcpAnswer(d, r, n)
        /\ Held(d)
    BY <1>1, <1>8 DEF TcpOther, Got
  <2>2. r.kind \notin MemoryKinds
    BY <2>1 DEF OtherKinds, MemoryKinds, I2cKinds, VariableKinds
  <2>3. ~TooLong("tcp", r, n)
    BY <2>2 DEF TooLong, MemoryKinds
  <2> QED BY <1>6, <2>1, <2>2, <2>3 DEF Kinds
<1>9. CASE TcpClosed(d)
  <2>1. d \in TcpClients /\ CloseLinks({<<d, r.link>>}) /\ UNCHANGED client_pcb
    BY <1>1, <1>9 DEF TcpClosed
  <2> QED BY <2>1 DEF Ends
<1>10. CASE TcpServerErr(d)
  <2>1. /\ d \in TcpClients /\ CloseLinks({<<d, r.link>>, client_pcb})
        /\ client_pcb' = None
    BY <1>1, <1>10 DEF TcpServerErr
  <2> QED BY <2>1 DEF Ends
<1>11. CASE TcpRefused(d)
  BY <1>11 DEF TcpRefused, Silent
<1> QED BY <1>4, <1>5, <1>7, <1>8, <1>9, <1>10, <1>11 DEF Served

LEMMA TypeStep ==
  ASSUME TypeInv, \A c \in Clients : PacketsOK(c), [Next]_vars PROVE TypeInv'
<1>1. ASSUME NEW d \in Clients, Issue(d) PROVE TypeInv'
  <2>1. PICK k \in Calls[d] :
          LET r == Request(d, k.kind, k.addr, k.words, calls + 1)
          IN  /\ req' = [req EXCEPT ![d] = r]
              /\ \E q \in SendTo(d, up[d], r) : up' = [up EXCEPT ![d] = q]
    BY <1>1 DEF Issue
  <2> DEFINE r == Request(d, k.kind, k.addr, k.words, calls + 1)
  <2>2. r \in Requests
    BY Kinded, NewRequest DEF TypeInv
  <2>3. PICK q \in SendTo(d, up[d], r) : up' = [up EXCEPT ![d] = q]
    BY <2>1
  <2> HIDE DEF r
  <2>4. q \in Seq(Packets)
    BY <2>2, <2>3, SentPackets
  <2>5. up' \in [Clients -> Seq(Packets)]
    BY <2>3, <2>4 DEF TypeInv
  <2>6. DOMAIN req' = Clients
    BY <2>1 DEF TypeInv
  <2> QED BY <1>1, <2>5, <2>6 DEF Issue, TypeInv, board, thread
<1>2. ASSUME NEW d \in Clients, Alone(d) PROVE TypeInv'
  BY <1>2 DEF Alone, Wakes, TimesOut, ClearsEvent, ReadsMessage, Receives,
              SetsEvent, EndCall, Cleared, TypeInv, board, net, thread, caller
<1>3. ASSUME NEW d \in Clients, Relink(d) PROVE TypeInv'
  <2>1. /\ link' \in [Clients -> Nat] /\ event' \in [Clients -> BOOLEAN]
        /\ pending' \in [Clients -> BOOLEAN] /\ DOMAIN recv_msg' = Clients
        /\ UNCHANGED <<executed, calls, cpc, req, seen>>
    BY <1>3 DEF Relink, TypeInv, board
  <2>2. CASE d \in TcpClients
    <3> DEFINE kind == IF down[d] = <<>> THEN "fin" ELSE "rst"
               r == Request(d, kind, 0, 1, calls)
    <3>1. /\ up' = [up EXCEPT ![d] = Append(up[d], <<r>>)]
          /\ down' = [down EXCEPT ![d] = <<>>] /\ Accept(d, link[d] + 1)
          /\ disturbed' = [disturbed EXCEPT ![d] = FALSE]
      BY <1>3, <2>2 DEF Relink
    <3>2. r \in Requests
      <4>1. /\ kind \in Kinds \cup {"fin", "rst"} /\ calls \in Nat
            /\ 0 \in 0 .. Words - 1 /\ 1 \in 1 .. Words
        BY ConstantTypes DEF TypeInv
      <4> HIDE DEF kind
      <4> QED BY <4>1, NewRequest
    <3> HIDE DEF r
    <3>3. Append(up[d], <<r>>) \in Seq(Packets)
      BY <3>2, UpTypes, SingleIsPacket, AppendProperties
    <3>4. up' \in [Clients -> Seq(Packets)]
      BY <3>1, <3>3 DEF TypeInv
    <3>5. link[d] + 1 \in Nat
      BY DEF TypeInv
    <3>6. /\ open' \in [TcpClients -> SUBSET Nat]
          /\ client_pcb' \in (TcpClients \X Nat) \cup {None}
      BY <2>2, <3>1, <3>5 DEF Accept, TypeInv
    <3> QED BY <2>1, <3>1, <3>4, <3>6 DEF TypeInv
  <2>3. CASE d \notin TcpClients
    BY <1>3, <2>1, <2>3 DEF Relink, TypeInv
  <2> QED BY <2>2, <2>3
<1>4. ASSUME NEW d \in Clients, Served(d) PROVE TypeInv'
  <2>1. /\ up' = [up EXCEPT ![d] = Tail(up[d])] /\ up[d] # <<>>
        /\ UNCHANGED <<link, faults, thread, caller>>
    BY <1>4, Taken
  <2>2. up' \in [Clients -> Seq(Packets)]
    BY <2>1, UpTail DEF TypeInv
  <2>3. executed' \subseteq Requests /\ DOMAIN seen' = Clients
    BY <1>4, Done
  <2>4. /\ DOMAIN down' = Clients /\ open' \in [TcpClients -> SUBSET Nat]
        /\ client_pcb' \in (TcpClients \X Nat) \cup {None}
    <3>1. CASE Silent
      BY <3>1 DEF Silent, TypeInv
    <3>2. CASE Answers(d)
      BY <3>2 DEF Answers, TypeInv
    <3>3. CASE Ends(d)
      BY <3>3 DEF Ends, CloseLinks, TypeInv
    <3> QED BY <1>4, <3>1, <3>2, <3>3, ServedHow
  <2> QED BY <2>1, <2>2, <2>3, <2>4 DEF TypeInv, thread, caller
<1>5. ASSUME NEW d \in Clients, Fault(d) PROVE TypeInv'
  <2>1. /\ DOMAIN down' = Clients /\ disturbed' \in [Clients -> BOOLEAN]
        /\ UNCHANGED <<board, link, open, client_pcb, thread, cpc, req, calls, seen>>
    BY <1>5 DEF Fault, LosesRequest, LosesReply, RepeatsRequest, RepeatsReply, TypeInv
  <2>2. CASE UNCHANGED up
    BY <2>1, <2>2 DEF TypeInv, board, thread
  <2>3. CASE LosesRequest(d)
    BY <2>1, <2>3, UpTail DEF LosesRequest, TypeInv, board, thread
  <2>4. CASE RepeatsRequest(d)
    <3>1. /\ up[d] # <<>> /\ up' = [up EXCEPT ![d] = <<Head(up[d])>> \o up[d]]
      BY <2>4 DEF RepeatsRequest
    <3>2. <<Head(up[d])>> \in Seq(Packets) /\ up[d] \in Seq(Packets)
      BY <3>1, UpTail, UpTypes
    <3>3. <<Head(up[d])>> \o up[d] \in Seq(Packets)
      BY <3>2, ConcatProperties
    <3> QED BY <2>1, <3>1, <3>3 DEF TypeInv, board, thread
  <2> QED BY <1>5, <2>2, <2>3, <2>4 DEF Fault, LosesReply, RepeatsReply
<1>6. CASE Reset
  <2>1. <<>> \in Seq(Packets)
    BY EmptySeq
  <2> QED BY <1>6, <2>1 DEF Reset, Remember, TypeInv, thread
<1>7. CASE UNCHANGED vars
  BY <1>7 DEF vars, board, net, thread, caller, TypeInv
<1> QED BY <1>1, <1>2, <1>3, <1>4, <1>5, <1>6, <1>7, Steps

-----------------------------------------------------------------------------
(* Clients the step does not touch.                                        *)

LEMMA ReplyStays ==
  ASSUME NEW r, NEW m, NEW p1, NEW p2, NEW d1, NEW d2,
         p1 \subseteq p2, d1 \subseteq d2, ReplyTo(r, p1, d1, m)
  PROVE  ReplyTo(r, p2, d2, m)
BY DEF ReplyTo

LEMMA BackedStays ==
  ASSUME NEW c, NEW m, NEW d1, NEW d2, d1 \subseteq d2, BackedBy(c, d1, m)
  PROVE  BackedBy(c, d2, m)
BY DEF BackedBy

(* What the board remembers only grows while a call is under way.          *)
Grows(c) ==
  executed \subseteq executed' /\ (cpc[c] # "idle" => seen[c] \subseteq seen'[c])

Same(c) ==
  UNCHANGED <<link[c], event[c], pending[c], recv_msg[c], cpc[c], req[c]>>

(* A client may have lost packets on their way to the server.              *)
Fewer(c) ==
  \/ up'[c] = up[c] \/ up'[c] = <<>>
  \/ up[c] # <<>> /\ up'[c] = Tail(up[c])

LEMMA FewerAre ==
  ASSUME TypeInv, NEW c \in Clients, Fewer(c)
  PROVE  \E j \in {0, 1} : \A k \in 1 .. Len(up'[c]) :
           k + j \in 1 .. Len(up[c]) /\ up'[c][k] = up[c][k + j]
<1>1. up[c] \in Seq(Packets) /\ Len(up[c]) \in Nat
  BY UpTypes
<1>2. CASE up'[c] = up[c]
  <2>1. \A k \in 1 .. Len(up'[c]) : k + 0 \in 1 .. Len(up[c]) /\ k + 0 = k
    BY <1>1, <1>2
  <2> QED BY <1>2, <2>1
<1>3. CASE up'[c] = <<>>
  BY <1>3, EmptyIsSeq
<1>4. CASE up[c] # <<>> /\ up'[c] = Tail(up[c])
  <2>1. /\ Len(up'[c]) = Len(up[c]) - 1
        /\ \A k \in 1 .. Len(up'[c]) : up'[c][k] = up[c][k + 1]
    BY <1>4, UpTail
  <2>2. \A k \in 1 .. Len(up'[c]) : k + 1 \in 1 .. Len(up[c])
    BY <1>1, <2>1
  <2> QED BY <2>1, <2>2
<1> QED BY <1>2, <1>3, <1>4 DEF Fewer

LEMMA FewerPackets ==
  ASSUME TypeInv, NEW c \in Clients, PacketsOK(c), Grows(c), Same(c), Fewer(c)
  PROVE  /\ \A k \in 1 .. Len(up'[c]) :
              up'[c][k][1].of = c /\ up'[c][k][1].link <= link'[c]
         /\ Message(recv_msg'[c]) /\ BackedBy(c, executed', recv_msg'[c])
         /\ \A k \in 1 .. Len(down[c]) :
              Message(down[c][k]) /\ BackedBy(c, executed', down[c][k])
         /\ cpc'[c] # "idle" =>
              req'[c] \in Requests /\ req'[c].of = c /\ req'[c].kind \in Kinds
<1>1. \A k \in 1 .. Len(up'[c]) :
        up'[c][k][1].of = c /\ up'[c][k][1].link <= link'[c]
  BY FewerAre DEF PacketsOK, Same
<1> QED BY <1>1, BackedStays DEF PacketsOK, Same, Grows

LEMMA FewerAsked ==
  ASSUME TypeInv, NEW c \in Clients, Asked(c), Same(c), Fewer(c),
         Open(c)' => Open(c) /\ down'[c] = down[c]
  PROVE  Asked(c)'
<1> SUFFICES ASSUME Open(c), down'[c] = down[c],
                    NEW k \in 1 .. Len(up'[c]), IsLive(c, k)'
             PROVE  /\ cpc[c] = "wait" /\ up'[c][k] = <<req[c]>>
                    /\ down[c] = <<>> /\ ~pending[c] /\ ~event[c]
                    /\ \A l \in 1 .. Len(up'[c]) : IsLive(c, l)' => l = k
  BY DEF Asked, Same
<1>1. PICK j \in {0, 1} : \A l \in 1 .. Len(up'[c]) :
        l + j \in 1 .. Len(up[c]) /\ up'[c][l] = up[c][l + j]
  BY FewerAre
<1>2. \A l \in 1 .. Len(up'[c]) : IsLive(c, l)' => IsLive(c, l + j)
  BY <1>1 DEF IsLive, Same
<1>3. /\ cpc[c] = "wait" /\ up'[c][k] = <<req[c]>>
      /\ down[c] = <<>> /\ ~pending[c] /\ ~event[c]
  BY <1>1, <1>2 DEF Asked
<1>4. ASSUME NEW l \in 1 .. Len(up'[c]), IsLive(c, l)' PROVE l = k
  <2>1. l + j = k + j
    BY <1>1, <1>2, <1>4 DEF Asked
  <2> QED BY <2>1
<1> QED BY <1>3, <1>4

(* Nothing else of this client's changes.                                  *)
LEMMA Untouched ==
  ASSUME TypeInv, NEW c \in Clients, ClientInv(c), Grows(c), Same(c), Fewer(c),
         UNCHANGED down[c], Open(c)' <=> Open(c), ~disturbed'[c] => ~disturbed[c]
  PROVE  ClientInv(c)'
<1>1. PacketsOK(c)'
  BY FewerPackets DEF ClientInv, PacketsOK
<1>2. ASSUME ~disturbed'[c] PROVE InStep(c)'
  <2>1. InStep(c)
    BY <1>2 DEF ClientInv
  <2>2. Asked(c)'
    BY <2>1, FewerAsked DEF InStep
  <2>3. Returning(c)'
    BY <2>1, ReplyStays DEF InStep, Returning, Same, Grows, IsReply
  <2>4. Received(c)'
    BY <2>1, ReplyStays DEF InStep, Received, Same, Grows, IsReply
  <2> QED BY <2>2, <2>3, <2>4 DEF InStep
<1> QED BY <1>1, <1>2 DEF ClientInv

(* The server closes the client's link.                                    *)
LEMMA LinkEnds ==
  ASSUME TypeInv, NEW c \in Clients, ClientInv(c), Grows(c), Same(c), Fewer(c),
         down'[c] = Append(down[c], <<>>), Open(c), ~Open(c)',
         ~disturbed'[c] => ~disturbed[c]
  PROVE  ClientInv(c)'
<1>1. /\ IsSeq(down'[c]) /\ Len(down'[c]) = Len(down[c]) + 1
      /\ Len(down[c]) \in Nat /\ down'[c][Len(down[c]) + 1] = <<>>
      /\ \A k \in 1 .. Len(down[c]) : down'[c][k] = down[c][k]
      /\ down[c] # <<>> => Len(down[c]) # 0
  BY SeqAppend, SeqLen DEF ClientInv, PacketsOK
<1>2. \A k \in 1 .. Len(down'[c]) :
        \/ k \in 1 .. Len(down[c]) /\ down'[c][k] = down[c][k]
        \/ down'[c][k] = <<>>
  <2>1. \A k \in 1 .. Len(down'[c]) : k \in 1 .. Len(down[c]) \/ k = Len(down[c]) + 1
    BY <1>1
  <2> QED BY <1>1, <2>1
<1>3. Message(<<>>) /\ BackedBy(c, executed', <<>>)
  BY DEF Message, BackedBy
<1>4. PacketsOK(c)'
  BY <1>1, <1>2, <1>3, FewerPackets DEF ClientInv, PacketsOK
<1>5. ASSUME ~disturbed'[c] PROVE InStep(c)'
  <2>1. InStep(c)
    BY <1>5 DEF ClientInv
  <2>2. Asked(c)'
    BY DEF Asked
  <2>3. Returning(c)'
    <3>1. \A k \in 1 .. Len(down'[c]) : k > 1 => down'[c][k] = <<>>
      BY <1>2, <2>1 DEF InStep, Returning
    <3>2. 1 \in 1 .. Len(down'[c])
      BY <1>1
    <3>3. down'[c][1] # <<>> => down[c] # <<>> /\ down'[c][1] = down[c][1]
      BY <1>2, <3>2, EmptyIsSeq
    <3>4. down'[c][1] # <<>> =>
            /\ cpc[c] = "wait" /\ IsReply(c, down[c][1])
            /\ ~pending[c] /\ ~event[c]
      BY <2>1, <3>3 DEF InStep, Returning
    <3>5. down'[c][1] # <<>> =>
            ReplyTo(req'[c], seen'[c], executed', down'[c][1])
      BY <3>3, <3>4, ReplyStays DEF Same, Grows, IsReply
    <3> QED BY <3>1, <3>4, <3>5 DEF Returning, Same, IsReply
  <2>4. Received(c)'
    BY <2>1, ReplyStays DEF InStep, Received, Same, Grows, IsReply
  <2> QED BY <2>2, <2>3, <2>4 DEF InStep
<1> QED BY <1>4, <1>5 DEF ClientInv

-----------------------------------------------------------------------------
(* The client whose step it is.                                            *)

(* While no call is under way nothing of an earlier one is left.           *)
LEMMA NothingLeft ==
  ASSUME TypeInv, NEW c \in Clients, PacketsOK(c), InStep(c), cpc[c] = "idle"
  PROVE  /\ Open(c) => /\ down[c] = <<>> /\ ~pending[c] /\ ~event[c]
                       /\ \A k \in 1 .. Len(up[c]) : ~IsLive(c, k)
         /\ down[c] # <<>> => down[c][1] = <<>>
         /\ recv_msg[c] # <<>> => ~pending[c] /\ ~event[c]
<1>1. Open(c) => \A k \in 1 .. Len(up[c]) : ~IsLive(c, k)
  BY DEF InStep, Asked
<1>2. down[c] # <<>> => down[c][1] = <<>>
  BY DEF InStep, Returning
<1>3. down[c] # <<>> => ~Open(c)
  <2>1. down[c] # <<>> => 1 \in 1 .. Len(down[c])
    BY SeqLen DEF PacketsOK
  <2> QED BY <1>2, <2>1 DEF InStep, Returning
<1>4. recv_msg[c] # <<>> => ~pending[c] /\ ~event[c]
  BY DEF InStep, Received
<1>5. Open(c) => ~pending[c] /\ ~event[c]
  BY <1>4 DEF InStep, Received
<1> QED BY <1>1, <1>2, <1>3, <1>4, <1>5

LEMMA IssueStep ==
  ASSUME TypeInv, NEW d \in Clients, ClientInv(d), Issue(d) PROVE ClientInv(d)'
<1>1. PICK k \in Calls[d] :
        LET r == Request(d, k.kind, k.addr, k.words, calls + 1)
        IN  /\ req' = [req EXCEPT ![d] = r]
            /\ \E q \in SendTo(d, up[d], r) : up' = [up EXCEPT ![d] = q]
  BY DEF Issue
<1> DEFINE r == Request(d, k.kind, k.addr, k.words, calls + 1)
<1>2. r \in Requests /\ r.of = d /\ r.link = link[d] /\ r.kind \in Kinds
  BY Kinded, NewRequest DEF TypeInv
<1>3. PICK q \in SendTo(d, up[d], r) : up' = [up EXCEPT ![d] = q]
  BY <1>1
<1>4. req' = [req EXCEPT ![d] = r]
  BY <1>1
<1> HIDE DEF r
<1>5. up'[d] = q /\ req'[d] = r /\ cpc[d] = "idle" /\ cpc'[d] = "wait"
  BY <1>3, <1>4 DEF Issue, TypeInv
<1>6. UNCHANGED <<down, link, open, event, pending, recv_msg, executed, disturbed>>
  BY DEF Issue, board, thread
<1>7. /\ Len(q) \in Nat /\ Len(up[d]) \in Nat
      /\ \/ /\ Len(q) = Len(up[d]) + 1 /\ q[Len(q)] = <<r>>
            /\ \A j \in 1 .. Len(up[d]) : q[j] = up[d][j]
         \/ /\ d \in TcpClients /\ Len(q) = Len(up[d])
            /\ Len(up[d]) \in 1 .. Len(up[d])
            /\ up[d][Len(up[d])][1].link = r.link
            /\ \A j \in 1 .. Len(q) : q[j][1] = up[d][j][1]
  BY <1>2, <1>3, SentPackets, UpTypes
<1>8. PacketsOK(d)'
  <2>1. \A j \in 1 .. Len(up[d]) :
          up[d][j][1].of = d /\ up[d][j][1].link <= link[d]
    BY DEF ClientInv, PacketsOK
  <2>2. link[d] \in Nat /\ <<r>>[1] = r
    BY DEF TypeInv
  <2>3. ASSUME NEW j \in 1 .. Len(q)
        PROVE  q[j][1].of = d /\ q[j][1].link <= link[d]
    <3>1. CASE j \in 1 .. Len(up[d]) /\ q[j][1] = up[d][j][1]
      BY <2>1, <3>1
    <3>2. CASE q[j] = <<r>>
      BY <1>2, <2>2, <3>2
    <3>3. j \in 1 .. Len(up[d]) \/ j = Len(up[d]) + 1
      BY <1>7
    <3> QED BY <1>7, <3>1, <3>2, <3>3
  <2> QED BY <1>2, <1>5, <1>6, <2>3 DEF ClientInv, PacketsOK
<1>9. ASSUME ~disturbed'[d] PROVE InStep(d)'
  <2>1. InStep(d) /\ PacketsOK(d)
    BY <1>6, <1>9 DEF ClientInv
  <2>2. /\ Open(d) => /\ down[d] = <<>> /\ ~pending[d] /\ ~event[d]
                      /\ \A j \in 1 .. Len(up[d]) : ~IsLive(d, j)
        /\ down[d] # <<>> => down[d][1] = <<>>
        /\ recv_msg[d] # <<>> => ~pending[d] /\ ~event[d]
    BY <1>5, <2>1, NothingLeft
  <2>3. Asked(d)'
    <3> SUFFICES ASSUME Open(d), NEW j \in 1 .. Len(q),
                        d \in UdpClients \/ q[j][1].link = link[d]
                 PROVE  /\ q[j] = <<r>>
                        /\ \A l \in 1 .. Len(q) :
                             d \in UdpClients \/ q[l][1].link = link[d] => l = j
      BY <1>5, <1>6, <2>2 DEF Asked, Open, IsLive
    <3>1. /\ Len(q) = Len(up[d]) + 1 /\ q[Len(q)] = <<r>>
          /\ \A i \in 1 .. Len(up[d]) : q[i] = up[d][i]
      BY <1>2, <1>7, <2>2 DEF IsLive
    <3>2. \A i \in 1 .. Len(up[d]) :
            ~(d \in UdpClients \/ q[i][1].link = link[d])
      BY <2>2, <3>1 DEF IsLive
    <3>3. \A i \in 1 .. Len(q) : i \in 1 .. Len(up[d]) \/ i = Len(q)
      BY <1>7, <3>1
    <3> QED BY <3>1, <3>2, <3>3
  <2>4. Returning(d)'
    BY <1>6, <2>1, <2>2 DEF InStep, Returning, Open
  <2>5. Received(d)'
    BY <1>5, <1>6, <2>1, <2>2 DEF InStep, Received, Open
  <2> QED BY <2>3, <2>4, <2>5 DEF InStep
<1> QED BY <1>8, <1>9 DEF ClientInv

(* The caller's own steps: it wakes, gives up, clears the event, reads.    *)
LEMMA CallerStep ==
  ASSUME TypeInv, NEW d \in Clients, ClientInv(d),
         Wakes(d) \/ TimesOut(d) \/ ClearsEvent(d) \/ ReadsMessage(d)
  PROVE  ClientInv(d)'
<1>1. UNCHANGED <<up, down, link, open, pending, recv_msg, executed>>
  BY DEF Wakes, TimesOut, ClearsEvent, ReadsMessage, board, net, thread
<1>2. cpc'[d] # "idle" => cpc[d] # "idle" /\ req'[d] = req[d] /\ seen'[d] = seen[d]
  BY DEF Wakes, TimesOut, ClearsEvent, ReadsMessage, EndCall, TypeInv
<1>3. PacketsOK(d)'
  BY <1>1, <1>2 DEF ClientInv, PacketsOK
<1>4. CASE TimesOut(d)
  <2>1. disturbed'[d]
    BY <1>4 DEF TimesOut, TypeInv
  <2> QED BY <1>3, <2>1 DEF ClientInv
<1>5. CASE Wakes(d)
  <2>1. /\ cpc[d] = "wait" /\ cpc'[d] = "awake" /\ event[d]
        /\ UNCHANGED <<event, req, seen, disturbed>>
    BY <1>5 DEF Wakes, thread, TypeInv
  <2>2. ASSUME ~disturbed[d] PROVE Asked(d)' /\ Returning(d)' /\ Received(d)'
    <3>1. InStep(d)
      BY <2>2 DEF ClientInv
    <3>2. Asked(d)'
      BY <1>1, <2>1, <3>1 DEF InStep, Asked, Open, IsLive
    <3>3. Returning(d)'
      BY <1>1, <2>1, <3>1 DEF InStep, Returning, Open
    <3>4. Received(d)'
      BY <1>1, <2>1, <3>1 DEF InStep, Received, Open, IsReply
    <3> QED BY <3>2, <3>3, <3>4
  <2> QED BY <1>3, <2>1, <2>2 DEF ClientInv, InStep
<1>6. CASE ClearsEvent(d)
  <2>1. /\ cpc[d] = "awake" /\ cpc'[d] = "cleared" /\ ~event'[d]
        /\ UNCHANGED <<req, seen, disturbed>>
    BY <1>6 DEF ClearsEvent, Cleared, TypeInv
  <2>2. ASSUME ~disturbed[d] PROVE Asked(d)' /\ Returning(d)' /\ Received(d)'
    <3>1. InStep(d)
      BY <2>2 DEF ClientInv
    <3>2. Asked(d)'
      BY <1>1, <2>1, <3>1 DEF InStep, Asked, Open, IsLive
    <3>3. Returning(d)'
      BY <1>1, <2>1, <3>1 DEF InStep, Returning, Open
    <3>4. Received(d)'
      BY <1>1, <2>1, <3>1 DEF InStep, Received, Open, IsReply
    <3> QED BY <3>2, <3>3, <3>4
  <2> QED BY <1>3, <2>1, <2>2 DEF ClientInv, InStep
<1>7. CASE ReadsMessage(d)
  <2>1. /\ cpc[d] = "cleared" /\ cpc'[d] = "idle"
        /\ UNCHANGED <<event, disturbed>>
    BY <1>7 DEF ReadsMessage, EndCall, thread, TypeInv
  <2>2. ASSUME ~disturbed[d] PROVE Asked(d)' /\ Returning(d)' /\ Received(d)'
    <3>1. InStep(d)
      BY <2>2 DEF ClientInv
    <3>2. Asked(d)'
      BY <1>1, <2>1, <3>1 DEF InStep, Asked, Open, IsLive
    <3>3. Returning(d)'
      BY <1>1, <2>1, <3>1 DEF InStep, Returning, Open
    <3>4. Received(d)'
      BY <1>1, <2>1, <3>1 DEF InStep, Received, Open
    <3> QED BY <3>2, <3>3, <3>4
  <2> QED BY <1>3, <2>1, <2>2 DEF ClientInv, InStep
<1> QED BY <1>4, <1>5, <1>6, <1>7

(* The client's thread.                                                    *)
LEMMA ThreadStep ==
  ASSUME TypeInv, NEW d \in Clients, ClientInv(d), Receives(d) \/ SetsEvent(d)
  PROVE  ClientInv(d)'
<1>1. UNCHANGED <<up, link, open, executed, cpc, req, seen, disturbed>>
  BY DEF Receives, SetsEvent, board, net, caller
<1>2. CASE SetsEvent(d)
  <2>1. /\ pending[d] /\ ~pending'[d] /\ event'[d] /\ UNCHANGED <<down, recv_msg>>
    BY <1>2 DEF SetsEvent, net, TypeInv
  <2>2. PacketsOK(d)'
    BY <1>1, <2>1 DEF ClientInv, PacketsOK
  <2>3. ASSUME ~disturbed[d] PROVE Asked(d)' /\ Returning(d)' /\ Received(d)'
    <3>1. InStep(d)
      BY <2>3 DEF ClientInv
    <3>2. Asked(d)'
      BY <1>1, <2>1, <3>1 DEF InStep, Asked, Open, IsLive
    <3>3. Returning(d)'
      BY <1>1, <2>1, <3>1 DEF InStep, Returning, Open
    <3>4. Received(d)'
      BY <1>1, <2>1, <3>1 DEF InStep, Received, Open, IsReply
    <3> QED BY <3>2, <3>3, <3>4
  <2> QED BY <1>1, <2>2, <2>3 DEF ClientInv, InStep
<1>3. CASE Receives(d)
  <2>1. IsSeq(down[d]) /\ down[d] # <<>>
    BY <1>3 DEF ClientInv, PacketsOK, Receives
  <2>2. /\ IsSeq(Tail(down[d])) /\ Len(Tail(down[d])) = Len(down[d]) - 1
        /\ Len(down[d]) \in Nat \ {0} /\ Head(down[d]) = down[d][1]
        /\ \A k \in 1 .. Len(Tail(down[d])) : Tail(down[d])[k] = down[d][k + 1]
        /\ Tail(down[d]) # <<>> => Len(Tail(down[d])) # 0
    BY <2>1, SeqTail, SeqLen
  <2>3. /\ ~pending[d] /\ pending'[d] /\ UNCHANGED event
        /\ recv_msg'[d] = down[d][1]
        /\ down'[d] = IF d \in TcpClients /\ down[d][1] = <<>> THEN down[d]
                      ELSE Tail(down[d])
    BY <1>3, <2>2 DEF Receives, TypeInv
  <2>4. 1 \in 1 .. Len(down[d])
    BY <2>2
  <2>5. PacketsOK(d)'
    <3>1. IsSeq(down'[d])
      BY <2>1, <2>2, <2>3
    <3>2. \A k \in 1 .. Len(down'[d]) :
            Message(down'[d][k]) /\ BackedBy(d, executed, down'[d][k])
      <4> SUFFICES ASSUME NEW k \in 1 .. Len(down'[d])
                   PROVE  \E i \in 1 .. Len(down[d]) : down'[d][k] = down[d][i]
        BY DEF ClientInv, PacketsOK
      <4>1. CASE down'[d] = down[d]
        BY <4>1
      <4>2. CASE down'[d] = Tail(down[d])
        <5>1. k + 1 \in 1 .. Len(down[d]) /\ down'[d][k] = down[d][k + 1]
          BY <2>2, <4>2
        <5> QED BY <5>1
      <4> QED BY <2>3, <4>1, <4>2
    <3>3. Message(recv_msg'[d]) /\ BackedBy(d, executed, recv_msg'[d])
      BY <2>3, <2>4 DEF ClientInv, PacketsOK
    <3> QED BY <1>1, <3>1, <3>2, <3>3 DEF ClientInv, PacketsOK
  <2>6. ASSUME ~disturbed[d] PROVE Asked(d)' /\ Returning(d)' /\ Received(d)'
    <3>1. InStep(d)
      BY <2>6 DEF ClientInv
    <3>2. Asked(d)'
      <4>1. Open(d) => \A k \in 1 .. Len(up[d]) : ~IsLive(d, k)
        BY <2>1, <3>1 DEF InStep, Asked
      <4> QED BY <1>1, <4>1 DEF Asked, Open, IsLive
    <3>3. CASE down[d][1] = <<>>
      <4>1. ~Open(d)
        BY <2>4, <3>1, <3>3 DEF InStep, Returning
      <4>2. ~Open(d)' /\ recv_msg'[d] = <<>>
        BY <1>1, <2>3, <3>3, <4>1 DEF Open
      <4>3. Received(d)'
        BY <4>2 DEF Received
      <4>4. d \in TcpClients /\ down'[d] = down[d]
        BY <2>3, <3>3, <4>1 DEF Open, Clients
      <4>5. Returning(d)'
        BY <3>1, <3>3, <4>2, <4>4 DEF InStep, Returning
      <4> QED BY <3>2, <4>3, <4>5
    <3>4. CASE down[d][1] # <<>>
      <4>1. /\ down'[d] = Tail(down[d]) /\ cpc[d] = "wait"
            /\ IsReply(d, down[d][1]) /\ ~event[d]
        BY <2>1, <2>3, <3>1, <3>4 DEF InStep, Returning
      <4>2. \A k \in 1 .. Len(down'[d]) : down'[d][k] = <<>> /\ ~Open(d)
        <5> SUFFICES ASSUME NEW k \in 1 .. Len(down'[d])
                     PROVE  down'[d][k] = <<>> /\ ~Open(d)
          OBVIOUS
        <5>1. /\ k + 1 \in 1 .. Len(down[d]) /\ k + 1 > 1
              /\ down'[d][k] = down[d][k + 1]
          BY <2>2, <4>1
        <5> QED BY <3>1, <5>1 DEF InStep, Returning
      <4>3. Returning(d)'
        <5>1. down'[d] # <<>> => 1 \in 1 .. Len(down'[d])
          BY <2>2, <4>1
        <5> QED BY <1>1, <4>2, <5>1 DEF Returning, Open
      <4>4. Received(d)'
        BY <1>1, <2>3, <3>4, <4>1 DEF Received, IsReply
      <4> QED BY <3>2, <4>3, <4>4
    <3> QED BY <3>3, <3>4
  <2> QED BY <1>1, <2>5, <2>6 DEF ClientInv, InStep
<1> QED BY <1>2, <1>3

LEMMA RelinkStep ==
  ASSUME TypeInv, NEW d \in Clients, ClientInv(d), Relink(d)
  PROVE  ClientInv(d)'
<1>1. /\ cpc[d] = "idle" /\ link'[d] = link[d] + 1 /\ link[d] \in Nat
      /\ ~event'[d] /\ ~pending'[d] /\ recv_msg'[d] = <<>>
      /\ UNCHANGED <<executed, cpc, req, seen>>
  BY DEF Relink, TypeInv, board
<1>2. Received(d)'
  BY <1>1 DEF Received
<1>3. Message(<<>>) /\ BackedBy(d, executed, <<>>)
  BY DEF Message, BackedBy
<1>4. \A k \in 1 .. Len(up[d]) : /\ up[d][k][1].of = d
                                 /\ up[d][k][1].link <= link[d]
                                 /\ up[d][k][1].link \in Nat
  BY UpTypes DEF ClientInv, PacketsOK, Requests
<1>5. CASE d \in TcpClients
  <2> DEFINE kind == IF down[d] = <<>> THEN "fin" ELSE "rst"
             r == Request(d, kind, 0, 1, calls)
             q == Append(up[d], <<r>>)
  <2>1. /\ up' = [up EXCEPT ![d] = q] /\ down' = [down EXCEPT ![d] = <<>>]
        /\ d \notin UdpClients
    BY <1>5, ConstantTypes DEF Relink
  <2>2. r \in Requests /\ r.of = d /\ r.link = link[d]
    <3>1. /\ kind \in Kinds \cup {"fin", "rst"} /\ calls \in Nat
          /\ 0 \in 0 .. Words - 1 /\ 1 \in 1 .. Words
      BY ConstantTypes DEF TypeInv
    <3> HIDE DEF kind
    <3> QED BY <3>1, NewRequest
  <2> HIDE DEF r
  <2>3. /\ Len(up[d]) \in Nat /\ Len(q) = Len(up[d]) + 1
        /\ q[Len(up[d]) + 1] = <<r>>
        /\ \A k \in 1 .. Len(up[d]) : q[k] = up[d][k]
    BY <2>2, UpTypes, SingleIsPacket, AppendProperties
  <2> HIDE DEF q
  <2>4. up'[d] = q /\ down'[d] = <<>>
    BY <2>1 DEF TypeInv
  <2>5. ASSUME NEW k \in 1 .. Len(q)
        PROVE  /\ q[k][1].of = d /\ q[k][1].link <= link'[d]
               /\ q[k][1].link # link'[d]
    <3>1. CASE k \in 1 .. Len(up[d])
      BY <1>1, <1>4, <2>3, <3>1
    <3>2. CASE k = Len(up[d]) + 1
      <4>1. q[k][1] = r
        BY <2>3, <3>2
      <4> QED BY <1>1, <2>2, <4>1
    <3> QED BY <2>3, <3>1, <3>2
  <2>6. PacketsOK(d)'
    BY <1>1, <1>3, <2>4, <2>5, EmptyIsSeq DEF ClientInv, PacketsOK
  <2>7. Asked(d)'
    BY <2>1, <2>4, <2>5 DEF Asked, IsLive
  <2>8. Returning(d)'
    BY <2>4, EmptyIsSeq DEF Returning
  <2> QED BY <1>2, <2>6, <2>7, <2>8 DEF ClientInv, InStep
<1>6. CASE d \notin TcpClients
  <2>1. UNCHANGED <<up, down, open, disturbed>> /\ d \in UdpClients
    BY <1>6 DEF Relink, Clients
  <2>2. PacketsOK(d)'
    BY <1>1, <1>3, <1>4, <2>1 DEF ClientInv, PacketsOK
  <2>3. ASSUME ~disturbed[d] PROVE Asked(d)' /\ Returning(d)'
    <3>1. InStep(d)
      BY <2>3 DEF ClientInv
    <3>2. down[d] = <<>> /\ \A k \in 1 .. Len(up[d]) : ~IsLive(d, k)
      BY <1>1, <2>1, <3>1, NothingLeft DEF ClientInv, Open
    <3> QED BY <2>1, <3>2, EmptyIsSeq DEF Asked, Returning, IsLive
  <2> QED BY <1>2, <2>1, <2>2, <2>3 DEF ClientInv, InStep
<1> QED BY <1>5, <1>6

-----------------------------------------------------------------------------
(* The servers, the network and the reset.                                 *)

LEMMA KindsDiffer ==
  /\ WriteKinds \subseteq MemoryKinds /\ BulkKinds \subseteq MemoryKinds
  /\ "private" \notin MemoryKinds /\ "zeros" \notin MemoryKinds
BY DEF WriteKinds, BulkKinds, MemoryKinds

(* The reply to a request that came in a packet of its own is right.       *)
LEMMA ReplyIsRight ==
  ASSUME TypeInv, NEW d \in Clients, NEW s \in Servers, s = ServerOf(d),
         NEW r \in Requests, r.of = d, r.kind \in Kinds, cpc[d] # "idle",
         ~TooLong(s, r, RequestLen(r)),
         r.kind \in MemoryKinds => Execute(s, r, RequestLen(r))
  PROVE  ReplyTo(r, seen'[d], executed', <<Reply(s, r, RequestLen(r))>>)
<1> DEFINE n == RequestLen(r)
           h == Reply(s, r, n)
<1>1. /\ r.words \in 1 .. Words /\ r.addr \in 0 .. Words - 1 /\ Words \in Nat
      /\ r.addr \in Nat /\ r.words \in Nat
  BY ConstantTypes DEF Requests
<1>2. <<h>>[1] = h /\ h.of = d /\ h.id = r.id
      /\ h.kind = IF r.kind = "private" THEN "zeros" ELSE r.kind
  BY DEF Reply
<1>3. ASSUME r.kind \in BulkKinds PROVE h.len <= MaxReply[ServerOf(r.of)]
  <2>1. MaxReply[s] \in Nat
    BY ConstantTypes
  <2>2. CASE r.kind = "rbulk"
    <3>1. n = 14
      BY <2>2 DEF RequestLen, I2cKinds
    <3>2. h.len = 14 + 4 * r.words
      BY <2>2, <3>1 DEF Reply, LengthOf, I2cKinds
    <3>3. ~(14 + 4 * r.words > MaxReply[s])
      BY <2>2, <3>1 DEF TooLong, LengthOf, I2cKinds
    <3> QED BY <1>1, <2>1, <3>2, <3>3
  <2>3. CASE r.kind = "wbulk"
    <3>1. n = 14 + 4 * r.words
      BY <2>3 DEF RequestLen, I2cKinds
    <3>2. h.len = (14 + 4 * r.words) - 4 * r.words
      BY <2>3, <3>1 DEF Reply, LengthOf, I2cKinds
    <3>3. ~(14 + 4 * r.words > MaxReply[s])
      BY <2>3 DEF TooLong
    <3> QED BY <1>1, <2>1, <3>2, <3>3
  <2> QED BY <1>3, <2>2, <2>3 DEF BulkKinds
<1>4. ASSUME r.kind \in {"read", "rbulk"}
      PROVE  \E m \in seen'[d] : h.data = Result(r, m)
  <2>1. Execute(s, r, n)
    BY <1>4 DEF MemoryKinds
  <2>2. mem' = mem /\ mem' \in seen'[d]
    BY <1>4, <2>1 DEF Execute, Written, Remember
  <2>3. h.data = Result(r, mem)
    <3>1. CASE r.kind = "read"
      <4>1. h.data = <<mem[r.addr]>>
        BY <3>1 DEF Reply
      <4>2. Result(r, mem) = [i \in 1 .. 1 |-> mem[r.addr + i - 1]]
        BY <3>1 DEF Result, Slice
      <4>3. r.addr + 1 - 1 = r.addr
        BY <1>1
      <4>4. <<mem[r.addr]>> = [i \in 1 .. 1 |-> mem[r.addr + i - 1]]
        BY <4>3
      <4> QED BY <4>1, <4>2, <4>4
    <3>2. CASE r.kind = "rbulk"
      BY <3>2 DEF Reply, WordsRead, Result
    <3> QED BY <1>4, <3>1, <3>2
  <2> QED BY <2>2, <2>3
<1>5. r.kind \in WriteKinds => r \in executed'
  BY KindsDiffer DEF Execute, WriteKinds
<1> HIDE DEF h
<1> QED BY <1>2, <1>3, <1>4, <1>5 DEF ReplyTo, h, n

LEMMA AnswerStep ==
  ASSUME TypeInv, NEW d \in Clients, ClientInv(d), Served(d), Answers(d)
  PROVE  ClientInv(d)'
<1> DEFINE r == up[d][1][1]
           n == TotalLen(up[d][1])
<1>1. PICK s \in Servers :
        /\ s = ServerOf(d) /\ Open(d) /\ IsLive(d, 1) /\ r.kind \in Kinds
        /\ down' = [down EXCEPT ![d] = Append(down[d], <<Reply(s, r, n)>>)]
        /\ UNCHANGED <<open, client_pcb>> /\ ~TooLong(s, r, n)
        /\ r.kind \in MemoryKinds => Execute(s, r, n)
  BY DEF Answers
<1> DEFINE m == <<Reply(s, r, n)>>
<1>2. /\ up[d] # <<>> /\ up' = [up EXCEPT ![d] = Tail(up[d])]
      /\ r \in Requests /\ UNCHANGED <<link, faults, thread, caller>>
  BY Taken
<1>3. /\ Same(d) /\ Grows(d) /\ Fewer(d) /\ disturbed' = disturbed
      /\ up'[d] = Tail(up[d])
  BY <1>2, Done DEF Same, Grows, Fewer, thread, caller, TypeInv
<1>4. r.of = d /\ 1 \in 1 .. Len(up[d])
  BY <1>2, UpTypes DEF ClientInv, PacketsOK
<1>5. down'[d] = Append(down[d], m)
  BY <1>1 DEF TypeInv
<1>6. Message(m) /\ BackedBy(d, executed', m)
  <2>1. Message(m)
    BY DEF Message
  <2>2. ASSUME m[1].kind \in WriteKinds
        PROVE  /\ r \in executed' /\ r.kind = m[1].kind
               /\ r.addr = m[1].addr /\ r.words = m[1].words
    <3>1. m[1].kind = (IF r.kind = "private" THEN "zeros" ELSE r.kind)
          /\ m[1].addr = r.addr /\ m[1].words = r.words
      BY DEF Reply
    <3> HIDE DEF r, n, m
    <3>2. r.kind = m[1].kind
      BY <2>2, <3>1, KindsDiffer
    <3>3. r.kind \in MemoryKinds /\ r.kind \in {"write", "wbulk"}
      BY <2>2, <3>2, KindsDiffer DEF WriteKinds
    <3>4. Execute(s, r, n)
      BY <1>1, <3>3 DEF r, n
    <3> QED BY <3>1, <3>2, <3>3, <3>4 DEF Execute
  <2> HIDE DEF r, m
  <2>3. BackedBy(d, executed', m)
    BY <1>4, <2>2 DEF BackedBy
  <2> QED BY <2>1, <2>3
<1>7. ASSUME ~disturbed'[d]
      PROVE  /\ cpc[d] = "wait" /\ up[d][1] = <<req[d]>>
             /\ down[d] = <<>> /\ ~pending[d] /\ ~event[d]
             /\ \A l \in 1 .. Len(up[d]) : IsLive(d, l) => l = 1
  BY <1>1, <1>3, <1>4, <1>7 DEF ClientInv, InStep, Asked
<1>8. ASSUME ~disturbed'[d] PROVE ReplyTo(req[d], seen'[d], executed', m)
  <2>1. r = req[d] /\ cpc[d] = "wait" /\ up[d][1] = <<r>>
    BY <1>7, <1>8
  <2>2. RequestLen(r) \in Nat
    <3>1. r.words \in Nat
      BY <1>2, ConstantTypes DEF Requests
    <3> HIDE DEF r
    <3> QED BY <3>1 DEF RequestLen
  <2>3. n = RequestLen(r)
    BY <2>1, <2>2, OneRequest
  <2> HIDE DEF r, n
  <2> QED BY <1>1, <1>2, <1>4, <2>1, <2>3, ReplyIsRight DEF r
<1> HIDE DEF m, r, n
<1>9. /\ IsSeq(down'[d]) /\ Len(down'[d]) = Len(down[d]) + 1
      /\ Len(down[d]) \in Nat /\ down'[d][Len(down[d]) + 1] = m
      /\ \A k \in 1 .. Len(down[d]) : down'[d][k] = down[d][k]
  BY <1>5, SeqAppend, SeqLen DEF ClientInv, PacketsOK
<1>10. PacketsOK(d)'
  <2>1. \A k \in 1 .. Len(down'[d]) :
          down'[d][k] = m \/ (k \in 1 .. Len(down[d]) /\ down'[d][k] = down[d][k])
    <3>1. \A k \in 1 .. Len(down'[d]) : k \in 1 .. Len(down[d]) \/ k = Len(down[d]) + 1
      BY <1>9
    <3> QED BY <1>9, <3>1
  <2> QED BY <1>3, <1>6, <1>9, <2>1, FewerPackets DEF ClientInv, PacketsOK
<1>11. ASSUME ~disturbed'[d] PROVE InStep(d)'
  <2>1. Open(d)'
    BY <1>1, <1>2 DEF Open
  <2>2. Asked(d)'
    <3>1. \A k \in 1 .. Len(up'[d]) :
            /\ k + 1 \in 1 .. Len(up[d]) /\ up'[d][k] = up[d][k + 1] /\ k + 1 # 1
      <4>1. /\ Len(up'[d]) = Len(up[d]) - 1 /\ Len(up[d]) \in Nat
            /\ \A k \in 1 .. Len(up'[d]) : up'[d][k] = up[d][k + 1]
        BY <1>2, <1>3, UpTail
      <4> QED BY <4>1
    <3>2. \A k \in 1 .. Len(up'[d]) : ~IsLive(d, k + 1)
      BY <1>7, <1>11, <3>1
    <3>3. \A k \in 1 .. Len(up'[d]) : ~IsLive(d, k)'
      BY <1>2, <3>1, <3>2 DEF IsLive
    <3> QED BY <3>3 DEF Asked
  <2>3. Len(down'[d]) = 1 /\ down'[d][1] = m /\ m # <<>>
    <3>1. Len(down[d]) = 0
      BY <1>7, <1>11, EmptyIsSeq
    <3>2. m # <<>>
      BY DEF m
    <3> QED BY <1>9, <3>1, <3>2
  <2>4. Returning(d)'
    <3>1. \A k \in 1 .. Len(down'[d]) : k = 1
      BY <2>3
    <3> QED BY <1>3, <1>7, <1>8, <1>11, <2>3, <3>1 DEF Returning, IsReply, Same
  <2>5. Received(d)'
    BY <1>3, <1>7, <1>11 DEF Received, Same
  <2> QED BY <2>2, <2>4, <2>5 DEF InStep
<1> QED BY <1>10, <1>11 DEF ClientInv

LEMMA ServedStep ==
  ASSUME TypeInv, \A c \in Clients : ClientInv(c), NEW d \in Clients, Served(d),
         NEW c \in Clients
  PROVE  ClientInv(c)'
<1>1. /\ up[d] # <<>> /\ up' = [up EXCEPT ![d] = Tail(up[d])]
      /\ UNCHANGED <<link, faults, thread, caller>>
  BY Taken
<1>2. Same(c) /\ Grows(c) /\ Fewer(c) /\ disturbed' = disturbed
  BY <1>1, Done DEF Same, Grows, Fewer, thread, caller, TypeInv
<1>3. CASE Silent
  <2>1. UNCHANGED down[c] /\ (Open(c)' <=> Open(c))
    BY <1>1, <1>3 DEF Silent, Open
  <2> QED BY <1>2, <2>1, Untouched
<1>4. CASE Answers(d)
  <2>1. CASE c = d
    BY <1>4, <2>1, AnswerStep
  <2>2. CASE c # d
    <3>1. UNCHANGED down[c] /\ (Open(c)' <=> Open(c))
      BY <1>1, <1>4, <2>2 DEF Answers, Open, TypeInv
    <3> QED BY <1>2, <3>1, Untouched
  <2> QED BY <2>1, <2>2
<1>5. CASE Ends(d)
  <2>1. PICK ls : /\ CloseLinks(ls) /\ d \in TcpClients
                  /\ ls \subseteq {<<d, up[d][1][1].link>>, client_pcb}
    BY <1>5 DEF Ends
  <2>2. CASE c \in UdpClients
    <3>1. <<c, link[c]>> # <<d, up[d][1][1].link>>
      BY <2>1, <2>2, ConstantTypes
    <3>2. <<c, link[c]>> # client_pcb
      BY <2>2, ConstantTypes DEF TypeInv
    <3>3. UNCHANGED down[c] /\ (Open(c)' <=> Open(c))
      BY <2>1, <2>2, <3>1, <3>2 DEF CloseLinks, Open
    <3> QED BY <1>2, <3>3, Untouched
  <2>3. CASE c \notin UdpClients
    <3>1. c \in TcpClients /\ link'[c] = link[c]
      BY <1>1, <2>3 DEF Clients
    <3>2. CASE <<c, link[c]>> \in ls /\ link[c] \in open[c]
      <4>1. down'[c] = Append(down[c], <<>>) /\ Open(c) /\ ~Open(c)'
        BY <2>1, <2>3, <3>1, <3>2 DEF CloseLinks, Open
      <4> QED BY <1>2, <4>1, LinkEnds
    <3>3. CASE ~(<<c, link[c]>> \in ls /\ link[c] \in open[c])
      <4>1. UNCHANGED down[c] /\ (Open(c)' <=> Open(c))
        BY <2>1, <2>3, <3>1, <3>3 DEF CloseLinks, Open
      <4> QED BY <1>2, <4>1, Untouched
    <3> QED BY <3>2, <3>3
  <2> QED BY <2>2, <2>3
<1> QED BY <1>3, <1>4, <1>5, ServedHow DEF ClientInv

(* The network delivers the packet at the head once more.                  *)
LEMMA SeqOfAny ==
  ASSUME NEW S, NEW s \in Seq(S) PROVE IsSeq(s)
<1> DEFINE E == {s[k] : k \in 1 .. Len(s)}
<1>1. s \in [1 .. Len(s) -> S] /\ Len(s) \in Nat
  BY LenProperties
<1>2. s \in [1 .. Len(s) -> E]
  BY <1>1
<1> HIDE DEF E
<1>3. s \in Seq(E)
  BY <1>1, <1>2, SeqDef
<1> QED BY <1>3 DEF IsSeq, E

LEMMA SeqRepeat ==
  ASSUME NEW s, IsSeq(s), s # <<>>
  PROVE  /\ IsSeq(<<Head(s)>> \o s)
         /\ \A k \in 1 .. Len(<<Head(s)>> \o s) :
              \E i \in 1 .. Len(s) : (<<Head(s)>> \o s)[k] = s[i]
<1> DEFINE E == {s[k] : k \in 1 .. Len(s)}
           t == <<Head(s)>> \o s
<1>1. s \in Seq(E) /\ Len(s) \in Nat /\ Len(s) # 0 /\ Head(s) = s[1]
  BY SeqLen, SeqTail DEF IsSeq
<1>2. Head(s) \in E
  BY <1>1
<1>3. t \in Seq(E)
  <2> HIDE DEF E
  <2>1. <<Head(s)>> \in Seq(E)
    BY <1>2
  <2> QED BY <1>1, <2>1, ConcatProperties
<1> HIDE DEF t
<1>4. IsSeq(t)
  BY <1>3, SeqOfAny
<1>5. \A k \in 1 .. Len(t) : t[k] \in E
  <2> HIDE DEF E
  <2> QED BY <1>3, ElementOfSeq
<1> QED BY <1>4, <1>5 DEF t

LEMMA FaultStep ==
  ASSUME TypeInv, \A c \in Clients : ClientInv(c), NEW d \in Clients, Fault(d),
         NEW c \in Clients
  PROVE  ClientInv(c)'
<1>1. /\ d \in UdpClients
      /\ UNCHANGED <<board, link, open, client_pcb, thread, cpc, req, calls, seen>>
  BY DEF Fault
<1>2. Same(c) /\ Grows(c) /\ (Open(c)' <=> Open(c))
  BY <1>1 DEF Same, Grows, thread, board, Open
<1>3. ~disturbed'[c] => ~disturbed[c]
  BY DEF Fault, TypeInv
<1>4. CASE c # d
  <2>1. up'[c] = up[c] /\ down'[c] = down[c]
    BY <1>4 DEF Fault, LosesRequest, LosesReply, RepeatsRequest, RepeatsReply,
                TypeInv
  <2> QED BY <1>2, <1>3, <2>1, Untouched DEF Fewer
<1>5. CASE c = d /\ LosesRequest(d)
  <2>1. Fewer(c) /\ down'[c] = down[c]
    BY <1>5 DEF LosesRequest, Fewer, TypeInv
  <2> QED BY <1>2, <1>3, <2>1, Untouched
<1>6. CASE c = d /\ LosesReply(d)
  <2>1. down[d] # <<>> /\ down'[d] = Tail(down[d]) /\ up' = up
    BY <1>6 DEF LosesReply, TypeInv
  <2>2. /\ IsSeq(down'[d]) /\ Len(down'[d]) = Len(down[d]) - 1
        /\ Len(down[d]) \in Nat \ {0}
        /\ \A k \in 1 .. Len(down'[d]) : down'[d][k] = down[d][k + 1]
        /\ down'[d] # <<>> => Len(down'[d]) # 0
    BY <2>1, SeqTail, SeqLen DEF ClientInv, PacketsOK
  <2>3. \A k \in 1 .. Len(down'[d]) : k + 1 \in 1 .. Len(down[d]) /\ k + 1 > 1
    BY <2>2
  <2>4. PacketsOK(d)'
    <3>1. Fewer(d)
      BY <2>1 DEF Fewer
    <3> QED BY <1>2, <1>6, <2>2, <2>3, <3>1, FewerPackets DEF ClientInv, PacketsOK
  <2>5. ASSUME ~disturbed'[d] PROVE InStep(d)'
    <3>1. InStep(d) /\ Open(d)
      BY <1>1, <1>3, <1>6, <2>5 DEF ClientInv, Open
    <3>2. Asked(d)'
      BY <1>1, <2>1, <3>1 DEF InStep, Asked, Open, IsLive
    <3>3. Len(down'[d]) = 0
      <4>1. \A k \in 1 .. Len(down'[d]) : FALSE
        BY <2>2, <2>3, <3>1 DEF InStep, Returning
      <4>2. Len(down'[d]) \in Nat
        BY <2>2, SeqLen
      <4> QED BY <4>1, <4>2
    <3>4. Returning(d)'
      BY <2>2, <3>3 DEF Returning
    <3>5. Received(d)'
      BY <1>2, <1>6, <3>1, ReplyStays DEF InStep, Received, Same, Grows, IsReply
    <3> QED BY <3>2, <3>4, <3>5 DEF InStep
  <2> QED BY <1>6, <2>4, <2>5 DEF ClientInv
<1>7. CASE c = d /\ (RepeatsRequest(d) \/ RepeatsReply(d)) /\ disturbed'[d]
  <2>1. PacketsOK(d)
    BY DEF ClientInv
  <2>2. CASE RepeatsRequest(d)
    <3>1. /\ up[d] # <<>> /\ up'[d] = <<Head(up[d])>> \o up[d]
          /\ down'[d] = down[d]
      BY <2>2 DEF RepeatsRequest, TypeInv
    <3>2. \A k \in 1 .. Len(up'[d]) : \E i \in 1 .. Len(up[d]) : up'[d][k] = up[d][i]
      BY <3>1, UpTypes, SeqOfAny, SeqRepeat
    <3>3. PacketsOK(d)'
      BY <1>1, <2>1, <3>1, <3>2 DEF PacketsOK, board, thread
    <3> QED BY <1>7, <3>3 DEF ClientInv
  <2>3. CASE RepeatsReply(d)
    <3>1. /\ down[d] # <<>> /\ down'[d] = <<Head(down[d])>> \o down[d]
          /\ up'[d] = up[d]
      BY <2>3 DEF RepeatsReply, TypeInv
    <3>2. /\ IsSeq(down'[d])
          /\ \A k \in 1 .. Len(down'[d]) :
               \E i \in 1 .. Len(down[d]) : down'[d][k] = down[d][i]
      BY <2>1, <3>1, SeqRepeat DEF PacketsOK
    <3>3. PacketsOK(d)'
      BY <1>1, <2>1, <3>1, <3>2 DEF PacketsOK, board, thread
    <3> QED BY <1>7, <3>3 DEF ClientInv
  <2> QED BY <1>7, <2>2, <2>3
<1> QED BY <1>4, <1>5, <1>6, <1>7 DEF Fault, TypeInv

LEMMA ResetStep ==
  ASSUME TypeInv, NEW c \in Clients, ClientInv(c), Reset PROVE ClientInv(c)'
<1>1. /\ up'[c] = <<>> /\ UNCHANGED <<down, link, faults, thread, cpc, req, executed>>
      /\ disturbed'[c] = (disturbed[c] \/ c \in TcpClients)
  BY DEF Reset
<1>2. Same(c) /\ Fewer(c)
  BY <1>1 DEF Same, Fewer, thread
<1>3. Grows(c)
  BY <1>1 DEF Grows, Reset, Remember
<1>4. CASE c \in TcpClients
  <2>1. PacketsOK(c)'
    BY <1>1, <1>2, <1>3, FewerPackets DEF ClientInv, PacketsOK
  <2> QED BY <1>1, <1>4, <2>1 DEF ClientInv
<1>5. CASE c \notin TcpClients
  <2>1. Open(c)' <=> Open(c)
    BY <1>5 DEF Open, Clients
  <2> QED BY <1>1, <1>2, <1>3, <2>1, Untouched
<1> QED BY <1>4, <1>5

-----------------------------------------------------------------------------
LEMMA InvInit == Init => IInv
<1> SUFFICES ASSUME Init PROVE IInv
  OBVIOUS
<1>1. <<>> \in Seq(Packets)
  BY EmptySeq
<1>2. TypeInv
  BY <1>1, ConstantTypes DEF Init, TypeInv
<1>3. ASSUME NEW c \in Clients PROVE ClientInv(c)
  BY EmptyIsSeq DEF Init, ClientInv, PacketsOK, InStep, Asked, Returning,
                    Received, Message, BackedBy
<1> QED BY <1>2, <1>3 DEF IInv

LEMMA InvStep == IInv /\ [Next]_vars => IInv'
<1> SUFFICES ASSUME IInv, [Next]_vars PROVE IInv'
  OBVIOUS
<1>1. TypeInv /\ \A c \in Clients : ClientInv(c) /\ PacketsOK(c)
  BY DEF IInv, ClientInv
<1>2. TypeInv'
  BY <1>1, TypeStep
<1>3. ASSUME NEW d \in Clients, Issue(d) \/ Alone(d) \/ Relink(d), NEW c \in Clients
      PROVE  ClientInv(c)'
  <2>1. CASE c = d
    BY <1>1, <1>3, <2>1, IssueStep, CallerStep, ThreadStep, RelinkStep DEF Alone
  <2>2. CASE c # d
    <3>1. CASE Issue(d)
      <4>1. Same(c) /\ Grows(c) /\ Fewer(c) /\ down'[c] = down[c]
            /\ (Open(c)' <=> Open(c)) /\ disturbed' = disturbed
        BY <1>1, <2>2, <3>1
        DEF Issue, Same, Grows, Fewer, Open, TypeInv, thread, board
      <4> QED BY <1>1, <4>1, Untouched
    <3>2. CASE Alone(d)
      <4>1. Same(c) /\ Grows(c) /\ Fewer(c) /\ down'[c] = down[c]
        BY <1>1, <2>2, <3>2
        DEF Alone, Wakes, TimesOut, ClearsEvent, ReadsMessage, Receives, SetsEvent,
            EndCall, Cleared, Same, Grows, Fewer, TypeInv, board, net, thread, caller
      <4>2. (Open(c)' <=> Open(c)) /\ (~disturbed'[c] => ~disturbed[c])
        BY <1>1, <2>2, <3>2
        DEF Alone, Wakes, TimesOut, ClearsEvent, ReadsMessage, Receives, SetsEvent,
            Open, TypeInv, net, caller
      <4> QED BY <1>1, <4>1, <4>2, Untouched
    <3>3. CASE Relink(d)
      <4>1. Same(c) /\ Grows(c) /\ Fewer(c) /\ down'[c] = down[c]
            /\ (~disturbed'[c] => ~disturbed[c])
        BY <1>1, <2>2, <3>3 DEF Relink, Same, Grows, Fewer, TypeInv, board
      <4>2. Open(c)' <=> Open(c)
        <5>1. link'[c] = link[c]
          BY <1>1, <2>2, <3>3 DEF Relink, TypeInv
        <5>2. c \in TcpClients => open'[c] = open[c]
          BY <1>1, <2>2, <3>3 DEF Relink, Accept, TypeInv
        <5> QED BY <5>1, <5>2 DEF Open, Clients
      <4> QED BY <1>1, <4>1, <4>2, Untouched
    <3> QED BY <1>3, <3>1, <3>2, <3>3
  <2> QED BY <2>1, <2>2
<1>4. ASSUME UNCHANGED vars, NEW c \in Clients PROVE ClientInv(c)'
  <2>1. /\ Same(c) /\ Grows(c) /\ Fewer(c) /\ down'[c] = down[c]
        /\ (Open(c)' <=> Open(c)) /\ disturbed' = disturbed
    BY <1>4 DEF vars, board, net, thread, caller, Same, Grows, Fewer, Open
  <2> QED BY <1>1, <2>1, Untouched
<1>5. ASSUME NEW c \in Clients PROVE ClientInv(c)'
  BY <1>1, <1>3, <1>4, Steps, ServedStep, FaultStep, ResetStep
<1> QED BY <1>2, <1>5 DEF IInv

LEMMA InvAlways == Spec => []IInv
BY InvInit, InvStep, PTL DEF Spec

(* What an undisturbed caller finds in recv_msg once it has cleared the    *)
(* event is the end of its TCP link or the reply to its own request.       *)
LEMMA Found ==
  ASSUME IInv, NEW c \in Clients, cpc[c] = "cleared", ~disturbed[c],
         recv_msg[c] # <<>>
  PROVE  ReplyTo(req[c], seen[c], executed, recv_msg[c])
BY DEF IInv, ClientInv, InStep, Received, IsReply

(* As long as no call of a socket timed out and none of its packets was    *)
(* repeated, every call reads the reply to its own request, although the   *)
(* replies carry no number and the event is not cleared before a request.  *)
THEOREM CallersGetTheirAnswers == Spec => []AnswersInStep
<1>1. IInv => AnswersInStep
  <2> SUFFICES ASSUME IInv, NEW c \in Clients, cpc[c] = "cleared", ~disturbed[c],
                      recv_msg[c] # <<>>
               PROVE  /\ Len(recv_msg[c]) = 1
                      /\ Head(recv_msg[c]).id = req[c].id
                      /\ Head(recv_msg[c]).of = c
                      /\ req[c].kind \in BulkKinds =>
                           Head(recv_msg[c]).len <= MaxReply[ServerOf(c)]
    BY DEF AnswersInStep
  <2> DEFINE m == recv_msg[c]
  <2>1. ReplyTo(req[c], seen[c], executed, m)
    BY Found
  <2>2. req[c].of = c
    BY DEF IInv, ClientInv, PacketsOK
  <2> HIDE DEF m
  <2>3. m = <<m[1]>>
    BY <2>1 DEF ReplyTo
  <2>4. Len(m) = 1 /\ Head(m) = m[1]
    BY <2>3
  <2> QED BY <2>1, <2>2, <2>4 DEF ReplyTo, m
<1> QED BY <1>1, InvAlways, PTL

(* An undisturbed read, of one word or of many, returns what memory held   *)
(* at one moment of the call, whoever else writes: a server's callback     *)
(* copies the words in one step.                                           *)
THEOREM ReadsSeeOneMoment == Spec => []ReadsAreAtomic
<1>1. IInv => ReadsAreAtomic
  <2> SUFFICES ASSUME IInv, NEW c \in Clients, cpc[c] = "cleared", ~disturbed[c],
                      Outcome(req[c], recv_msg[c]).status = "ok",
                      req[c].kind \in {"read", "rbulk"}
               PROVE  \E s \in seen[c] :
                        Outcome(req[c], recv_msg[c]).data = Result(req[c], s)
    BY DEF ReadsAreAtomic, Result
  <2> DEFINE r == req[c]
             m == recv_msg[c]
             Out == Outcome(r, m)
  <2>1. m # <<>>
    <3> SUFFICES ASSUME m = <<>> PROVE Out.status # "ok"
      OBVIOUS
    <3>1. CASE r.kind = "read"
      <4>1. Out = [status |-> "error", data |-> <<>>]
        BY <3>1 DEF Outcome
      <4> QED BY <4>1
    <3>2. CASE r.kind = "rbulk"
      <4>1. Out = [status |-> "error", data |-> <<>>]
        BY <3>2 DEF Outcome
      <4> QED BY <4>1
    <3> QED BY <3>1, <3>2
  <2>2. ReplyTo(r, seen[c], executed, m)
    BY <2>1, Found
  <2> HIDE DEF r, m
  <2>3. m = <<m[1]>> /\ m[1].kind = r.kind
    BY <2>2 DEF ReplyTo, r
  <2>4. Head(m) = m[1]
    BY <2>3
  <2>5. Out.data = m[1].data
    BY <2>3, <2>4 DEF Outcome, r, m
  <2> QED BY <2>2, <2>5 DEF ReplyTo, r, m
<1> QED BY <1>1, InvAlways, PTL

(* A write that is reported as done was carried out for this client, by    *)
(* the very request if the socket is undisturbed.                          *)
THEOREM AckedWritesHappened == Spec => []AckedWriteHappened
<1>1. IInv => AckedWriteHappened
  <2> SUFFICES ASSUME IInv, NEW c \in Clients, cpc[c] = "cleared",
                      req[c].kind \in {"write", "wbulk"},
                      Outcome(req[c], recv_msg[c]).status = "ok"
               PROVE  /\ \E w \in executed :
                           /\ w.of = c /\ w.kind = req[c].kind
                           /\ w.addr = req[c].addr
                           /\ (req[c].kind = "wbulk" => w.words = req[c].words)
                      /\ ~disturbed[c] => req[c] \in executed
    BY DEF AckedWriteHappened
  <2> DEFINE r == req[c]
             m == recv_msg[c]
             Out == Outcome(r, m)
  <2>1. m # <<>> /\ Echoes(r, Head(m))
    BY DEF Outcome
  <2>2. Message(m) /\ BackedBy(c, executed, m)
    BY DEF IInv, ClientInv, PacketsOK
  <2>3. ~disturbed[c] => ReplyTo(r, seen[c], executed, m)
    BY <2>1, Found
  <2> HIDE DEF r, m
  <2>4. m = <<m[1]>>
    BY <2>1, <2>2 DEF Message
  <2>5. Head(m) = m[1]
    BY <2>4
  <2>6. /\ m[1].kind = r.kind /\ m[1].addr = r.addr /\ m[1].words = r.words
    BY <2>1, <2>5 DEF Echoes
  <2>7. r.kind \in WriteKinds
    BY DEF WriteKinds, r
  <2>8. \E w \in executed : /\ w.of = c /\ w.kind = r.kind
                            /\ w.addr = r.addr /\ w.words = r.words
    BY <2>1, <2>2, <2>6, <2>7 DEF BackedBy
  <2> QED BY <2>3, <2>7, <2>8 DEF ReplyTo, r
<1> QED BY <1>1, InvAlways, PTL

=============================================================================
