------------------------------ MODULE CmdLink ------------------------------
(***************************************************************************)
(* Commands over the network: the UDP and the TCP command servers          *)
(* (udp_cmd.c, tcp_cmd.c), which read and write the board's memory, and    *)
(* the GUI's clients (memory_ops.py over udp_client.py or tcp_client.py):  *)
(* a caller that sends a request and waits for an event, and a thread that *)
(* receives into recv_msg and then sets the event.  No reply carries the   *)
(* number of its request, and the event is not cleared before a request.   *)
(*                                                                         *)
(* A callback is one step: both servers run inside xemacif_input.  Lengths *)
(* are in bytes, with the servers' limits scaled down; a value is the      *)
(* number of the request that wrote it.                                    *)
(***************************************************************************)
EXTENDS Naturals, Sequences

CONSTANTS
  UdpClients, TcpClients,
  None,
  Words,      \* memory is the words 0 .. Words - 1
  Calls,      \* the calls each client may make: [kind, addr, words]
  MaxReply,   \* each server's longest reply, in bytes
  MaxCalls,   \* bound: calls in all
  MaxFaults,  \* bound: packets lost or repeated
  MaxLinks    \* bound: how often each client opens its socket

Clients == UdpClients \cup TcpClients
Servers == {"udp", "tcp"}
ServerOf(c) == IF c \in UdpClients THEN "udp" ELSE "tcp"

(* What a call asks for; "fin" and "rst" are TCP's end of a connection.     *)
MemoryKinds == {"read", "write", "rbulk", "wbulk"}
I2cKinds == {"i2cread", "i2cwrite"}
VariableKinds == {"version", "getch", "setch", "reset", "config"}
OtherKinds == I2cKinds \cup VariableKinds \cup {"private"}
Kinds == MemoryKinds \cup OtherKinds
BulkKinds == {"rbulk", "wbulk"}

ASSUME CmdAssumption ==
  /\ None \notin Clients \cup Nat \cup (Clients \X Nat)
  /\ UdpClients \cap TcpClients = {}
  /\ Words \in Nat \ {0} /\ {MaxCalls, MaxFaults} \subseteq Nat
  /\ MaxLinks \in [Clients -> Nat \ {0}]
  /\ Calls \in [Clients ->
       SUBSET [kind : Kinds, addr : 0 .. Words - 1, words : 1 .. Words]]
  /\ \A c \in Clients : \A k \in Calls[c] : k.addr + k.words <= Words
  /\ MaxReply \in [Servers -> Nat]

VARIABLES
  mem,            \* the board's memory, written by both servers
  cerrent_ch,     \* the selected channel: a static of each server
  sendlen,        \* the last reply's length: a global of each server
  reset_pl,       \* ask transfer_data for a reset of the board
  up, down,       \* packets to and from each client; <<>> ends a TCP link
  link, open,     \* the client's socket, and which of them the server holds
  client_pcb,     \* the TCP connection accepted last
  event, recv_msg, pending,  \* the client: recieved_even, recv_msg, and
                             \* whether the thread has yet to set the event
  cpc, req,       \* the caller: where it is and its request
  calls, faults,  \* how many there were
  disturbed,      \* history: this socket may hold a reply of another call
  seen,           \* history: the contents of memory since each call began
  executed        \* history: the writes the servers carried out

board == <<mem, cerrent_ch, sendlen, reset_pl, executed>>
net == <<up, down, link, open, client_pcb, faults>>
thread == <<event, recv_msg, pending>>
caller == <<cpc, req, calls, disturbed>>
vars == <<board, net, thread, caller, seen>>

Values == 0 .. MaxCalls
Memories == [0 .. Words - 1 -> Values]

(* The words from a on.                                                    *)
Slice(m, a, n) == [i \in 1 .. n |-> m[a + i - 1]]

(* read_prepare and its like: the length of each request.                  *)
RequestLen(r) ==
  CASE r.kind = "wbulk" -> 14 + 4 * r.words
    [] r.kind \in {"read", "write", "rbulk"} -> 14
    [] r.kind \in I2cKinds -> 12
    [] r.kind \in {"setch", "reset"} -> 9
    [] r.kind = "private" -> 10
    [] OTHER -> 8

(* The length of a packet of requests.                                     *)
TotalLen(p) ==
  LET upto[k \in 0 .. Len(p)] ==
        IF k = 0 THEN 0 ELSE upto[k - 1] + RequestLen(p[k])
  IN  upto[Len(p)]

Init ==
  /\ mem = [a \in 0 .. Words - 1 |-> 0]
  /\ cerrent_ch = [s \in Servers |-> 0] /\ sendlen = [s \in Servers |-> 0]
  /\ reset_pl = FALSE
  /\ up = [c \in Clients |-> <<>>] /\ down = [c \in Clients |-> <<>>]
  /\ link = [c \in Clients |-> 1] /\ open = [c \in TcpClients |-> {1}]
  /\ client_pcb \in (TcpClients \X {1}) \cup {None}
  /\ client_pcb = None <=> TcpClients = {}
  /\ event = [c \in Clients |-> FALSE]
  /\ recv_msg = [c \in Clients |-> <<>>]
  /\ pending = [c \in Clients |-> FALSE]
  /\ cpc = [c \in Clients |-> "idle"] /\ req = [c \in Clients |-> None]
  /\ calls = 0 /\ faults = 0
  /\ disturbed = [c \in Clients |-> FALSE]
  /\ seen = [c \in Clients |-> {}] /\ executed = {}

-----------------------------------------------------------------------------
(* The caller.                                                             *)

Request(c, kind, addr, words, id) ==
  [of |-> c, link |-> link[c], id |-> id, kind |-> kind, addr |-> addr,
   words |-> words]

(* TCP may join a request to one that is still on its way.                 *)
SendTo(c, q, r) ==
  {Append(q, <<r>>)} \cup
  IF c \in TcpClients /\ q # <<>> /\ q[Len(q)][1].link = r.link
  THEN {[q EXCEPT ![Len(q)] = Append(@, r)]} ELSE {}

(* send; the event keeps what it holds.                                    *)
Issue(c) ==
  /\ cpc[c] = "idle" /\ calls < MaxCalls
  /\ \E k \in Calls[c] :
       LET r == Request(c, k.kind, k.addr, k.words, calls + 1)
       IN  /\ req' = [req EXCEPT ![c] = r]
           /\ \E q \in SendTo(c, up[c], r) : up' = [up EXCEPT ![c] = q]
  /\ calls' = calls + 1
  /\ cpc' = [cpc EXCEPT ![c] = "wait"]
  /\ seen' = [seen EXCEPT ![c] = {mem}]
  /\ UNCHANGED <<board, down, link, open, client_pcb, faults, thread,
                 disturbed>>

EndCall(c) ==
  /\ cpc' = [cpc EXCEPT ![c] = "idle"]
  /\ req' = [req EXCEPT ![c] = None]
  /\ seen' = [seen EXCEPT ![c] = {}]

(* recieved_even.wait(0.1) returns True: the event is set ...              *)
Wakes(c) ==
  /\ cpc[c] = "wait" /\ event[c]
  /\ cpc' = [cpc EXCEPT ![c] = "awake"]
  /\ UNCHANGED <<board, net, thread, req, calls, disturbed, seen>>

(* ... or False, and the call raises "Recv timeout".                       *)
TimesOut(c) ==
  /\ cpc[c] = "wait" /\ ~event[c]
  /\ EndCall(c)
  /\ disturbed' = [disturbed EXCEPT ![c] = TRUE]
  /\ UNCHANGED <<board, net, thread, calls>>

BugNotCleared(c) == event
Cleared(c) == [event EXCEPT ![c] = FALSE]

(* recieved_even.clear(), "must clear".                                    *)
ClearsEvent(c) ==
  /\ cpc[c] = "awake"
  /\ cpc' = [cpc EXCEPT ![c] = "cleared"]
  /\ event' = Cleared(c)
  /\ UNCHANGED <<board, net, recv_msg, pending, req, calls,
                 disturbed, seen>>

BugComparesAddress(r, h) == h.addr = r.addr
Echoes(r, h) == h.kind = r.kind /\ h.addr = r.addr /\ h.words = r.words

(* What call r makes of packet m, the end of a TCP link or one reply:      *)
(* read_reg compares nothing, write_reg the bytes up to the address, the   *)
(* bulk calls those up to the count.  The rest take what they find.        *)
Outcome(r, m) ==
  LET len == IF m = <<>> THEN 0 ELSE Head(m).len
      fails == [status |-> "error", data |-> <<>>]
      ok(data) == [status |-> "ok", data |-> data]
      same == m # <<>> /\ Echoes(r, Head(m))
  IN  CASE r.kind = "read" ->
             IF len < 13 THEN fails
             ELSE ok(IF Head(m).kind \in {"read", "write"} THEN Head(m).data
                     ELSE <<None>>)
        [] r.kind = "write" ->
             IF same /\ Head(m).len = RequestLen(r) THEN ok(<<>>)
             ELSE [fails EXCEPT !.status = "no"]
        [] r.kind = "rbulk" -> IF same THEN ok(Head(m).data) ELSE fails
        [] r.kind = "wbulk" ->
             IF same THEN ok(<<>>) ELSE [fails EXCEPT !.status = "no"]
        [] r.kind = "private" -> fails
        [] OTHER -> IF len < 8 THEN fails ELSE ok(<<>>)

(* The call returns Outcome(req[c], recv_msg[c]).                          *)
ReadsMessage(c) ==
  /\ cpc[c] = "cleared"
  /\ EndCall(c)
  /\ UNCHANGED <<board, net, thread, calls, disturbed>>

Accept(c, l) ==
  /\ open' = [open EXCEPT ![c] = @ \cup {l}]
  /\ client_pcb' = <<c, l>>

(* close and a new client object.  A TCP close with unread data resets the *)
(* connection; the UDP socket has the same port as the one before.         *)
Relink(c) ==
  /\ cpc[c] = "idle" /\ link[c] < MaxLinks[c]
  /\ link' = [link EXCEPT ![c] = @ + 1]
  /\ event' = [event EXCEPT ![c] = FALSE]
  /\ recv_msg' = [recv_msg EXCEPT ![c] = <<>>]
  /\ pending' = [pending EXCEPT ![c] = FALSE]
  /\ IF c \in TcpClients
     THEN LET kind == IF down[c] = <<>> THEN "fin" ELSE "rst"
          IN  /\ up' = [up EXCEPT ![c] =
                   Append(@, <<Request(c, kind, 0, 1, calls)>>)]
              /\ down' = [down EXCEPT ![c] = <<>>]
              /\ Accept(c, link[c] + 1)
              /\ disturbed' = [disturbed EXCEPT ![c] = FALSE]
     ELSE UNCHANGED <<up, down, open, client_pcb, disturbed>>
  /\ UNCHANGED <<board, faults, cpc, req, calls, seen>>

-----------------------------------------------------------------------------
(* The client's thread.                                                    *)

(* The end of a TCP connection is read again and again.                    *)
Receives(c) ==
  /\ ~pending[c] /\ down[c] # <<>>
  /\ recv_msg' = [recv_msg EXCEPT ![c] = Head(down[c])]
  /\ pending' = [pending EXCEPT ![c] = TRUE]
  /\ down' = IF c \in TcpClients /\ Head(down[c]) = <<>> THEN down
             ELSE [down EXCEPT ![c] = Tail(@)]
  /\ UNCHANGED <<board, up, link, open, client_pcb, faults, event, caller, seen>>

SetsEvent(c) ==
  /\ pending[c]
  /\ pending' = [pending EXCEPT ![c] = FALSE]
  /\ event' = [event EXCEPT ![c] = TRUE]
  /\ UNCHANGED <<board, net, recv_msg, caller, seen>>

-----------------------------------------------------------------------------
(* The servers: each command sets the length of its reply, or leaves the   *)
(* one of an earlier reply; n is the length of the packet it came in.      *)

(* The accesses to the bus are commented out.                              *)
I2cLength(r) == IF r.kind = "i2cread" THEN 7 + r.words ELSE RequestLen(r) + 1

VariableLength(s, r) ==
  CASE r.kind = "version" -> 12
    [] r.kind \in {"getch", "setch", "reset"} -> 9
    [] OTHER -> sendlen[s]

LengthOf(s, r, n) ==
  CASE r.kind \in {"read", "write"} -> n
    [] r.kind = "rbulk" -> n + 4 * r.words
    [] r.kind = "wbulk" -> n - 4 * r.words
    [] r.kind \in I2cKinds -> I2cLength(r)
    [] OTHER -> VariableLength(s, r)

Written(r) ==
  CASE r.kind = "write" -> [mem EXCEPT ![r.addr] = r.id]
    [] r.kind = "wbulk" -> [a \in DOMAIN mem |->
          IF a \in r.addr .. r.addr + r.words - 1 THEN r.id ELSE mem[a]]
    [] OTHER -> mem

(* memcpy(send_buf + receivelen - 1, ...): of a joined packet the words of *)
(* a bulk read are not where the client looks for them.                    *)
BugPastChecksum(r, n) == [i \in 1 .. r.words |-> None]
WordsRead(r, n) == IF n = RequestLen(r) THEN Slice(mem, r.addr, r.words)
                   ELSE [i \in 1 .. r.words |-> None]

Reply(s, r, n) ==
  [of |-> r.of, link |-> r.link, id |-> r.id, addr |-> r.addr,
   words |-> r.words, len |-> LengthOf(s, r, n),
   kind |-> IF r.kind = "private" THEN "zeros" ELSE r.kind,
   data |-> CASE r.kind = "read" -> <<mem[r.addr]>>
              [] r.kind = "write" -> <<r.id>>
              [] r.kind = "rbulk" -> WordsRead(r, n)
              [] OTHER -> <<>>]

(* What memory holds is seen by every call under way.                      *)
Remember(m) ==
  seen' = [c \in Clients |-> IF cpc[c] = "idle" THEN {} ELSE seen[c] \cup {m}]

Execute(s, r, n) ==
  /\ mem' = Written(r) /\ Remember(mem')
  /\ executed' = IF r.kind \in {"write", "wbulk"} THEN executed \cup {r}
                 ELSE executed

TooLong(s, r, n) ==
  \/ r.kind = "rbulk" /\ LengthOf(s, r, n) > MaxReply[s]
  \/ r.kind = "wbulk" /\ 14 + 4 * r.words > MaxReply[s]

Rest(q) == Tail(q)

(* The packet at hand, its first request, and the reply's way back.        *)
Got(c, kinds) ==
  /\ up[c] # <<>> /\ Head(up[c])[1].kind \in kinds
  /\ up' = [up EXCEPT ![c] = Rest(@)]
  /\ UNCHANGED <<link, faults, thread, caller>>

UdpAnswer(r, n) ==
  /\ down' = [down EXCEPT ![r.of] = Append(@, <<Reply("udp", r, n)>>)]
  /\ UNCHANGED <<open, client_pcb>>

SetLength(s, n) == sendlen' = [sendlen EXCEPT ![s] = n]

(* 0x10 to 0x13.  A bulk write is carried out before its length is looked  *)
(* at; a bulk read that is refused leaves its length behind.               *)
UdpMemory(c) ==
  LET p == Head(up[c])
      r == Head(p)
      n == TotalLen(p)
  IN  /\ c \in UdpClients /\ Got(c, MemoryKinds)
      /\ Execute("udp", r, n)
      /\ IF TooLong("udp", r, n)
         THEN /\ IF r.kind = "rbulk" THEN SetLength("udp", LengthOf("udp", r, n))
                 ELSE UNCHANGED sendlen
              /\ UNCHANGED <<down, open, client_pcb>>
         ELSE SetLength("udp", LengthOf("udp", r, n)) /\ UdpAnswer(r, n)
      /\ UNCHANGED <<cerrent_ch, reset_pl>>

(* 0x20 and 0x21, 0x40, and commands the server does not know.             *)
Other(s, r, n) ==
  /\ SetLength(s, LengthOf(s, r, n))
  /\ cerrent_ch' = IF r.kind = "setch" THEN [cerrent_ch EXCEPT ![s] = r.id]
                   ELSE cerrent_ch
  /\ reset_pl' = (reset_pl \/ r.kind = "reset")
  /\ UNCHANGED <<mem, seen, executed>>

UdpOther(c) ==
  LET r == Head(Head(up[c]))
      n == TotalLen(Head(up[c]))
  IN  /\ c \in UdpClients /\ Got(c, OtherKinds)
      /\ Other("udp", r, n) /\ UdpAnswer(r, n)

(* A connection the server does not hold answers nothing.                  *)
Held(c) == up[c] # <<>> /\ Head(up[c])[1].link \in open[c]

(* p->len is read after pbuf_free: it may be anything, and the reply is    *)
(* sent or "no space in tcp_sndbuf".                                       *)
TcpAnswer(c, r, n) ==
  /\ \/ r.link = link[c] /\ LengthOf("tcp", r, n) > 0
        /\ down' = [down EXCEPT ![c] = Append(@, <<Reply("tcp", r, n)>>)]
     \/ UNCHANGED down
  /\ UNCHANGED <<open, client_pcb>>

(* tcp_server_close: the client reads the end of the connection.           *)
CloseLinks(ls) ==
  /\ open' = [c \in TcpClients |-> {l \in open[c] : <<c, l>> \notin ls}]
  /\ down' = [c \in Clients |->
       IF <<c, link[c]>> \in ls /\ link[c] \in open[c]
       THEN Append(down[c], <<>>) ELSE down[c]]

TcpMemory(c) ==
  LET p == Head(up[c])
      r == Head(p)
      n == TotalLen(p)
  IN  /\ c \in TcpClients /\ Held(c) /\ Got(c, MemoryKinds)
      /\ Execute("tcp", r, n)
      /\ SetLength("tcp", LengthOf("tcp", r, n))
      /\ IF TooLong("tcp", r, n)
         THEN CloseLinks({<<c, r.link>>}) /\ UNCHANGED client_pcb
         ELSE TcpAnswer(c, r, n)
      /\ UNCHANGED <<cerrent_ch, reset_pl>>

TcpOther(c) ==
  LET r == Head(Head(up[c]))
      n == TotalLen(Head(up[c]))
  IN  /\ c \in TcpClients /\ Held(c) /\ Got(c, OtherKinds)
      /\ Other("tcp", r, n) /\ TcpAnswer(c, r, n)

(* p is NULL: the client closed.                                           *)
TcpClosed(c) ==
  /\ c \in TcpClients /\ Held(c)
  /\ LET l == Head(up[c])[1].link
     IN  Got(c, {"fin"}) /\ CloseLinks({<<c, l>>})
  /\ UNCHANGED <<board, client_pcb, seen>>

(* The client reset the connection: lwIP frees its pcb, and tcp_server_err *)
(* closes client_pcb, whichever connection that is.                        *)
TcpServerErr(c) ==
  /\ c \in TcpClients /\ Held(c)
  /\ LET l == Head(up[c])[1].link
     IN  Got(c, {"rst"}) /\ CloseLinks({<<c, l>>, client_pcb})
  /\ client_pcb' = None
  /\ UNCHANGED <<board, seen>>

(* Packets of a connection the server has closed.                          *)
TcpRefused(c) ==
  /\ c \in TcpClients /\ up[c] # <<>> /\ ~Held(c)
  /\ Got(c, Kinds \cup {"fin", "rst"})
  /\ UNCHANGED <<board, down, open, client_pcb, seen>>

(* transfer_data: the board starts anew.                                   *)
Reset ==
  /\ reset_pl
  /\ mem' = [a \in DOMAIN mem |-> 0] /\ Remember(mem')
  /\ cerrent_ch' = [s \in Servers |-> 0] /\ sendlen' = [s \in Servers |-> 0]
  /\ reset_pl' = FALSE
  /\ up' = [c \in Clients |-> <<>>]
  /\ open' = [c \in TcpClients |-> {}] /\ client_pcb' = None
  /\ disturbed' = [c \in Clients |-> disturbed[c] \/ c \in TcpClients]
  /\ UNCHANGED <<down, link, faults, thread, cpc, req, calls, executed>>

-----------------------------------------------------------------------------
(* The network, for UDP.                                                   *)

LosesRequest(c) == up[c] # <<>> /\ up' = [up EXCEPT ![c] = Tail(@)] /\ UNCHANGED down
LosesReply(c) == down[c] # <<>> /\ down' = [down EXCEPT ![c] = Tail(@)] /\ UNCHANGED up
RepeatsRequest(c) ==
  /\ up[c] # <<>> /\ up' = [up EXCEPT ![c] = <<Head(@)>> \o @] /\ UNCHANGED down
RepeatsReply(c) ==
  /\ down[c] # <<>> /\ down' = [down EXCEPT ![c] = <<Head(@)>> \o @] /\ UNCHANGED up

Fault(c) ==
  /\ c \in UdpClients /\ faults < MaxFaults
  /\ faults' = faults + 1
  /\ \/ (LosesRequest(c) \/ LosesReply(c)) /\ UNCHANGED disturbed
     \/ /\ RepeatsRequest(c) \/ RepeatsReply(c)
        /\ disturbed' = [disturbed EXCEPT ![c] = TRUE]
  /\ UNCHANGED <<board, link, open, client_pcb, thread, cpc, req, calls, seen>>

Next ==
  \/ \E c \in Clients :
       \/ Issue(c) \/ Wakes(c) \/ TimesOut(c) \/ ClearsEvent(c)
       \/ ReadsMessage(c) \/ Relink(c) \/ Receives(c) \/ SetsEvent(c)
       \/ UdpMemory(c) \/ UdpOther(c) \/ TcpMemory(c) \/ TcpOther(c)
       \/ TcpClosed(c) \/ TcpServerErr(c) \/ TcpRefused(c)
       \/ Fault(c)
  \/ Reset

Spec == Init /\ [][Next]_vars

-----------------------------------------------------------------------------
(* As long as no call on this socket timed out and no packet was repeated, *)
(* the message a caller reads is one of its own replies: the server's to   *)
(* the request it has just sent, in the length that command's reply has.   *)
(* A new TCP connection starts clean again.                                *)
AnswersInStep ==
  \A c \in Clients :
    cpc[c] = "cleared" /\ ~disturbed[c] =>
      \/ recv_msg[c] = <<>>
      \/ /\ Len(recv_msg[c]) = 1
         /\ Head(recv_msg[c]).id = req[c].id /\ Head(recv_msg[c]).of = c
         /\ req[c].kind \in BulkKinds => Head(recv_msg[c]).len <= MaxReply[ServerOf(c)]

(* A read returns what memory held at one moment of the call, all words of *)
(* a bulk read together, although the other server's clients write.        *)
ReadsAreAtomic ==
  \A c \in Clients :
    cpc[c] = "cleared" /\ ~disturbed[c] =>
      LET r == req[c]
          result == Outcome(r, recv_msg[c])
      IN  result.status = "ok" /\ r.kind \in {"read", "rbulk"} =>
            \E m \in seen[c] :
              result.data = Slice(m, r.addr, IF r.kind = "read" THEN 1 ELSE r.words)

(* A write that is reported as done was done, by a request of this client  *)
(* to these words, if not always by the one just sent: whatever was lost,  *)
(* repeated, late or joined.                                               *)
AckedWriteHappened ==
  \A c \in Clients :
    LET r == req[c] IN
    /\ cpc[c] = "cleared" /\ r.kind \in {"write", "wbulk"}
    /\ Outcome(r, recv_msg[c]).status = "ok"
    => /\ \E w \in executed : w.of = c /\ w.kind = r.kind /\ w.addr = r.addr
                              /\ (r.kind = "wbulk" => w.words = r.words)
       /\ ~disturbed[c] => r \in executed
=============================================================================
