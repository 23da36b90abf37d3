----------------------------- MODULE MCCmdLink -----------------------------
(* A client of each server and two words of memory.  UDP has room for      *)
(* replies of two words and TCP for one: a bulk write of two words is      *)
(* carried out and answered by closing the connection.                     *)
EXTENDS CmdLink

Call(kind, addr, words) == [kind |-> kind, addr |-> addr, words |-> words]

MCCalls == [c \in Clients |->
  IF c \in UdpClients
  THEN {Call("read", 0, 1), Call("write", 0, 1), Call("rbulk", 0, 2),
        Call("reset", 0, 1)}
  ELSE {Call("rbulk", 0, 1), Call("wbulk", 0, 2), Call("setch", 0, 1)}]
MCMaxLinks == [c \in Clients |-> IF c \in TcpClients THEN 2 ELSE 1]
MCMaxReply == [s \in Servers |-> IF s = "udp" THEN 22 ELSE 18]
=============================================================================
