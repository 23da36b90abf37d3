-------------------------- MODULE MCUpdateServers --------------------------
(***************************************************************************)
(* UpdateServers with files of two pieces.  The UDP client asks for the    *)
(* update area and the TCP clients for the golden one.                     *)
(***************************************************************************)
EXTENDS UpdateServers

Areas == [c \in Clients |-> IF c \in UdpClients THEN 0 ELSE 1]

=============================================================================
