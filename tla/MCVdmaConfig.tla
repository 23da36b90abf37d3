--------------------------- MODULE MCVdmaConfig ----------------------------
(***************************************************************************)
(* Three engines: the two with pages, 17 or 32 stores and fewer, and one   *)
(* of the others; both widths; engines with one channel.                   *)
(***************************************************************************)
EXTENDS VdmaConfig

H(width, stores, s2mm, mm2s) ==
  [width |-> width, stores |-> stores, s2mm |-> s2mm, mm2s |-> mm2s]
MCHardware ==
  {[e \in 0 .. 2 |-> CASE e = 0 -> a [] e = 1 -> b [] e = 2 -> c] :
     a \in {H(32, 17, TRUE, TRUE), H(32, 3, FALSE, TRUE), H(64, 3, TRUE, TRUE)},
     b \in {H(32, 32, TRUE, TRUE), H(64, 2, TRUE, FALSE)},
     c \in {H(32, 3, TRUE, TRUE), H(64, 1, FALSE, TRUE)}}
  \cup {[e \in 0 .. 2 |-> H(w, 3, TRUE, TRUE)] : w \in {32, 64}}
=============================================================================
