--------------------------- MODULE MCModbusSlave ---------------------------
(***************************************************************************)
(* ModbusSlave with a bus that carries, in this order: a write to this     *)
(* slave, an answer of another slave that is longer than RxBuf, a write to *)
(* another slave, a read from this one, a function this slave does not     *)
(* know and a write of a value too large.                                  *)
(* 200 and 201 stand for the two bytes of the CRC.                         *)
(***************************************************************************)
EXTENDS ModbusSlave

Write(id, value) == <<id, 6, 0, 1, 0, value, 200, 201>>
Read(id) == <<id, 3, 0, 1, 0, 1, 200, 201>>
LongAnswer(id) == <<id, 3, 4, 0, 0, 0, 0, 200, 201>>

BusFrames ==
  <<Write(1, 3), LongAnswer(2), Write(2, 4), Read(1), <<1, 8, 200, 201>>,
    Write(1, 9)>>

=============================================================================
