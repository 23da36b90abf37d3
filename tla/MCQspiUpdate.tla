---------------------------- MODULE MCQspiUpdate ----------------------------
(***************************************************************************)
(* QspiUpdate on chips of four sectors of two pages of two bytes, the      *)
(* update area being the second half or, on the MicroBlaze, the last       *)
(* sector.                                                                 *)
(***************************************************************************)
EXTENDS QspiUpdate

BaseOf == [b \in Boards |-> IF b = "mb" THEN 12 ELSE 8]

=============================================================================
