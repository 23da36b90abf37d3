--------------------------- MODULE MCEepromPages ---------------------------
(***************************************************************************)
(* EepromPages on a device of two blocks of two pages of four bytes.       *)
(***************************************************************************)
EXTENDS EepromPages

(* In both pages of the first block and the first of the second: 3 + 6     *)
(* bytes reach the second block.                                           *)
AnyPage == {0, 1, 3, 4, 6, 8, 10}

=============================================================================
