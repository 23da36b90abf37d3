------------------------------- MODULE Loops -------------------------------
(***************************************************************************)
(* A loop over 1 .. n of straight code: the sequence of what its turns do. *)
(* Recursive functions, so that proofs about the loops can unfold them.    *)
(***************************************************************************)
EXTENDS Naturals, Sequences

InTurn(ss) ==
  LET upTo[i \in 0 .. Len(ss)] == IF i = 0 THEN <<>> ELSE upTo[i - 1] \o ss[i]
  IN  upTo[Len(ss)]
ForEach(n, Of(_)) == InTurn([i \in 1 .. n |-> Of(i)])
=============================================================================
