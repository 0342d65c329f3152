------------------------------- MODULE Lists -------------------------------
(* Choosing from a list, in the form that proofs about it need: SelectSeq has  *)
(* no definition the provers can expand.                                       *)
EXTENDS Naturals, Sequences

(* The entries of s that are in S, in their order.                             *)
Those(s, S) ==
  LET upto[n \in 0 .. Len(s)] == IF n = 0 THEN <<>>
                                 ELSE IF s[n] \in S THEN Append(upto[n - 1], s[n]) ELSE upto[n - 1]
  IN upto[Len(s)]
=============================================================================
