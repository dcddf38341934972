------------------------------- MODULE IdSeqs -------------------------------
(***************************************************************************)
(* What both petstores do to a sequence of ids: go through it and keep     *)
(* some.  SelectSeq with a set for its test, as a recursive function, so   *)
(* that proofs can use it.                                                 *)
(***************************************************************************)
EXTENDS Integers, Sequences

Kept(s, S) ==
  LET kept[n \in 0..Len(s)] ==
        IF n = 0 THEN <<>> ELSE IF s[n] \in S THEN Append(kept[n - 1], s[n]) ELSE kept[n - 1]
  IN kept[Len(s)]
=============================================================================
