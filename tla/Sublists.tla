------------------------------- MODULE Sublists -------------------------------
(***************************************************************************)
(* Selecting from a sequence: SelectSeq, with the set of the elements to   *)
(* keep in place of a test, as a recursive function of the position.       *)
(***************************************************************************)
EXTENDS Integers, Sequences

\* The elements of s that are in X, in their order.
Sublist(s, X) ==
  LET upTo[n \in 0 .. Len(s)] ==
        IF n = 0 THEN <<>>
        ELSE IF s[n] \in X THEN Append(upTo[n - 1], s[n])
        ELSE upTo[n - 1]
  IN  upTo[Len(s)]
=============================================================================
