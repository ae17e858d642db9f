----------------------------- MODULE Selections -----------------------------
(***************************************************************************)
(* The elements of a sequence that are in a set, in their order.  This is   *)
(* SelectSeq with a set in the place of a test and with the recursion in    *)
(* sight, so that it can be reasoned about.                                 *)
(***************************************************************************)
EXTENDS Integers, Sequences

\* What is kept of the first n elements, for every n.
KeptOfFirst(s, S) ==
    LET kept[n \in 0..Len(s)] ==
            IF n = 0 THEN <<>>
            ELSE IF s[n] \in S THEN Append(kept[n - 1], s[n]) ELSE kept[n - 1]
    IN  kept

Keep(s, S) == KeptOfFirst(s, S)[Len(s)]

=============================================================================
