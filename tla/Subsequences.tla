---------------------------- MODULE Subsequences ----------------------------
(* The elements of a sequence that are in a set, in order.  SelectSeq takes *)
(* a predicate; a set can be quantified over, and proved about.            *)
EXTENDS Naturals, Sequences

\* What Only keeps of the first n elements of s, for every n.
OnlyOfFirst(s, S) ==
    LET kept[n \in 0..Len(s)] ==
          IF n = 0 THEN <<>>
          ELSE IF s[n] \in S THEN Append(kept[n - 1], s[n])
          ELSE kept[n - 1]
    IN  kept

Only(s, S) == OnlyOfFirst(s, S)[Len(s)]

=============================================================================
