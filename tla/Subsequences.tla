---------------------------- MODULE Subsequences ----------------------------
(***************************************************************************)
(* What is left of a queue when all but some of its elements are dropped.  *)
(***************************************************************************)
EXTENDS Naturals, Sequences

\* The elements of s that are in S, in their order:
\* SelectSeq(s, LAMBDA x : x \in S), written as a recursive function so that
\* theorems can be proved about it.
Only(s, S) ==
    LET only[i \in 0 .. Len(s)] ==
            IF i = 0 THEN <<>>
            ELSE IF s[i] \in S THEN Append(only[i - 1], s[i])
            ELSE only[i - 1]
    IN  only[Len(s)]

=============================================================================
