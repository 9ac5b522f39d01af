-------------------------------- MODULE Lists --------------------------------
(***************************************************************************)
(* Filters of lists, as the loops over lists in the code build them.       *)
(***************************************************************************)
EXTENDS Naturals, Sequences, SequencesExt

\* One more element, unless it is in S.
KeptOf(front, x, S) == IF x \in S THEN front ELSE Append(front, x)

\* The elements of s that are not in S, in their order.
Without(s, S) ==
    LET front[i \in 0 .. Len(s)] ==
            IF i = 0 THEN <<>> ELSE KeptOf(front[i - 1], s[i], S)
    IN  front[Len(s)]

\* Those that are in S.
Only(s, S) == Without(s, ToSet(s) \ S)

FirstOfSeq(s, n) == SubSeq(s, 1, IF n < Len(s) THEN n ELSE Len(s))
=============================================================================
