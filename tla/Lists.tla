-------------------------------- MODULE Lists --------------------------------
(* What the code does with lists of filters, slicers and items of parameters:
   comprehensions with a condition, and lists in which each item is once.  They are
   recursive functions, so that theorems can be proved about them.             *)
EXTENDS Naturals, Sequences, SequencesExt

IsList(s) == s \in Seq(ToSet(s))

\* [x for x in s if x in S]
Among(s, S) ==
  LET found[n \in 0..Len(s)] ==
        IF n = 0 THEN <<>>
        ELSE IF s[n] \in S THEN Append(found[n - 1], s[n]) ELSE found[n - 1]
  IN found[Len(s)]

\* Each item where it comes first.
Once(s) ==
  LET once[n \in 0..Len(s)] ==
        IF n = 0 THEN <<>>
        ELSE IF s[n] \in ToSet(once[n - 1]) THEN once[n - 1] ELSE Append(once[n - 1], s[n])
  IN once[Len(s)]
==============================================================================
