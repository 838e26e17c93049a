-------------------------------- MODULE Lists --------------------------------
(* The loop of the code that makes a list of some elements of another one. *)
EXTENDS Integers, Sequences

\* The elements of a list at some of its positions, each appended in turn.  A
\* recursive function, so that what it computes can be proved.
ElementsAt(list, where) ==
  LET upto[n \in 0..Len(list)] ==
        IF n = 0 THEN <<>>
        ELSE IF n \in where THEN Append(upto[n - 1], list[n])
        ELSE upto[n - 1]
  IN  upto[Len(list)]
=============================================================================
