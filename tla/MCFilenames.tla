---------------------------- MODULE MCFilenames ----------------------------
(* Buffers of four words of six characters. *)
EXTENDS Filenames

Letters == {"NUL", "p", "q", "r", "+", "."} \cup {SLAVE[k] : k \in 1 .. 6}

\* A path of n letters, told apart by its first.
Path(n, first) ==
  [a \in 0 .. 30 |-> IF a = n THEN NUL ELSE IF a > n THEN "+"
                     ELSE <<"p", "q", "r">>[((a + first) % 3) + 1]]

Images == {Path(n, first) : n \in {0, 5, 6, 16, 17, 23, 24, 31}, first \in {0, 1}}
Edges == {3, 6, 12, 18, 23, 24, 31}
Writes == {<<2, "NUL">>, <<11, "+">>, <<17, "+">>, <<23, "NUL">>}
=============================================================================
