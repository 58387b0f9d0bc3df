-------------------------------- MODULE Lists --------------------------------
(* The list comprehension the Python tools are written with.               *)
EXTENDS Integers, Sequences

(* [x for x in s if x in S] *)
Kept(s, S) ==
  LET kept[i \in 0..Len(s)] ==
        IF i = 0 THEN <<>>
        ELSE IF s[i] \in S THEN Append(kept[i - 1], s[i]) ELSE kept[i - 1]
  IN  kept[Len(s)]
=============================================================================
