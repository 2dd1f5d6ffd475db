------------------------------- MODULE Texts -------------------------------
(***************************************************************************)
(* What JavaScript's string methods make of a text, which is the sequence  *)
(* of its tokens: split, trim, and the slices at an indexOf.               *)
(***************************************************************************)
EXTENDS Naturals, Sequences, SequencesExt

\* A token either begins the next part or belongs to the one being read.
TakeToken(parts, token, Ends) ==
    IF token \in Ends THEN Append(parts, <<>>)
    ELSE [parts EXCEPT ![Len(parts)] = Append(@, token)]

\* The parts of s between the tokens of Ends.
split(s, Ends) ==
    LET parts[i \in 0..Len(s)] ==
            IF i = 0 THEN << <<>> >> ELSE TakeToken(parts[i - 1], s[i], Ends)
    IN  parts[Len(s)]

\* Mutation: blanks are left where they are.
trim_Raw(s) == {s} \ { <<>> }

\* What is left between the blanks at both ends, in a set, {} when nothing is.
trim(s) ==
    LET solid == {i \in 1..Len(s) : s[i] # "blank"}
    IN  {SubSeq(s, i, j) : i \in {i \in solid : \A k \in solid : i <= k},
                           j \in {j \in solid : \A k \in solid : k <= j}}

trimmed(s) == IF trim(s) = {} THEN <<>> ELSE CHOOSE t \in trim(s) : TRUE

\* The text before the first t, and after it.
Before(s, t) == IF Contains(s, t) THEN SubSeq(s, 1, SelectInSeq(s, LAMBDA x : x = t) - 1) ELSE s
After(s, t) == SubSeq(s, SelectInSeq(s, LAMBDA x : x = t) + 1, Len(s))
=============================================================================
