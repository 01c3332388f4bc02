-------------------------------- MODULE Picks --------------------------------
(***************************************************************************)
(* Some elements of a sequence, in order.  SelectSeq takes an operator as  *)
(* its parameter, about which nothing can be proved here; a set of places  *)
(* says as much.                                                           *)
(***************************************************************************)
EXTENDS Integers, Sequences

\* The elements of s at the given places, in order
At(s, places) ==
    LET picked[n \in 0 .. Len(s)] ==
            IF n = 0 THEN <<>>
            ELSE IF n \in places THEN Append(picked[n - 1], s[n]) ELSE picked[n - 1]
    IN  picked[Len(s)]
=============================================================================
