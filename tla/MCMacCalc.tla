----------------------------- MODULE MCMacCalc ------------------------------
(* Small instances of MacCalc for TLC. *)
EXTENDS MacCalc

MacOf(s) == [i \in 0 .. 5 |-> s[i + 1]]

\* An address whose lower half wraps, one with a carry in the middle and the
\* mask of the scripts.
MCMacs ==
    {MacOf(<<0, 36, 175, 255, 255, 254>>), MacOf(<<2, 1, 254, 16, 0, 255>>),
     MacOf(<<10, 0, 0, 0, 0, 0>>)}

MCNumbers == {-1, 0, 1, 6, 256, 16777216}

\* Too short, just enough and too long.
MCInputs ==
    {<<>>, <<9, 8, 7, 6, 5>>, <<9, 8, 7, 6, 5, 4>>, <<9, 8, 7, 6, 5, 4, 3>>}
=============================================================================
