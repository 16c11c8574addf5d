--------------------------- MODULE MCPlatformHal ----------------------------
(* A small instance of PlatformHal for TLC. *)
EXTENDS PlatformHal, SequencesExt

\* Lines with one, two and three words, of both modes and all suboptions, with
\* the smallest and the largest value, and an empty line.
MCLines ==
    {<<>>, <<"other">>, <<"ETHWAN", "SUBOPTION3">>,
     <<"ETHWAN", "SUBOPTION2", 63>>, <<"ETHWAN", "SUBOPTION3", 63>>,
     <<"other", "SUBOPTION3", 1>>, <<"other", "other", 1>>}

\* Up to three lines.
MCFiles == SeqOf(MCLines, 3)

MCGarbage == {<<"ETHWAN", "SUBOPTION2", 63>>, <<"other", "other", 1>>}

\* Texts of different lengths, none the beginning of another.
MCTexts == {<<>>, <<1>>, <<2, 2>>, <<3, 1, 2>>}

\* Below, at and above a megabyte, and no number.
MCAmounts == {-1, 0, 1023, 1024, 4096}

MCLeftovers == {0, 5000, 196608}
=============================================================================
