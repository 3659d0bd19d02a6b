------------------------------ MODULE MCHelpers ------------------------------
(* The helpers on small arguments for TLC.                                 *)
EXTENDS Helpers

\* No number, zeros, the limit of 8 bits, four digits, and what is no digit.
MCParts ==
    {<<>>, <<0>>, <<1, 0, 5>>, <<0, 2, 5, 5>>, <<2, 5, 6>>, <<3, 0, 0>>, <<1, 0, 0, 0>>,
     <<Letter>>}
MCTails == {<<>>, <<5>>, <<Dot, 5>>}
MCNumbers == 0 .. 300 \cup {999, 1000, 1009, 9999, 10000, 10101, 32767, 32768, 65535}
MCNibbles == {0, 10}
MCOctets == {0, 1, 255}

MCStrings == {<<>>, <<1>>, <<1, 2>>}
MCSsids == {<<>>, <<65>>, <<2, 0, 65>>}

\* The last 61 bytes of the RAM, from an address that is not aligned.
MCPoolEnd == 16777216
MCEflash == MCPoolEnd - 61
MCTables == {<<2, 4>>, <<0, 1>>}
=============================================================================
