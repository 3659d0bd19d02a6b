-------------------------------- MODULE MCLsd --------------------------------
(* Instances of the data link for TLC.  Lengths are counted in base 5 with *)
(* two high digits, so that a payload of 4 has a low length equal to Flag  *)
(* and one of 5 needs the high bits; the code's bases are 256 and 16.      *)
EXTENDS LsdLink

\* The channel that the receiver opens and closes carries no Flag.
LinkFrames == {[ch |-> 0, data |-> <<1>>],
               [ch |-> 0, data |-> <<4, 4, 1, 4>>],
               [ch |-> 0, data |-> <<4, 0, 1, 4, 4>>],
               [ch |-> 1, data |-> <<1, 0>>],
               [ch |-> 1, data |-> <<1, 1, 0, 1, 1, 0>>]}

\* Payloads that a receiver that lost its place takes for the start of a frame.
FlagFrames == {[ch |-> 0, data |-> <<4, 0, 2>>], [ch |-> 1, data |-> <<4, 2, 1, 4>>]}
=============================================================================
