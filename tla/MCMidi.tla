------------------------------- MODULE MCMidi -------------------------------
(* Instances of the session and its parser for TLC.                        *)
EXTENDS AppleMidi

Of(st, d) == [delta |-> d, status |-> st, running |-> FALSE,
              data |-> IF st \in {209, 243} THEN <<5>> ELSE <<60, 100>>]

\* Delta times of one octet and of more; one has an octet that is no status.
Deltas == {<<0>>, <<144, 255, 5>>}
Statuses == {144, 209}
First == {Of(st, <<0>>) : st \in Statuses}

\* Behind c: another status, or the same once more, left out.
Others(c) == {Of(st, d) : st \in Statuses \ {c.status}, d \in Deltas}
Again(c) == {[c EXCEPT !.running = TRUE, !.delta = d] : d \in Deltas}

SysEx(d) == [delta |-> d, status |-> 240, running |-> FALSE, data |-> <<1, 2, 247>>]
ShortSysEx == [SysEx(<<0>>) EXCEPT !.data = <<247>>]

\* Just too long for a short header.
LongSysEx == [SysEx(<<0>>) EXCEPT !.data = [k \in 1 .. 15 |-> IF k = 15 THEN 247 ELSE k]]

Pairs == UNION {{<<a, b>> : b \in Others(a) \cup Again(a)} : a \in First}
Triples == {Append(p, SysEx(<<130, 0>>)) : p \in {q \in Pairs : q[2].running /\ q[2].delta # <<0>>}}

\* Lists of up to three commands whose only SysEx is the last one.
PlainLists ==
    {<<>>, <<ShortSysEx>>, <<LongSysEx>>, <<Of(243, <<0>>)>>} \cup Pairs \cup Triples

\* Pitch bend and song position have two data octets.
ThreeByteLists == {<<Of(st, <<0>>)>> : st \in {144, 224, 242}}

MidiJournals == {<<>>, <<240, 0, 1>>}

\* One octet short.
CutPackets == {[type |-> "IN", ch |-> Midi, token |-> 1, length |-> MinLength - 1],
               [ClockRequest(1) EXCEPT !.length = ClockLength - 1]}
=============================================================================
