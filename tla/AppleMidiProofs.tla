--------------------------- MODULE AppleMidiProofs ---------------------------
(***************************************************************************)
(* The console only ever answers, however many sessions and clock messages *)
(* there are, and whatever MIDI packets come between; and the parser emits *)
(* the commands of every list that it can read, in whatever form they are  *)
(* sent.                                                                   *)
(***************************************************************************)
EXTENDS AppleMidi, SequenceLemmas, TLAPS

\* The first message of a clock exchange carries one timestamp only, so the
\* answer, whose second one is zero, differs from it in the count alone.
RequestShape ==
    \A m \in toConsole :
       UnpackTimestampSync(m) /\ m.count = 0 => m = ClockRequest(m.timestamp1)

AnswerInv == SessionTypeOK /\ RequestShape /\ AnswersRequests

\* The parser and the packets it is given leave the session alone.
LEMMA ParserApart ==
    ASSUME Console
    PROVE  \/ UNCHANGED <<peer, toConsole, toPeer>>
           \/ \E m \in toConsole : ProcessInvitation(m) \/ ProcessTimestampSync(m)
  BY DEF Console, ProcessMidi

\* What was sent stays sent, so an answer never loses its request.
LEMMA AnswersKept ==
    ASSUME AnswersRequests, toConsole \subseteq toConsole', UNCHANGED toPeer
    PROVE  AnswersRequests'
  BY DEF AnswersRequests

-----------------------------------------------------------------------------
(* The console.                                                            *)

LEMMA StraysApart ==
    ASSUME NEW m \in Strays
    PROVE  ~ UnpackInvitation(m) /\ ~ UnpackTimestampSync(m)
  <1>1. \A x \in ClockMessage, n \in 2 .. ClockLength - 1 :
           [x EXCEPT !.length = n].type = "CK" /\ [x EXCEPT !.length = n].length = n
    BY DEF ClockMessage
  <1>2. /\ m.type = "IN" => m.length \in 0 .. MinLength - 1
        /\ m.type = "CK" => m.length \in 2 .. ClockLength - 1
    <2>1. CASE m \in [type : {"IN"}, ch : Ports, token : 1 .. Tokens,
                      length : 0 .. MinLength - 1]
      BY <2>1
    <2>2. CASE m \in {[x EXCEPT !.length = n] : x \in ClockMessage, n \in 2 .. ClockLength - 1}
      <3>1. PICK x \in ClockMessage, n \in 2 .. ClockLength - 1 : m = [x EXCEPT !.length = n]
        BY <2>2
      <3> QED
        BY <1>1, <3>1
    <2> QED
      BY <2>1, <2>2, StraysAssumption
  <1> QED
    BY <1>2 DEF UnpackInvitation, UnpackTimestampSync, MinLength, ClockLength

\* What is answered was not cut short.
LEMMA WholePackets ==
    ASSUME SessionTypeOK, NEW m \in toConsole
    PROVE  /\ UnpackInvitation(m) => m \in Invitation
           /\ UnpackTimestampSync(m) => m \in ClockMessage
  <1>1. \A x \in ClockMessage : x.type = "CK"
    BY DEF ClockMessage
  <1>2. \A x \in Invitation : x.type = "IN"
    BY DEF Invitation
  <1>3. m \in Invitation \cup ClockMessage \cup Strays
    BY DEF SessionTypeOK
  <1> QED
    BY <1>1, <1>2, <1>3, StraysApart DEF UnpackInvitation, UnpackTimestampSync

LEMMA InvitationAnswered ==
    ASSUME AnswerInv, NEW m \in toConsole, ProcessInvitation(m)
    PROVE  AnswerInv'
  <1> DEFINE a == [type |-> "OK", ch |-> m.ch, token |-> m.token]
  <1>1. m \in Invitation
    BY WholePackets DEF ProcessInvitation, AnswerInv
  <1>2. toPeer' = toPeer \cup {a} /\ UNCHANGED <<peer, toConsole>>
    BY DEF ProcessInvitation, SendInviteResponse, Answer
  <1>3. SessionTypeOK' /\ RequestShape'
    BY <1>1, <1>2 DEF AnswerInv, SessionTypeOK, RequestShape, Invitation, Acceptance
  <1>6. /\ a.type = "OK"
        /\ m.type = "IN" /\ m.ch = a.ch /\ m.token = a.token /\ m.length >= MinLength
    BY <1>1 DEF ProcessInvitation, UnpackInvitation
  <1>7. AnswersRequests'
    BY <1>2, <1>6 DEF AnswerInv, AnswersRequests
  <1> QED
    BY <1>3, <1>7 DEF AnswerInv

LEMMA ClockMessageAnswered ==
    ASSUME AnswerInv, NEW m \in toConsole, ProcessTimestampSync(m)
    PROVE  AnswerInv'
  <1> DEFINE a == Clock(1, m.timestamp1, 0, m.timestamp3)
  <1>1. m \in ClockMessage
    BY WholePackets DEF ProcessTimestampSync, AnswerInv
  <1>2. toPeer' = toPeer \cup {a} /\ UNCHANGED <<peer, toConsole>>
    BY DEF ProcessTimestampSync, SendTimestampSync, Answer
  <1>3. a \in ClockMessage
    BY <1>1, AppleMidiAssumption DEF Clock, ClockMessage
  <1>4. SessionTypeOK' /\ RequestShape'
    BY <1>2, <1>3 DEF AnswerInv, SessionTypeOK, RequestShape
  <1>5. m.count = 0 /\ m = ClockRequest(m.timestamp1)
    BY DEF ProcessTimestampSync, AnswerInv, RequestShape
  <1>6. Clock(0, a.timestamp1, a.timestamp2, a.timestamp3) = m
    BY <1>5 DEF ClockRequest, Clock
  <1>7. /\ a.type = "CK" /\ a.count = 1
        /\ Clock(0, a.timestamp1, a.timestamp2, a.timestamp3) \in toConsole
    BY <1>6 DEF Clock
  <1>8. AnswersRequests'
    BY <1>2, <1>7 DEF AnswerInv, AnswersRequests
  <1> QED
    BY <1>4, <1>8 DEF AnswerInv

-----------------------------------------------------------------------------
(* The initiator.                                                          *)

PeerType == [state : {"closed", "control", "midi", "open"}, token : 0 .. Tokens,
             clock : 0 .. Stamps, synced : 0 .. Stamps]

LEMMA NextToken ==
    ASSUME NEW p \in PeerType, NEW k \in 0 .. Tokens
    PROVE  /\ [p EXCEPT !.state = "control", !.token = k] \in PeerType
           /\ [p EXCEPT !.state = "control", !.token = k].token = k
  BY Zenon DEF PeerType

LEMMA InitiatorStep ==
    ASSUME AnswerInv, Initiator
    PROVE  AnswerInv'
  <1> USE AppleMidiAssumption
  <1>1. toConsole \subseteq toConsole' /\ UNCHANGED toPeer
    BY DEF Initiator, Invite, ControlAccepted, MidiAccepted, Close, StartClock,
           ClockAccepted, Stray, Send
  <1>2. AnswersRequests'
    BY <1>1, AnswersKept DEF AnswerInv
  <1>3. SessionTypeOK' /\ RequestShape'
    <2>1. CASE Invite
      <3>1. PICK n \in Lengths :
               toConsole' = toConsole \cup {[type |-> "IN", ch |-> Control,
                                             token |-> peer'.token, length |-> n]}
        BY <2>1 DEF Invite, Send
      <3>2. peer.token + 1 \in 1 .. Tokens
        BY <2>1 DEF Invite, AnswerInv, SessionTypeOK
      <3>3. peer' = [peer EXCEPT !.state = "control", !.token = peer.token + 1]
        BY <2>1 DEF Invite
      <3>4. peer \in PeerType /\ peer.token + 1 \in 0 .. Tokens
        BY <3>2 DEF AnswerInv, SessionTypeOK, PeerType
      <3>5. peer' \in PeerType /\ peer'.token = peer.token + 1
        BY <3>3, <3>4, NextToken
      <3> QED
        BY <3>1, <3>2, <3>5, <1>1
        DEF AnswerInv, SessionTypeOK, RequestShape, UnpackTimestampSync, Invitation, Ports, PeerType
    <2>2. CASE ControlAccepted
      <3>1. PICK n \in Lengths :
               toConsole' = toConsole \cup {[type |-> "IN", ch |-> Midi,
                                             token |-> peer.token, length |-> n]}
        BY <2>2 DEF ControlAccepted, Send
      <3>2. peer.token \in 1 .. Tokens
        BY <2>2 DEF ControlAccepted, Accepted, AnswerInv, SessionTypeOK, Acceptance,
                    ClockMessage
      <3> QED
        BY <2>2, <3>1, <3>2, <1>1
        DEF ControlAccepted, AnswerInv, SessionTypeOK, RequestShape, UnpackTimestampSync,
            Invitation, Ports
    <2>3. CASE MidiAccepted
      BY <2>3 DEF MidiAccepted, AnswerInv, SessionTypeOK, RequestShape
    <2>4. CASE Close
      BY <2>4 DEF Close, AnswerInv, SessionTypeOK, RequestShape
    <2>5. CASE StartClock
      <3>1. toConsole' = toConsole \cup {ClockRequest(peer'.clock)}
        BY <2>5 DEF StartClock, Send
      <3>2. peer'.clock \in 1 .. Stamps
        BY <2>5 DEF StartClock, AnswerInv, SessionTypeOK
      <3>3. ClockRequest(peer'.clock) \in ClockMessage
        BY <3>2 DEF ClockRequest, Clock, ClockMessage
      <3>4. ClockRequest(peer'.clock).timestamp1 = peer'.clock
        BY DEF ClockRequest, Clock
      <3>5. RequestShape'
        BY <3>1, <3>4 DEF AnswerInv, RequestShape
      <3> QED
        BY <2>5, <3>1, <3>3, <3>5, <1>1 DEF StartClock, AnswerInv, SessionTypeOK
    <2>6. CASE ClockAccepted
      <3>1. PICK m \in toPeer :
               /\ m.type = "CK"
               /\ toConsole' = toConsole \cup {Clock(2, m.timestamp1, m.timestamp2, peer.clock)}
        BY <2>6 DEF ClockAccepted, Send
      <3>2. m \in ClockMessage
        BY <3>1 DEF AnswerInv, SessionTypeOK, Acceptance, ClockMessage
      <3>3. /\ Clock(2, m.timestamp1, m.timestamp2, peer.clock) \in ClockMessage
            /\ Clock(2, m.timestamp1, m.timestamp2, peer.clock).count = 2
        BY <3>2 DEF Clock, AnswerInv, SessionTypeOK, ClockMessage
      <3> QED
        BY <2>6, <3>1, <3>3, <1>1 DEF ClockAccepted, AnswerInv, SessionTypeOK, RequestShape
    <2>7. CASE Stray
      <3>1. PICK m \in Strays : toConsole' = toConsole \cup {m}
        BY <2>7 DEF Stray, Send
      <3>2. UNCHANGED <<peer, toPeer>>
        BY <2>7 DEF Stray, Send
      <3>3. SessionTypeOK'
        BY <3>1, <3>2 DEF AnswerInv, SessionTypeOK
      <3>4. ~ UnpackTimestampSync(m)
        BY <3>1, StraysApart
      <3> QED
        BY <3>1, <3>3, <3>4 DEF AnswerInv, RequestShape
    <2> QED
      BY <2>1, <2>2, <2>3, <2>4, <2>5, <2>6, <2>7 DEF Initiator
  <1> QED
    BY <1>2, <1>3 DEF AnswerInv

-----------------------------------------------------------------------------

LEMMA AnswersOnly == Spec => []AnswerInv
  <1>1. Init => AnswerInv
    BY AppleMidiAssumption
    DEF Init, AnswerInv, SessionTypeOK, RequestShape, AnswersRequests
  <1>2. AnswerInv /\ [Next]_vars => AnswerInv'
    <2> SUFFICES ASSUME AnswerInv, [Next]_vars
                 PROVE  AnswerInv'
      OBVIOUS
    <2>1. CASE UNCHANGED <<peer, toConsole, toPeer>>
      BY <2>1 DEF AnswerInv, SessionTypeOK, RequestShape, AnswersRequests
    <2>2. CASE Console
      BY <2>1, <2>2, ParserApart, InvitationAnswered, ClockMessageAnswered
    <2>3. CASE Initiator
      BY <2>3, InitiatorStep
    <2> QED
      BY <2>1, <2>2, <2>3 DEF Next, vars
  <1> QED
    BY <1>1, <1>2, PTL DEF Spec

\* Every packet the console ever sends answers a packet it was sent
\* (processInvitation() and processTimestampSync(), applemidi.c:88-131).
THEOREM OnlyAnswers == Spec => []AnswersRequests
  <1>1. AnswerInv => AnswersRequests
    BY DEF AnswerInv
  <1> QED
    BY <1>1, AnswersOnly, PTL

-----------------------------------------------------------------------------
(* What the parser can read, and where it is in what it reads.             *)

\* What is sent for each command of a list, and what is to be emitted for it.
Part(l, i) == IF i = 1 THEN Command(l[i]) ELSE l[i].delta \o Command(l[i])
Parts(l) == [i \in 1 .. Len(l) |-> Part(l, i)]
Saying(l, i) == <<l[i].status>> \o l[i].data
Sayings(l) == [i \in 1 .. Len(l) |-> Saying(l, i)]

\* One octet of a delta time is below 128, the last.
Timed(c) ==
    /\ Len(c.delta) > 0
    /\ \A k \in 1 .. Len(c.delta) : c.delta[k] < 128 <=> k = Len(c.delta)

\* A command that is not a SysEx has as many octets of data as the masks say
\* (MidiThreeByte shows what becomes of one that has more).
Short(c) ==
    /\ c.status # SysExStart
    /\ Len(c.data) = BytesToEmit(c.status)
    /\ c.data[1] < 128

Exclusive(c) ==
    /\ c.status = SysExStart
    /\ ~ c.running
    /\ Len(c.data) > 0
    /\ \A k \in 1 .. Len(c.data) : c.data[k] = SysExEnd <=> k = Len(c.data)

\* The lists the parser can read.  The length of one of 256 octets or more is
\* misread (twelveBitMidiLength(), rtpmidi.c:14-17); after a SysEx the cursor stays on its
\* end, which is only harmless at the end of the list (rtpmidi.c:41-54); and a
\* status is left out only where it is that of the command before.
Readable(l) ==
    /\ Len(ListOctets(l)) < 256
    /\ \A i \in 1 .. Len(l) :
          /\ i > 1 => Timed(l[i])
          /\ Short(l[i]) \/ (Exclusive(l[i]) /\ i = Len(l))
          /\ l[i].running => i > 1 /\ l[i - 1].status = l[i].status

ReadableLists == \A l \in Lists : Readable(l)

\* How many octets of the list precede the rest of it after its first i parts,
\* the command of part i, and the data of that command.
Sent(l, i) == Len(Joined(Parts(l), i))
ToCommand(l, i) == Sent(l, i - 1) + (IF i = 1 THEN 0 ELSE Len(l[i].delta))
ToData(l, i) == ToCommand(l, i) + (IF l[i].running THEN 0 ELSE 1)

\* What is to be emitted for the first i commands.
Said(l, i) == Joined(Sayings(l), i)

\* Index of the first octet of the list.
Origin == MidiStart(section)

\* The octet on which the cursor is, where it is in the packet.
Here == section[cursor]

\* The section holds the list, and its end is where the parser looks for it.
Carries ==
    /\ list \in Lists
    /\ section \in Seq(Octet)
    /\ midiEnd = Origin + Len(ListOctets(list))
    /\ Origin - 1 + Len(ListOctets(list)) <= Len(section)
    /\ \A k \in 1 .. Len(ListOctets(list)) :
          section[Origin - 1 + k] = ListOctets(list)[k]

\* Behind the last command: on its end, or done.
AllSaid == emitted = Said(list, Len(list))
AtEnd == at = "list" /\ cursor = midiEnd /\ AllSaid
AtDone == at = "done" /\ cursor = midiEnd /\ AllSaid

\* processSysEx() leaves the cursor on the octet that ended the SysEx.
AtSysExEnd ==
    /\ at = "list"
    /\ cursor = midiEnd - 1
    /\ cursor <= Len(section)
    /\ Here = SysExEnd
    /\ AllSaid

\* Before command i, on its status.
AtCommand(i) ==
    /\ at = "list"
    /\ cursor = Origin + ToCommand(list, i)
    /\ ~ list[i].running
    /\ emitted = Said(list, i - 1)

\* On the first octet of its data.
AtData(i) ==
    /\ at = "list"
    /\ cursor = Origin + ToData(list, i)
    /\ list[i].status # SysExStart
    /\ status = list[i].status
    /\ emitted = Said(list, i - 1)

\* In the delta time before it.
AtDelta(i) ==
    /\ at = "delta"
    /\ i > 1
    /\ \E d \in 0 .. Len(list[i].delta) - 1 : cursor = Origin + Sent(list, i - 1) + d
    /\ status = list[i - 1].status
    /\ emitted = Said(list, i - 1)

\* In the SysEx that it is, behind k octets of it.
InSysEx(i, k) ==
    /\ at = IF k = Len(list[i].data) THEN "sysexEnd" ELSE "sysex"
    /\ cursor = Origin + ToCommand(list, i) + k
    /\ emitted = Said(list, i - 1) \o SubSeq(Command(list[i]), 1, k)

AtSysEx(i) ==
    /\ list[i].status = SysExStart
    /\ \E k \in 0 .. Len(list[i].data) : InSysEx(i, k)

Idle == at = "idle" /\ cursor = 1 /\ midiEnd = 1 /\ section = <<>> /\ emitted = <<>>

ParseInv ==
    \/ Idle
    \/ /\ Carries
       /\ \/ AtEnd \/ AtDone \/ AtSysExEnd
          \/ \E i \in 1 .. Len(list) :
                AtCommand(i) \/ AtData(i) \/ AtDelta(i) \/ AtSysEx(i)

-----------------------------------------------------------------------------
(* Where the parts of a list lie in the section.                           *)

CommandType == [delta : Seq(Octet), status : 128 .. 255, running : BOOLEAN,
                data : Seq(Octet)]

LEMMA PartTypes ==
    ASSUME NEW l \in Lists
    PROVE  /\ l \in Seq(CommandType)
           /\ Parts(l) \in Seq(Seq(Octet))
           /\ Len(Parts(l)) = Len(l)
           /\ Sayings(l) \in Seq(Seq(Octet))
           /\ Len(Sayings(l)) = Len(l)
  <1>1. l \in Seq(CommandType)
    BY RtpMidiAssumption DEF CommandType
  <1>2. ASSUME NEW i \in 1 .. Len(l)
        PROVE  Part(l, i) \in Seq(Octet) /\ Saying(l, i) \in Seq(Octet)
    <2>1. l[i] \in CommandType
      BY <1>1
    <2>2. <<l[i].status>> \in Seq(Octet) /\ l[i].delta \in Seq(Octet) /\ l[i].data \in Seq(Octet)
      BY <2>1 DEF CommandType, Octet
    <2>3. Command(l[i]) \in Seq(Octet)
      BY <2>2 DEF Command
    <2> QED
      BY <2>2, <2>3 DEF Part, Saying
  <1>3. Len(l) \in Nat
    BY <1>1
  <1> QED
    BY <1>1, <1>2, <1>3 DEF Parts, Sayings

LEMMA Wholes ==
    ASSUME NEW l \in Lists
    PROVE  /\ ListOctets(l) = FlattenSeq(Parts(l))
           /\ ListOctets(l) = Joined(Parts(l), Len(l))
           /\ ListOctets(l) \in Seq(Octet)
           /\ Events(l) = Joined(Sayings(l), Len(l))
  <1>1. ListOctets(l) = FlattenSeq(Parts(l)) /\ Events(l) = FlattenSeq(Sayings(l))
    BY DEF ListOctets, Events, Parts, Part, Sayings, Saying
  <1>2. /\ Joined(Parts(l), Len(l)) = FlattenSeq(Parts(l))
        /\ Joined(Sayings(l), Len(l)) = FlattenSeq(Sayings(l))
    BY PartTypes, JoinedAll
  <1>3. Len(l) \in 0 .. Len(Parts(l))
    BY PartTypes
  <1>4. Joined(Parts(l), Len(l)) \in Seq(Octet)
    BY <1>3, PartTypes, JoinedType
  <1> QED
    BY <1>1, <1>2, <1>4

LEMMA HeaderDigits ==
    ASSUME NEW n \in Nat, n < 4096
    PROVE  /\ n \div 256 \in 0 .. 15
           /\ n % 256 \in 0 .. 255
           /\ n < 256 => n \div 256 = 0 /\ n % 256 = n
  OBVIOUS

\* What the parser makes of a header.
LongHeaders(n) == {<<128 + f + n \div 256, n % 256>> : f \in {0, 64}}
ShortHeaders(n) == IF n < 16 THEN {<<f + n>> : f \in {0, 64}} ELSE {}

LEMMA HeaderRead ==
    ASSUME NEW n \in Nat, n < 4096, NEW s,
           NEW h \in LongHeaders(n) \cup ShortHeaders(n),
           \A k \in 1 .. Len(h) : s[k] = h[k]
    PROVE  /\ MidiStart(s) = Len(h) + 1
           /\ MidiLength(s) \in Nat
           /\ n < 256 => MidiLength(s) = n
  <1>1. PICK hi \in 0 .. 15 : hi = n \div 256 /\ (n < 256 => hi = 0)
    BY HeaderDigits
  <1>2. PICK lo \in 0 .. 255 : lo = n % 256 /\ (n < 256 => lo = n)
    BY HeaderDigits
  <1>3. ASSUME NEW f \in {0, 64}, h = <<128 + f + hi, lo>>
        PROVE  /\ MidiStart(s) = Len(h) + 1
               /\ MidiLength(s) \in Nat
               /\ n < 256 => MidiLength(s) = n
    <2>1. 128 + f + hi \in 0 .. 255 /\ (128 + f + hi) \div 128 = 1
      OBVIOUS
    <2>2. Len(h) = 2 /\ s[1] = 128 + f + hi /\ s[2] = lo
      BY <1>3
    <2>3. MidiStart(s) = 3 /\ MidiLength(s) = ((128 + f + hi) * 4096 + lo) % 65536
      BY <2>1, <2>2 DEF LongHeader, MidiStart, MidiLength, TwelveBitMidiLength
    <2>4. MidiLength(s) \in Nat /\ (n < 256 => MidiLength(s) = n)
      BY <1>1, <1>2, <2>3
    <2> QED
      BY <2>2, <2>3, <2>4
  <1>4. ASSUME NEW f \in {0, 64}, h = <<f + n>>, n < 16
        PROVE  /\ MidiStart(s) = Len(h) + 1
               /\ MidiLength(s) \in Nat
               /\ n < 256 => MidiLength(s) = n
    <2>1. f + n \in 0 .. 255 /\ (f + n) \div 128 = 0 /\ (f + n) % 16 = n
      BY <1>4
    <2>2. Len(h) = 1 /\ s[1] = f + n
      BY <1>4
    <2>3. MidiStart(s) = 2 /\ MidiLength(s) = n
      BY <2>1, <2>2 DEF LongHeader, MidiStart, MidiLength
    <2> QED
      BY <2>2, <2>3
  <1> QED
    BY <1>1, <1>2, <1>3, <1>4 DEF LongHeaders, ShortHeaders

LEMMA HeaderType ==
    ASSUME NEW n \in Nat, n < 4096, NEW h \in LongHeaders(n) \cup ShortHeaders(n)
    PROVE  h \in Seq(Octet) /\ Len(h) \in {1, 2}
  <1>1. ASSUME NEW f \in {0, 64}
        PROVE  /\ 128 + f + n \div 256 \in Octet
               /\ n % 256 \in Octet
               /\ n < 16 => f + n \in Octet
    BY HeaderDigits DEF Octet
  <1>2. \A x, y \in Octet : /\ <<x, y>> \in Seq(Octet) /\ Len(<<x, y>>) = 2
                            /\ <<x>> \in Seq(Octet) /\ Len(<<x>>) = 1
    OBVIOUS
  <1>3. CASE h \in LongHeaders(n)
    <2>1. PICK f \in {0, 64} : h = <<128 + f + n \div 256, n % 256>>
      BY <1>3 DEF LongHeaders
    <2> QED
      BY <1>1, <1>2, <2>1
  <1>4. CASE h \in ShortHeaders(n)
    <2>1. PICK f \in {0, 64} : n < 16 /\ h = <<f + n>>
      BY <1>4 DEF ShortHeaders
    <2> QED
      BY <1>1, <1>2, <2>1
  <1> QED
    BY <1>3, <1>4

\* A section as the sender makes it, and as the parser enters it.
LEMMA SectionShape ==
    ASSUME NEW l \in Lists, NEW j \in Journals, NEW s \in Sections(l, j),
           NEW octets, octets = ListOctets(l)
    PROVE  /\ s \in Seq(Octet)
           /\ MidiStart(s) \in {2, 3}
           /\ MidiStart(s) - 1 + Len(octets) <= Len(s)
           /\ MidiLength(s) \in Nat
           /\ Len(octets) < 256 => MidiLength(s) = Len(octets)
           /\ \A k \in 1 .. Len(octets) : s[MidiStart(s) - 1 + k] = octets[k]
  <1>1. octets \in Seq(Octet) /\ Len(octets) < 4096 /\ j \in Seq(Octet)
    BY Wholes, ListsFitHeader, RtpMidiAssumption
  <1>2. PICK n \in Nat : n = Len(octets)
    BY <1>1
  <1>3. n < 4096
    BY <1>1, <1>2
  <1>4. PICK h \in LongHeaders(n) \cup ShortHeaders(n) : s = h \o octets \o j
    <2> DEFINE f == IF j = <<>> THEN 0 ELSE 64
    <2>1. /\ <<128 + f + n \div 256, n % 256>> \in LongHeaders(n)
          /\ n < 16 => <<f + n>> \in ShortHeaders(n)
      BY DEF LongHeaders, ShortHeaders
    <2> DEFINE chosen == IF n < 16 THEN {<<f + n>>, <<128 + f + n \div 256, n % 256>>}
                                   ELSE {<<128 + f + n \div 256, n % 256>>}
    <2>2. s \in {h \o octets \o j : h \in chosen}
      BY <1>2 DEF Sections
    <2> HIDE DEF f
    <2>3. chosen \subseteq LongHeaders(n) \cup ShortHeaders(n)
      BY <2>1
    <2> HIDE DEF chosen
    <2>4. PICK h \in chosen : s = h \o octets \o j
      BY <2>2
    <2> QED
      BY <2>3, <2>4, Zenon
  <1>5. h \in Seq(Octet) /\ Len(h) \in {1, 2}
    BY <1>3, HeaderType
  <1>6. /\ s \in Seq(Octet)
        /\ Len(s) = Len(h) + n + Len(j)
        /\ \A k \in 1 .. Len(h) : s[k] = h[k]
        /\ \A k \in 1 .. n : s[Len(h) + k] = octets[k]
    BY <1>1, <1>2, <1>4, <1>5, ConcatMiddle
  <1>7. /\ MidiStart(s) = Len(h) + 1
        /\ MidiLength(s) \in Nat
        /\ n < 256 => MidiLength(s) = n
    BY <1>3, <1>6, HeaderRead
  <1>8. MidiStart(s) - 1 = Len(h) /\ Len(j) \in Nat
    BY <1>1, <1>5, <1>7
  <1>9. MidiStart(s) - 1 + Len(octets) <= Len(s)
    <2>1. Len(h) + n <= Len(s)
      BY <1>5, <1>6, <1>8
    <2> QED
      BY <1>2, <1>8, <2>1
  <1>10. MidiStart(s) \in {2, 3}
    BY DEF MidiStart
  <1>11. \A k \in 1 .. Len(octets) : s[MidiStart(s) - 1 + k] = octets[k]
    BY <1>2, <1>6, <1>8
  <1> QED
    BY <1>2, <1>6, <1>7, <1>9, <1>10, <1>11

-----------------------------------------------------------------------------
(* Where everything lies in a list.                                        *)

LEMMA CommandTypes ==
    ASSUME NEW l \in Lists, NEW i \in 1 .. Len(l)
    PROVE  /\ l[i].delta \in Seq(Octet)
           /\ l[i].data \in Seq(Octet)
           /\ l[i].status \in 128 .. 255
           /\ l[i].running \in BOOLEAN
           /\ Command(l[i]) \in Seq(Octet)
           /\ Part(l, i) \in Seq(Octet)
           /\ Saying(l, i) \in Seq(Octet)
  <1>1. l[i] \in CommandType
    BY PartTypes
  <1>2. <<l[i].status>> \in Seq(Octet) /\ l[i].delta \in Seq(Octet) /\ l[i].data \in Seq(Octet)
    BY <1>1 DEF CommandType, Octet
  <1>3. Command(l[i]) \in Seq(Octet)
    BY <1>2 DEF Command
  <1>4. Part(l, i) \in Seq(Octet) /\ Saying(l, i) \in Seq(Octet)
    BY <1>2, <1>3 DEF Part, Saying
  <1> QED
    BY <1>1, <1>2, <1>3, <1>4 DEF CommandType

LEMMA SentType ==
    ASSUME NEW l \in Lists, NEW i \in 0 .. Len(l)
    PROVE  Sent(l, i) \in Nat
  <1>1. Joined(Parts(l), i) \in Seq(Octet)
    BY PartTypes, JoinedType
  <1> QED
    BY <1>1 DEF Sent

LEMMA SentEnds ==
    ASSUME NEW l \in Lists
    PROVE  Sent(l, 0) = 0 /\ Sent(l, Len(l)) = Len(ListOctets(l))
  <1>1. Joined(Parts(l), 0) = <<>>
    BY PartTypes, JoinedNone
  <1> QED
    BY <1>1, Wholes DEF Sent

LEMMA PartLies ==
    ASSUME NEW l \in Lists, NEW i \in 1 .. Len(l)
    PROVE  /\ Sent(l, i - 1) \in Nat
           /\ Sent(l, i) = Sent(l, i - 1) + Len(Part(l, i))
           /\ Sent(l, i) <= Len(ListOctets(l))
           /\ \A k \in 1 .. Len(Part(l, i)) :
                 ListOctets(l)[Sent(l, i - 1) + k] = Part(l, i)[k]
  <1>1. i - 1 \in 0 .. Len(l)
    BY PartTypes
  <1>2. i \in 1 .. Len(Parts(l)) /\ Parts(l)[i] = Part(l, i)
    BY PartTypes DEF Parts
  <1>3. /\ Sent(l, i) = Sent(l, i - 1) + Len(Parts(l)[i])
        /\ Sent(l, i) <= Len(FlattenSeq(Parts(l)))
        /\ \A k \in 1 .. Len(Parts(l)[i]) :
              FlattenSeq(Parts(l))[Sent(l, i - 1) + k] = Parts(l)[i][k]
    BY <1>2, PartTypes, JoinedInside DEF Sent
  <1> QED
    BY <1>1, <1>2, <1>3, SentType, Wholes

LEMMA DeltaLies ==
    ASSUME NEW l \in Lists, NEW i \in 2 .. Len(l)
    PROVE  /\ ToCommand(l, i) = Sent(l, i - 1) + Len(l[i].delta)
           /\ \A k \in 1 .. Len(l[i].delta) :
                 /\ Sent(l, i - 1) + k <= Len(ListOctets(l))
                 /\ ListOctets(l)[Sent(l, i - 1) + k] = l[i].delta[k]
  <1>1. i \in 1 .. Len(l) /\ i # 1
    OBVIOUS
  <1>2. l[i].delta \in Seq(Octet) /\ Command(l[i]) \in Seq(Octet)
    BY <1>1, CommandTypes
  <1> SUFFICES ASSUME NEW d \in Seq(Octet), d = l[i].delta
               PROVE  /\ ToCommand(l, i) = Sent(l, i - 1) + Len(d)
                      /\ \A k \in 1 .. Len(d) :
                            /\ Sent(l, i - 1) + k <= Len(ListOctets(l))
                            /\ ListOctets(l)[Sent(l, i - 1) + k] = d[k]
    BY <1>2
  <1>3. PICK c \in Seq(Octet) : Part(l, i) = d \o c
    BY <1>1, <1>2 DEF Part
  <1>4. /\ Len(d \o c) = Len(d) + Len(c)
        /\ \A k \in 1 .. Len(d) : (d \o c)[k] = d[k]
    BY ConcatParts
  <1>5. Len(d) \in Nat /\ Len(c) \in Nat /\ Len(ListOctets(l)) \in Nat
    BY Wholes
  <1>6. \A k \in 1 .. Len(d) : k \in 1 .. Len(d \o c)
    BY <1>4, <1>5
  <1>7. ASSUME NEW k \in 1 .. Len(d)
        PROVE  ListOctets(l)[Sent(l, i - 1) + k] = d[k]
    <2>1. k \in 1 .. Len(Part(l, i)) /\ Part(l, i)[k] = d[k]
      BY <1>3, <1>4, <1>6
    <2> QED
      BY <1>1, <2>1, PartLies
  <1>8. ASSUME NEW k \in 1 .. Len(d)
        PROVE  Sent(l, i - 1) + k <= Len(ListOctets(l))
    <2>1. k <= Len(Part(l, i)) /\ Len(Part(l, i)) \in Nat
      BY <1>3, <1>4, <1>5, <1>6
    <2>2. /\ Sent(l, i - 1) \in Nat
          /\ Sent(l, i - 1) + Len(Part(l, i)) <= Len(ListOctets(l))
      BY <1>1, PartLies
    <2> QED
      BY <1>5, <2>1, <2>2
  <1> QED
    BY <1>1, <1>7, <1>8 DEF ToCommand

LEMMA CommandLies ==
    ASSUME NEW l \in Lists, NEW i \in 1 .. Len(l)
    PROVE  /\ ToCommand(l, i) \in Nat
           /\ Sent(l, i) = ToCommand(l, i) + Len(Command(l[i]))
           /\ \A k \in 1 .. Len(Command(l[i])) :
                 ListOctets(l)[ToCommand(l, i) + k] = Command(l[i])[k]
  <1>1. CASE i = 1
    <2>1. Part(l, i) = Command(l[i])
      BY <1>1 DEF Part
    <2>2. ToCommand(l, i) = Sent(l, i - 1)
      BY <1>1, PartLies DEF ToCommand
    <2> QED
      BY <2>1, <2>2, PartLies
  <1>2. CASE i # 1
    <2>1. PICK d \in Seq(Octet) : d = l[i].delta
      BY CommandTypes
    <2>2. PICK c \in Seq(Octet) : c = Command(l[i])
      BY CommandTypes
    <2>3. Part(l, i) = d \o c
      BY <1>2, <2>1, <2>2 DEF Part
    <2>4. /\ Len(d \o c) = Len(d) + Len(c)
          /\ \A k \in 1 .. Len(c) : (d \o c)[Len(d) + k] = c[k]
      BY ConcatParts
    <2>5. ToCommand(l, i) = Sent(l, i - 1) + Len(d)
      BY <1>2, <2>1 DEF ToCommand
    <2>6. Len(d) \in Nat /\ Len(c) \in Nat /\ Sent(l, i - 1) \in Nat
      BY PartLies
    <2>7. ASSUME NEW k \in 1 .. Len(c)
          PROVE  ListOctets(l)[ToCommand(l, i) + k] = c[k]
      <3>1. Len(d) + k \in 1 .. Len(d \o c)
        BY <2>4, <2>6
      <3>2. ToCommand(l, i) + k = Sent(l, i - 1) + (Len(d) + k)
        BY <2>5, <2>6
      <3>3. \A m \in 1 .. Len(Part(l, i)) : ListOctets(l)[Sent(l, i - 1) + m] = Part(l, i)[m]
        BY PartLies
      <3>4. PICK m \in 1 .. Len(d \o c) : m = Len(d) + k
        BY <3>1
      <3>5. ListOctets(l)[Sent(l, i - 1) + m] = (d \o c)[m]
        BY <2>3, <3>3
      <3> QED
        BY <2>4, <3>2, <3>4, <3>5
    <2>8. ToCommand(l, i) \in Nat
      BY <2>5, <2>6
    <2>9. Sent(l, i) = ToCommand(l, i) + Len(c)
      <3>1. Sent(l, i) = Sent(l, i - 1) + (Len(d) + Len(c))
        BY <2>3, <2>4, PartLies
      <3> QED
        BY <2>5, <2>6, <3>1
    <2> QED
      BY <2>2, <2>7, <2>8, <2>9
  <1> QED
    BY <1>1, <1>2

LEMMA DataLies ==
    ASSUME NEW l \in Lists, NEW i \in 1 .. Len(l)
    PROVE  /\ ToData(l, i) \in Nat
           /\ Sent(l, i) = ToData(l, i) + Len(l[i].data)
           /\ ~ l[i].running => ListOctets(l)[ToCommand(l, i) + 1] = l[i].status
           /\ \A k \in 1 .. Len(l[i].data) :
                 ListOctets(l)[ToData(l, i) + k] = l[i].data[k]
  <1>1. CASE l[i].running
    <2>1. Command(l[i]) = l[i].data
      BY <1>1 DEF Command
    <2>2. ToData(l, i) = ToCommand(l, i)
      BY <1>1, CommandLies DEF ToData
    <2>3. Sent(l, i) = ToData(l, i) + Len(l[i].data) /\ ToData(l, i) \in Nat
      BY <2>1, <2>2, CommandLies
    <2>4. \A k \in 1 .. Len(l[i].data) : ListOctets(l)[ToData(l, i) + k] = l[i].data[k]
      BY <2>1, <2>2, CommandLies
    <2> QED
      BY <1>1, <2>3, <2>4
  <1>2. CASE ~ l[i].running
    <2>1. l[i].data \in Seq(Octet) /\ l[i].status \in Octet
      BY CommandTypes DEF Octet
    <2> SUFFICES ASSUME NEW d \in Seq(Octet), d = l[i].data
                 PROVE  /\ ToData(l, i) \in Nat
                        /\ Sent(l, i) = ToData(l, i) + Len(d)
                        /\ ListOctets(l)[ToCommand(l, i) + 1] = l[i].status
                        /\ \A k \in 1 .. Len(d) : ListOctets(l)[ToData(l, i) + k] = d[k]
      BY <2>1
    <2>2. PICK c \in Seq(Octet) : c = Command(l[i])
      BY CommandTypes
    <2>3. c = <<l[i].status>> \o d
      BY <1>2, <2>2 DEF Command
    <2>4. Len(d) \in Nat
      OBVIOUS
    <2>5. Len(c) = 1 + Len(d) /\ c[1] = l[i].status
      BY <2>1, <2>3, <2>4
    <2>6. \A k \in 1 .. Len(d) : c[1 + k] = d[k]
      BY <2>1, <2>3, <2>4
    <2>7. ToData(l, i) = ToCommand(l, i) + 1 /\ ToCommand(l, i) \in Nat
      BY <1>2, CommandLies DEF ToData
    <2>8. ASSUME NEW k \in 1 .. Len(d)
          PROVE  ListOctets(l)[ToData(l, i) + k] = d[k]
      <3>1. 1 + k \in 1 .. Len(c)
        BY <2>4, <2>5
      <3>2. ToData(l, i) + k = ToCommand(l, i) + (1 + k)
        BY <2>7
      <3> QED
        BY <2>2, <2>6, <3>1, <3>2, CommandLies
    <2>9. ListOctets(l)[ToCommand(l, i) + 1] = l[i].status
      <3>1. 1 \in 1 .. Len(c)
        BY <2>4, <2>5
      <3> QED
        BY <2>2, <2>5, <3>1, CommandLies
    <2>10. ToData(l, i) \in Nat
      BY <2>7
    <2>11. Sent(l, i) = ToData(l, i) + Len(d)
      <3>1. Sent(l, i) = ToCommand(l, i) + (1 + Len(d))
        BY <2>2, <2>5, CommandLies
      <3> QED
        BY <2>4, <2>7, <3>1
    <2> QED
      BY <2>8, <2>9, <2>10, <2>11
  <1> QED
    BY <1>1, <1>2, CommandTypes

LEMMA SaidGrows ==
    ASSUME NEW l \in Lists, NEW i \in 1 .. Len(l)
    PROVE  /\ Said(l, i - 1) \in Seq(Octet)
           /\ Said(l, i) = Said(l, i - 1) \o (<<l[i].status>> \o l[i].data)
  <1>1. i \in 1 .. Len(Sayings(l)) /\ i - 1 \in 0 .. Len(Sayings(l))
    BY PartTypes
  <1>2. Sayings(l)[i] = <<l[i].status>> \o l[i].data
    BY PartTypes DEF Sayings, Saying
  <1> QED
    BY <1>1, <1>2, PartTypes, JoinedType, JoinedGrows DEF Said

LEMMA SaidEnds ==
    ASSUME NEW l \in Lists
    PROVE  Said(l, 0) = <<>> /\ Said(l, Len(l)) = Events(l)
  BY PartTypes, JoinedNone, Wholes DEF Said

-----------------------------------------------------------------------------
(* Steps of the parser.                                                    *)

LEMMA OriginType == Origin \in {2, 3}
  BY DEF Origin, MidiStart

\* With k octets of the list behind it, the cursor is on the next.
LEMMA CursorInList ==
    ASSUME Carries, NEW k \in Nat, k < Len(ListOctets(list)), cursor = Origin + k
    PROVE  /\ cursor \in Nat
           /\ cursor <= Len(section)
           /\ cursor # midiEnd
           /\ Here = ListOctets(list)[k + 1]
           /\ Here \in Octet
           /\ OctetsAt(cursor) = {Here}
  <1>1. PICK o \in {2, 3} : o = Origin
    BY OriginType
  <1>2. PICK n \in Nat : n = Len(ListOctets(list))
    BY Wholes DEF Carries
  <1>3. k + 1 \in 1 .. n /\ o - 1 + (k + 1) = o + k
    BY <1>2
  <1>4. /\ midiEnd = o + n
        /\ o - 1 + n <= Len(section)
        /\ section[o - 1 + (k + 1)] = ListOctets(list)[k + 1]
        /\ Len(section) \in Nat
    BY <1>1, <1>2, <1>3 DEF Carries
  <1>5. cursor = o + k
    BY <1>1
  <1>6. cursor \in Nat /\ cursor # midiEnd /\ cursor <= Len(section)
    BY <1>2, <1>4, <1>5
  <1>7. Here = ListOctets(list)[k + 1]
    BY <1>3, <1>4, <1>5 DEF Here
  <1>8. ListOctets(list)[k + 1] \in Octet
    BY <1>2, <1>3, Wholes DEF Carries
  <1>9. OctetsAt(cursor) = {Here}
    BY <1>6 DEF OctetsAt, Here
  <1> QED
    BY <1>6, <1>7, <1>8, <1>9

LEMMA CarriesOn ==
    ASSUME Carries, UNCHANGED <<list, section, midiEnd>>
    PROVE  Carries'
  BY DEF Carries, Origin

LEMMA EndStep ==
    ASSUME AtEnd, Parse
    PROVE  AtDone' /\ UNCHANGED <<list, section, midiEnd>>
  <1>1. ListEnd
    BY DEF AtEnd, Parse, ListEnd, SysExFound, SysExOctet, SysExLast, StatusFound,
           EmitMidiEvent, Delta, PacketDone, InList
  <1> QED
    BY <1>1 DEF AtEnd, AtDone, ListEnd, AllSaid

LEMMA DoneStep ==
    ASSUME AtDone, Parse
    PROVE  Idle'
  BY DEF Idle, AtDone, Parse, ListEnd, SysExFound, SysExOctet, SysExLast, StatusFound,
         EmitMidiEvent, Delta, PacketDone, InList

LEMMA SysExEndStep ==
    ASSUME Carries, AtSysExEnd, Parse
    PROVE  AtEnd' /\ UNCHANGED <<list, section, midiEnd>>
  <1>1. midiEnd \in Nat /\ cursor # midiEnd /\ cursor + 1 = midiEnd
    BY OriginType, Wholes DEF Carries, AtSysExEnd
  <1>2. OctetsAt(cursor) = {SysExEnd}
    BY DEF AtSysExEnd, OctetsAt, Here
  <1>3. \A data \in EventData : data[1] = SysExEnd
    BY <1>2 DEF EventData
  <1>4. StatusFound
    BY <1>1, <1>2, <1>3 DEF AtSysExEnd, Parse, ListEnd, SysExFound, SysExOctet, SysExLast, EmitMidiEvent,
                Delta, PacketDone, InList, SysExStart, SysExEnd
  <1> QED
    BY <1>1, <1>4 DEF AtSysExEnd, AtEnd, StatusFound, InList, AllSaid

Readables(i) ==
    /\ i > 1 => Timed(list[i])
    /\ Short(list[i]) \/ (Exclusive(list[i]) /\ i = Len(list))
    /\ list[i].running => i > 1 /\ list[i - 1].status = list[i].status

LEMMA ListIsReadable ==
    ASSUME ReadableLists, Carries, NEW i \in 1 .. Len(list)
    PROVE  Readables(i)
  BY DEF ReadableLists, Readable, Carries, Readables

LEMMA DataFollows ==
    ASSUME ReadableLists, Carries, NEW i \in 1 .. Len(list)
    PROVE  /\ Len(list[i].data) \in Nat \ {0}
           /\ ToData(list, i) < Len(ListOctets(list))
           /\ ~ list[i].running => ToCommand(list, i) < Len(ListOctets(list))
  <1>1. list \in Lists
    BY DEF Carries
  <1>2. PICK n \in Nat : n = Len(list[i].data)
    BY <1>1, CommandTypes
  <1>3. n # 0
    BY <1>2, ListIsReadable DEF Readables, Short, Exclusive, BytesToEmit
  <1>4. PICK m \in Nat : m = Len(ListOctets(list))
    BY <1>1, Wholes
  <1>5. ToData(list, i) + n <= m /\ ToData(list, i) \in Nat
    BY <1>1, <1>2, <1>4, DataLies, PartLies
  <1>6. ToData(list, i) < m
    BY <1>3, <1>5
  <1>7. ~ list[i].running => ToData(list, i) = ToCommand(list, i) + 1
    BY DEF ToData
  <1>8. ToCommand(list, i) \in Nat
    BY <1>1, CommandLies
  <1>9. ~ list[i].running => ToCommand(list, i) < m
    BY <1>6, <1>7, <1>8
  <1> QED
    BY <1>2, <1>3, <1>4, <1>6, <1>9

LEMMA CommandStep ==
    ASSUME ReadableLists, Carries, NEW i \in 1 .. Len(list), AtCommand(i), Parse
    PROVE  /\ AtData(i)' \/ AtSysEx(i)'
           /\ UNCHANGED <<list, section, midiEnd>>
  <1>1. list \in Lists
    BY DEF Carries
  <1>2. PICK k \in Nat : k = ToCommand(list, i)
    BY <1>1, CommandLies
  <1>3. k < Len(ListOctets(list)) /\ cursor = Origin + k
    BY <1>2, DataFollows DEF AtCommand
  <1>4. cursor # midiEnd /\ Here = ListOctets(list)[k + 1] /\ OctetsAt(cursor) = {Here}
    BY <1>3, CursorInList
  <1>5. Here = list[i].status
    BY <1>1, <1>2, <1>4, DataLies DEF AtCommand
  <1>6. Here \in 128 .. 255
    BY <1>1, <1>5, CommandTypes
  <1>9. \A data \in EventData : ~ (data[1] < 128)
    <2>1. \A data \in EventData : data[1] = Here
      BY <1>4 DEF EventData
    <2> QED
      BY <1>6, <2>1
  <1>7. CASE Here = SysExStart
    <2>1. SysExFound
      BY <1>4, <1>9, <1>7 DEF AtCommand, Parse, ListEnd, SysExOctet, SysExLast, StatusFound,
             EmitMidiEvent, Delta, PacketDone, InList
    <2>2. Said(list, i - 1) \o SubSeq(Command(list[i]), 1, 0) = Said(list, i - 1)
      <3>1. Said(list, i - 1) \in Seq(Octet)
        BY <1>1, SaidGrows
      <3>2. SubSeq(Command(list[i]), 1, 0) = <<>>
        OBVIOUS
      <3> QED
        BY <3>1, <3>2, ConcatEmptySeq
    <2>3. 0 \in 0 .. Len(list[i].data) /\ 0 # Len(list[i].data)
      BY DataFollows
    <2>4. UNCHANGED <<list, section, cursor, midiEnd, emitted>> /\ at' = "sysex"
      BY <2>1 DEF SysExFound
    <2>5. cursor = Origin + ToCommand(list, i) + 0
      BY <1>2, <1>3, OriginType
    <2>6. InSysEx(i, 0)'
      BY <2>2, <2>3, <2>4, <2>5 DEF InSysEx, AtCommand, Origin
    <2>7. AtSysEx(i)'
      BY <1>5, <1>7, <2>3, <2>4, <2>6 DEF AtSysEx
    <2> QED
      BY <2>4, <2>7
  <1>8. CASE Here # SysExStart
    <2>2. StatusFound
      BY <1>4, <1>9, <1>8 DEF AtCommand, Parse, ListEnd, SysExFound, SysExOctet, SysExLast,
             EmitMidiEvent, Delta, PacketDone, InList
    <2>3. /\ UNCHANGED <<list, section, midiEnd, at, emitted>>
          /\ status' = Here /\ cursor' = cursor + 1
      BY <1>4, <2>2 DEF StatusFound
    <2>4. ToData(list, i) = k + 1
      BY <1>2 DEF ToData, AtCommand
    <2>5. cursor + 1 = Origin + ToData(list, i)
      BY <1>3, <2>4, OriginType
    <2>6. AtData(i)'
      BY <1>5, <1>8, <2>3, <2>5 DEF AtData, AtCommand, Origin
    <2> QED
      BY <2>3, <2>6
  <1> QED
    BY <1>7, <1>8

\* The octets of a command's data are emitted behind its status.
LEMMA DataStep ==
    ASSUME ReadableLists, Carries, NEW i \in 1 .. Len(list), AtData(i), Parse
    PROVE  /\ AtDone' \/ \E j \in 2 .. Len(list) : AtDelta(j)'
           /\ UNCHANGED <<list, section, midiEnd>>
  <1>1. list \in Lists
    BY DEF Carries
  <1>2. PICK k \in Nat : k = ToData(list, i)
    BY <1>1, DataLies
  <1>3. PICK n \in Nat \ {0} : n = Len(list[i].data)
    BY DataFollows
  <1>4. Short(list[i])
    BY ListIsReadable DEF Readables, Exclusive, AtData
  <1>5. n = BytesToEmit(status) /\ list[i].data[1] < 128
    BY <1>3, <1>4 DEF Short, AtData
  <1>6. k < Len(ListOctets(list)) /\ cursor = Origin + k
    BY <1>2, DataFollows DEF AtData
  <1>7. /\ cursor # midiEnd /\ Here = ListOctets(list)[k + 1] /\ cursor \in Nat
        /\ OctetsAt(cursor) = {Here}
    BY <1>6, CursorInList
  <1>8. Here = list[i].data[1]
    <2>1. 1 \in 1 .. Len(list[i].data)
      BY <1>3
    <2> QED
      BY <1>1, <1>2, <1>7, <2>1, DataLies
  <1>9. Here < 128 /\ Here # SysExStart /\ ~ (Here >= 128)
    <2>1. PICK h \in 0 .. 255 : h = Here
      BY <1>6, CursorInList DEF Octet
    <2>2. h < 128
      BY <1>5, <1>8, <2>1
    <2>3. h # 240 /\ ~ (h >= 128)
      BY <2>2
    <2> QED
      BY <2>1, <2>2, <2>3 DEF SysExStart
  <1>10. EmitMidiEvent
    BY <1>7, <1>9 DEF AtData, Parse, ListEnd, SysExFound, SysExOctet, SysExLast, StatusFound,
             Delta, PacketDone, InList
  <1>11. /\ UNCHANGED <<list, section, midiEnd, status>>
         /\ cursor' = cursor + n
         /\ at' = IF cursor' = midiEnd THEN "done" ELSE "delta"
    BY <1>5, <1>10 DEF EmitMidiEvent
  <1>12. emitted' = emitted \o <<status>> \o list[i].data
    <2>1. PICK a \in Nat : a + 1 = cursor
      BY <1>6, OriginType
    <2>2. cursor' - 1 = a + n
      BY <1>11, <2>1
    <2>3. list[i].data \in Seq(Octet) /\ section \in Seq(Octet)
      BY <1>1, CommandTypes DEF Carries
    <2>4. PICK m \in Nat : m = Len(ListOctets(list))
      BY <1>1, Wholes
    <2>5. k + n <= m
      <3>1. Sent(list, i) = k + n /\ Sent(list, i) <= m
        BY <1>1, <1>2, <1>3, <2>4, DataLies, PartLies
      <3> QED
        BY <3>1
    <2>6. a = Origin - 1 + k
      BY <1>6, <2>1, OriginType
    <2>7. a + n <= Len(section)
      <3>1. Origin - 1 + m <= Len(section) /\ Len(section) \in Nat
        BY <2>3, <2>4 DEF Carries
      <3> QED
        BY <2>5, <2>6, <3>1, OriginType
    <2>8. ASSUME NEW e \in 1 .. n
          PROVE  section[a + e] = list[i].data[e]
      <3>1. k + e \in 1 .. m /\ a + e = Origin - 1 + (k + e)
        BY <2>5, <2>6, OriginType
      <3>2. section[a + e] = ListOctets(list)[k + e]
        BY <2>4, <3>1 DEF Carries
      <3>3. ListOctets(list)[k + e] = list[i].data[e]
        BY <1>1, <1>2, <1>3, DataLies
      <3> QED
        BY <3>2, <3>3
    <2>9. \A e \in 1 .. n : OctetsAt(a + e) = {list[i].data[e]}
      <3>1. \A e \in 1 .. n : a + e <= Len(section)
        BY <2>3, <2>7
      <3> QED
        BY <2>8, <3>1 DEF OctetsAt
    <2>10. ASSUME NEW d \in EventData
           PROVE  d = list[i].data
      <3>1. CASE n = 1
        <4>1. OctetsAt(cursor) = {list[i].data[1]}
          BY <2>1, <2>9, <3>1
        <4>2. d = <<list[i].data[1]>>
          BY <1>5, <3>1, <4>1 DEF EventData
        <4>3. ASSUME NEW t \in Seq(Octet), Len(t) = 1
              PROVE  t = <<t[1]>>
          BY <4>3
        <4> QED
          BY <1>3, <2>3, <3>1, <4>2, <4>3
      <3>2. CASE n # 1
        <4>1. n = 2
          BY <1>5, <3>2 DEF BytesToEmit
        <4>2. cursor + 1 = a + 2
          BY <2>1
        <4>3. OctetsAt(cursor) = {list[i].data[1]} /\ OctetsAt(cursor + 1) = {list[i].data[2]}
          BY <2>1, <2>9, <4>1, <4>2
        <4>4. d = <<list[i].data[1], list[i].data[2]>>
          BY <1>5, <3>2, <4>3 DEF EventData
        <4>5. ASSUME NEW t \in Seq(Octet), Len(t) = 2
              PROVE  t = <<t[1], t[2]>>
          BY <4>5
        <4> QED
          BY <1>3, <2>3, <4>1, <4>4, <4>5
      <3> QED
        BY <3>1, <3>2
    <2> QED
      BY <1>10, <2>10 DEF EmitMidiEvent
  <1>13. emitted' = Said(list, i)
    <2>1. /\ Said(list, i - 1) \in Seq(Octet)
          /\ Said(list, i) = Said(list, i - 1) \o (<<list[i].status>> \o list[i].data)
      BY <1>1, SaidGrows
    <2>2. <<list[i].status>> \in Seq(Octet) /\ list[i].data \in Seq(Octet)
      <3>1. list[i].status \in Octet
        BY <1>1, CommandTypes DEF Octet
      <3> QED
        BY <1>1, <3>1, CommandTypes
    <2>3. emitted' = (Said(list, i - 1) \o <<list[i].status>>) \o list[i].data
      BY <1>11, <1>12 DEF AtData
    <2>4. \A x, y, z \in Seq(Octet) : (x \o y) \o z = x \o (y \o z)
      BY ConcatAssociative
    <2>5. (Said(list, i - 1) \o <<list[i].status>>) \o list[i].data
             = Said(list, i - 1) \o (<<list[i].status>> \o list[i].data)
      BY <2>1, <2>2, <2>4
    <2> QED
      BY <2>1, <2>3, <2>5
  <1>14. cursor' = Origin + Sent(list, i)
    <2>1. Sent(list, i) = k + n
      BY <1>1, <1>2, <1>3, DataLies
    <2> QED
      BY <1>6, <1>11, <2>1, OriginType
  <1>15. CASE i = Len(list)
    <2>1. cursor' = midiEnd
      BY <1>1, <1>14, <1>15, SentEnds DEF Carries
    <2> QED
      BY <1>11, <1>13, <1>15, <2>1 DEF AtDone, AllSaid
  <1>16. CASE i # Len(list)
    <2>1. PICK j \in 2 .. Len(list) : j - 1 = i
      BY <1>1, <1>16, PartTypes
    <2>2. PICK m \in Nat \ {0} : m = Len(list[j].delta)
      <3>1. Timed(list[j])
        BY <2>1, ListIsReadable DEF Readables
      <3>2. Len(list[j].delta) \in Nat
        BY <1>1, <2>1, CommandTypes
      <3> QED
        BY <3>1, <3>2 DEF Timed
    <2>3. Sent(list, i) + 1 <= Len(ListOctets(list)) /\ Sent(list, i) \in Nat
      <3>1. 1 \in 1 .. Len(list[j].delta)
        BY <2>2
      <3>2. Sent(list, j - 1) + 1 <= Len(ListOctets(list))
        BY <1>1, <3>1, DeltaLies
      <3> QED
        BY <1>1, <2>1, <3>2, PartLies
    <2>4. cursor' # midiEnd
      BY <1>1, <1>14, <2>3, Wholes, OriginType DEF Carries
    <2>5. cursor' = Origin + Sent(list, j - 1) + 0 /\ 0 \in 0 .. Len(list[j].delta) - 1
      BY <1>14, <2>1, <2>2, <2>3, OriginType
    <2>6. at' = "delta" /\ j > 1
      BY <1>11, <2>1, <2>4
    <2>7. status' = list[j - 1].status /\ emitted' = Said(list, j - 1)
      BY <1>11, <1>13, <2>1 DEF AtData
    <2>8. UNCHANGED <<list, section>>
      BY <1>11
    <2>9. \E d \in 0 .. Len(list[j].delta) - 1 : cursor' = Origin + Sent(list, j - 1) + d
      BY <2>5
    <2>10. AtDelta(j)'
      BY <2>6, <2>7, <2>8, <2>9 DEF AtDelta, Origin
    <2> QED
      BY <1>11, <2>10
  <1> QED
    BY <1>15, <1>16

\* The octets of a delta time are skipped, and the last of them leads to the
\* command, or to its data if it has no status of its own.
LEMMA DeltaStep ==
    ASSUME ReadableLists, Carries, NEW i \in 1 .. Len(list), AtDelta(i), Parse
    PROVE  /\ AtCommand(i)' \/ AtData(i)' \/ AtDelta(i)'
           /\ UNCHANGED <<list, section, midiEnd>>
  <1>1. list \in Lists /\ i \in 2 .. Len(list)
    BY DEF Carries, AtDelta
  <1>2. PICK n \in Nat : n = Len(list[i].delta)
    BY <1>1, CommandTypes
  <1>3. PICK d \in 0 .. n - 1 : cursor = Origin + Sent(list, i - 1) + d
    BY <1>2 DEF AtDelta
  <1>4. PICK p \in Nat : p = Sent(list, i - 1)
    BY <1>1, PartLies
  <1>5. d + 1 \in 1 .. n
    BY <1>2, <1>3
  <1>6. /\ p + (d + 1) <= Len(ListOctets(list))
        /\ ListOctets(list)[p + (d + 1)] = list[i].delta[d + 1]
    BY <1>1, <1>2, <1>4, <1>5, DeltaLies
  <1>7. p + d \in Nat /\ p + d < Len(ListOctets(list)) /\ cursor = Origin + (p + d)
    <2>1. PICK m \in Nat : m = Len(ListOctets(list))
      BY <1>1, Wholes
    <2>2. p + (d + 1) <= m
      BY <1>6, <2>1
    <2>3. p + d \in Nat /\ p + d < m
      BY <2>2
    <2>4. cursor = Origin + p + d
      BY <1>3, <1>4
    <2>5. Origin + p + d = Origin + (p + d)
      BY OriginType
    <2> QED
      BY <2>1, <2>3, <2>4, <2>5
  <1>8. /\ cursor # midiEnd /\ Here = ListOctets(list)[p + d + 1] /\ cursor \in Nat
        /\ OctetsAt(cursor) = {Here}
    BY <1>7, CursorInList
  <1>9. Here = list[i].delta[d + 1]
    <2>1. p + d + 1 = p + (d + 1)
      BY <1>3, <1>4
    <2> QED
      BY <1>6, <1>8, <2>1
  <1>10. Here < 128 <=> d + 1 = n
    BY <1>1, <1>2, <1>5, <1>9, ListIsReadable DEF Readables, Timed
  <1>11. Delta
    BY DEF AtDelta, Parse, ListEnd, SysExFound, SysExOctet, SysExLast, StatusFound,
           EmitMidiEvent, PacketDone, InList
  <1>12. /\ UNCHANGED <<list, section, midiEnd, status, emitted>>
         /\ cursor' = cursor + 1
         /\ at' = IF Here >= 128 THEN "delta" ELSE "list"
    BY <1>8, <1>11 DEF Delta
  <1>13. Here >= 128 <=> d + 1 # n
    <2>1. PICK h \in 0 .. 255 : h = Here
      BY <1>7, CursorInList DEF Octet
    <2>2. h >= 128 <=> ~ (h < 128)
      OBVIOUS
    <2> QED
      BY <1>10, <2>1, <2>2
  <1>14. cursor' = Origin + (p + (d + 1))
    <2>1. cursor' = Origin + (p + d) + 1
      BY <1>7, <1>12
    <2>2. Origin + (p + d) + 1 = Origin + (p + (d + 1))
      BY OriginType
    <2> QED
      BY <2>1, <2>2
  <1>15. CASE d + 1 # n
    <2>1. d + 1 \in 0 .. Len(list[i].delta) - 1
      BY <1>2, <1>5, <1>15
    <2>2. cursor' = Origin + Sent(list, i - 1) + (d + 1)
      BY <1>4, <1>14, OriginType
    <2>3. at' = "delta"
      BY <1>12, <1>13, <1>15
    <2>4. \E e \in 0 .. Len(list[i].delta) - 1 : cursor' = Origin + Sent(list, i - 1) + e
      BY <2>1, <2>2
    <2>5. AtDelta(i)'
      BY <1>12, <2>3, <2>4 DEF AtDelta, Origin
    <2> QED
      BY <1>12, <2>5
  <1>16. CASE d + 1 = n
    <2>1. at' = "list"
      BY <1>12, <1>13, <1>16
    <2>2. ToCommand(list, i) = p + n
      BY <1>1, <1>2, <1>4, DeltaLies
    <2>3. cursor' = Origin + ToCommand(list, i)
      BY <1>14, <1>16, <2>2
    <2>4. emitted' = Said(list, i - 1)
      BY <1>12 DEF AtDelta
    <2>5. CASE ~ list[i].running
      <3>1. AtCommand(i)'
        BY <1>12, <2>1, <2>3, <2>4, <2>5 DEF AtCommand, Origin
      <3> QED
        BY <1>12, <3>1
    <2>6. CASE list[i].running
      <3>1. list[i].status # SysExStart /\ list[i - 1].status = list[i].status
        BY <2>6, ListIsReadable DEF Readables, Short, Exclusive
      <3>2. status' = list[i].status
        BY <1>12, <3>1 DEF AtDelta
      <3>3. ToData(list, i) = ToCommand(list, i)
        BY <1>2, <1>4, <2>2, <2>6 DEF ToData
      <3>4. cursor' = Origin + ToData(list, i)
        BY <2>3, <3>3
      <3>5. AtData(i)'
        BY <1>12, <2>1, <2>4, <3>1, <3>2, <3>4 DEF AtData, Origin
      <3> QED
        BY <1>12, <3>5
    <2> QED
      BY <2>5, <2>6
  <1> QED
    BY <1>15, <1>16

\* A SysEx: its status and then its data, of which only the last octet ends it.
LEMMA ExclusiveShape ==
    ASSUME ReadableLists, Carries, NEW i \in 1 .. Len(list), AtSysEx(i)
    PROVE  /\ i = Len(list)
           /\ Command(list[i]) = <<list[i].status>> \o list[i].data
           /\ Len(Command(list[i])) = Len(list[i].data) + 1
           /\ \A k \in 1 .. Len(list[i].data) :
                 Command(list[i])[k + 1] = SysExEnd <=> k = Len(list[i].data)
  <1>1. Exclusive(list[i]) /\ i = Len(list)
    BY ListIsReadable DEF Readables, AtSysEx, Short
  <1>2. PICK n \in Nat \ {0} : n = Len(list[i].data)
    BY DataFollows
  <1>3. list \in Lists
    BY DEF Carries
  <1>4. PICK d \in Seq(Octet) : d = list[i].data
    BY <1>3, CommandTypes
  <1>5. <<list[i].status>> \in Seq(Octet)
    <2>1. list[i].status \in 128 .. 255
      BY <1>3, CommandTypes
    <2>2. list[i].status \in Octet
      BY <2>1 DEF Octet
    <2> QED
      BY <2>2
  <1>6. PICK c : c = Command(list[i]) /\ c = <<list[i].status>> \o d
    BY <1>1, <1>4 DEF Command, Exclusive
  <1>7. /\ c \in Seq(Octet)
        /\ Len(c) = Len(<<list[i].status>>) + Len(d)
        /\ \A k \in 1 .. Len(d) : c[Len(<<list[i].status>>) + k] = d[k]
    BY <1>5, <1>6, ConcatParts
  <1>8. Len(<<list[i].status>>) = 1 /\ n = Len(d)
    BY <1>2, <1>4
  <1>9. Len(c) = n + 1
    BY <1>2, <1>7, <1>8
  <1>10. ASSUME NEW k \in 1 .. n
         PROVE  c[k + 1] = SysExEnd <=> k = n
    <2>1. k + 1 = 1 + k
      OBVIOUS
    <2>2. c[k + 1] = d[k]
      BY <1>7, <1>8, <2>1
    <2> QED
      BY <1>1, <1>4, <1>8, <2>2 DEF Exclusive
  <1> QED
    BY <1>1, <1>2, <1>4, <1>6, <1>9, <1>10

\* The octets of a SysEx are emitted from its status to its end, where the
\* cursor stays.
LEMMA SysExStep ==
    ASSUME ReadableLists, Carries, NEW i \in 1 .. Len(list), AtSysEx(i), Parse
    PROVE  /\ AtSysEx(i)' \/ AtSysExEnd'
           /\ UNCHANGED <<list, section, midiEnd>>
  <1>1. list \in Lists
    BY DEF Carries
  <1>2. PICK n \in Nat \ {0} : n = Len(list[i].data)
    BY DataFollows
  <1>3. PICK c \in Seq(Octet) : c = Command(list[i])
    BY <1>1, CommandTypes
  <1>4. i = Len(list) /\ Len(c) = n + 1
    BY <1>2, <1>3, ExclusiveShape
  <1>5. \A e \in 1 .. n : c[e + 1] = SysExEnd <=> e = n
    BY <1>2, <1>3, ExclusiveShape
  <1>6. c = <<list[i].status>> \o list[i].data
    BY <1>3, ExclusiveShape
  <1>7. PICK k \in 0 .. n : InSysEx(i, k)
    BY <1>2 DEF AtSysEx
  <1>8. PICK p \in Nat : p = ToCommand(list, i)
    BY <1>1, CommandLies
  <1>9. PICK m \in Nat : m = Len(ListOctets(list))
    BY <1>1, Wholes
  <1>10. p + (n + 1) = m
    <2>1. Sent(list, i) = ToCommand(list, i) + Len(Command(list[i]))
      BY <1>1, CommandLies
    <2>2. Sent(list, i) = p + (n + 1)
      BY <1>3, <1>4, <1>8, <2>1
    <2> QED
      BY <1>1, <1>4, <1>9, <2>2, SentEnds
  <1>11. ASSUME NEW e \in 1 .. n + 1
        PROVE  /\ section[Origin + p + e - 1] = c[e]
               /\ Origin + p + e - 1 <= Len(section)
    <2>1. PICK o \in {2, 3} : o = Origin
      BY OriginType
    <2>2. p + e \in 1 .. m /\ o - 1 + (p + e) = o + p + e - 1
      BY <1>10
    <2>3. section[o - 1 + (p + e)] = ListOctets(list)[p + e]
      BY <1>9, <2>1, <2>2 DEF Carries
    <2>4. ListOctets(list)[p + e] = c[e]
      <3>1. \A f \in 1 .. Len(Command(list[i])) :
               ListOctets(list)[ToCommand(list, i) + f] = Command(list[i])[f]
        BY <1>1, CommandLies
      <3> QED
        BY <1>3, <1>4, <1>8, <3>1
    <2>5. o - 1 + m <= Len(section) /\ Len(section) \in Nat
      BY <1>9, <2>1 DEF Carries
    <2>6. o + p + e - 1 <= Len(section)
      BY <2>2, <2>5
    <2> QED
      BY <2>1, <2>2, <2>3, <2>4, <2>6
  <1>12. cursor = Origin + p + k /\ cursor \in Nat
    BY <1>7, <1>8, OriginType DEF InSysEx
  <1>13. k + 1 \in 1 .. n + 1 /\ cursor = Origin + p + (k + 1) - 1
    BY <1>12, OriginType
  <1>14. Here = c[k + 1] /\ cursor <= Len(section)
    BY <1>11, <1>13 DEF Here
  <1>19. OctetsAt(cursor) = {Here}
    BY <1>14 DEF OctetsAt, Here
  <1>15. Said(list, i - 1) \in Seq(Octet)
    BY <1>1, SaidGrows
  <1>16. Append(emitted, Here) = Said(list, i - 1) \o SubSeq(c, 1, k + 1)
    <2>1. emitted = Said(list, i - 1) \o SubSeq(c, 1, k)
      BY <1>3, <1>7 DEF InSysEx
    <2>2. PICK e \in 1 .. Len(c) : e = k + 1 /\ e - 1 = k
      BY <1>4, <1>13
    <2>3. Append(Said(list, i - 1) \o SubSeq(c, 1, e - 1), c[e])
             = Said(list, i - 1) \o SubSeq(c, 1, e)
      BY <1>15, PrefixGrows
    <2> QED
      BY <1>14, <2>1, <2>2, <2>3
  <1>17. CASE k # n
    <2>1. at = "sysex"
      BY <1>2, <1>7, <1>17 DEF InSysEx
    <2>2. SysExOctet
      BY <2>1 DEF Parse, ListEnd, SysExFound, SysExLast, StatusFound,
             EmitMidiEvent, Delta, PacketDone, InList
    <2>3. /\ UNCHANGED <<list, section, midiEnd, status>>
          /\ cursor' = cursor + 1
          /\ emitted' = Append(emitted, Here)
          /\ \E o \in OctetsAt(cursor + 1) : at' = IF o = SysExEnd THEN "sysexEnd" ELSE "sysex"
      BY <1>19, <2>2 DEF SysExOctet
    <2>4. k + 1 \in 1 .. n /\ (k + 1) + 1 \in 1 .. n + 1
      BY <1>17
    <2>5. cursor + 1 = Origin + p + ((k + 1) + 1) - 1
      BY <1>12, OriginType
    <2>6. OctetsAt(cursor + 1) = {c[(k + 1) + 1]}
      <3>1. PICK e \in 1 .. n + 1 : e = (k + 1) + 1
        BY <2>4
      <3>2. section[Origin + p + e - 1] = c[e] /\ Origin + p + e - 1 <= Len(section)
        BY <1>11
      <3> QED
        BY <2>5, <3>1, <3>2 DEF OctetsAt
    <2>7. c[(k + 1) + 1] = SysExEnd <=> k + 1 = n
      BY <1>5, <2>4
    <2>8. at' = IF k + 1 = Len(list[i].data) THEN "sysexEnd" ELSE "sysex"
      BY <1>2, <2>3, <2>6, <2>7
    <2>9. cursor' = Origin + ToCommand(list, i) + (k + 1)
      <3>1. PICK o \in {2, 3} : o = Origin
        BY OriginType
      <3>2. cursor' = o + p + k + 1 /\ o + p + k + 1 = o + p + (k + 1)
        BY <1>12, <2>3, <3>1
      <3> QED
        BY <1>8, <3>1, <3>2
    <2>10. emitted' = Said(list, i - 1) \o SubSeq(Command(list[i]), 1, k + 1)
      BY <1>3, <1>16, <2>3
    <2>11. InSysEx(i, k + 1)'
      BY <2>3, <2>8, <2>9, <2>10 DEF InSysEx, Origin
    <2>12. k + 1 \in 0 .. Len(list[i].data)
      BY <1>2, <2>4
    <2>13. AtSysEx(i)'
      BY <2>3, <2>11, <2>12 DEF AtSysEx
    <2> QED
      BY <2>3, <2>13
  <1>18. CASE k = n
    <2>1. at = "sysexEnd"
      BY <1>2, <1>7, <1>18 DEF InSysEx
    <2>2. SysExLast
      BY <2>1 DEF Parse, ListEnd, SysExFound, SysExOctet, StatusFound,
             EmitMidiEvent, Delta, PacketDone, InList
    <2>4. n \in 1 .. n
      BY <1>2
    <2>5. Here = SysExEnd
      BY <1>14, <1>18, <1>5, <2>4
    <2>3. /\ UNCHANGED <<list, section, cursor, midiEnd, status>>
          /\ emitted' = Append(emitted, Here)
          /\ at' = "list"
      BY <2>2, <2>5 DEF SysExLast
    <2>6. SubSeq(c, 1, k + 1) = c
      <3>1. SubSeq(c, 1, Len(c)) = c
        BY SubSeqFull
      <3> QED
        BY <1>4, <1>18, <3>1
    <2>7. emitted' = Said(list, Len(list))
      <3>1. Said(list, i) = Said(list, i - 1) \o c
        BY <1>1, <1>6, SaidGrows
      <3> QED
        BY <1>4, <1>16, <2>3, <2>6, <3>1
    <2>8. cursor = midiEnd - 1
      <3>1. PICK o \in {2, 3} : o = Origin
        BY OriginType
      <3>2. midiEnd = o + m
        BY <1>9, <3>1 DEF Carries
      <3>3. cursor = o + p + n
        BY <1>12, <1>18, <3>1
      <3>4. o + p + n = o + m - 1
        BY <1>10
      <3> QED
        BY <3>2, <3>3, <3>4
    <2>9. AtSysExEnd'
      BY <1>14, <2>3, <2>5, <2>7, <2>8 DEF AtSysExEnd, AllSaid, Here
    <2> QED
      BY <2>3, <2>9
  <1> QED
    BY <1>17, <1>18

\* Behind the header is the first command, if there is one.
LEMMA PacketStep ==
    ASSUME ReadableLists, Idle, ProcessMidi
    PROVE  ParseInv'
  <1>1. PICK l \in Lists : \E j \in Journals : \E s \in Sections(l, j) : StartPacket(l, s)
    BY DEF ProcessMidi
  <1>2. PICK j \in Journals : \E s \in Sections(l, j) : StartPacket(l, s)
    BY <1>1
  <1>3. PICK s \in Sections(l, j) : StartPacket(l, s)
    BY <1>2
  <1>4. PICK octets \in Seq(Octet) : octets = ListOctets(l)
    BY Wholes
  <1>5. /\ s \in Seq(Octet)
        /\ MidiStart(s) \in {2, 3}
        /\ MidiStart(s) - 1 + Len(octets) <= Len(s)
        /\ Len(octets) < 256 => MidiLength(s) = Len(octets)
        /\ \A k \in 1 .. Len(octets) : s[MidiStart(s) - 1 + k] = octets[k]
    BY <1>4, SectionShape
  <1>6. MidiLength(s) = Len(octets)
    BY <1>4, <1>5 DEF ReadableLists, Readable
  <1>7. /\ list' = l /\ section' = s /\ at' = "list" /\ emitted' = <<>>
        /\ cursor' = MidiStart(s) /\ midiEnd' = MidiStart(s) + MidiLength(s)
    BY <1>3 DEF StartPacket, Idle
  <1>8. Carries'
    BY <1>4, <1>5, <1>6, <1>7 DEF Carries, Origin
  <1>9. CASE Len(l) = 0
    <2>1. Len(octets) = 0
      BY <1>4, <1>9, SentEnds
    <2>2. cursor' = midiEnd'
      BY <1>5, <1>6, <1>7, <2>1
    <2>3. Said(l, Len(l)) = <<>>
      BY <1>9, SaidEnds
    <2>4. AtEnd'
      BY <1>7, <2>2, <2>3 DEF AtEnd, AllSaid
    <2> QED
      BY <1>8, <2>4 DEF ParseInv
  <1>10. CASE Len(l) # 0
    <2>1. 1 \in 1 .. Len(l)
      BY <1>10, PartTypes
    <2>2. ~ l[1].running
      BY <2>1 DEF ReadableLists, Readable
    <2>3. ToCommand(l, 1) = 0 /\ Said(l, 1 - 1) = <<>>
      BY SentEnds, SaidEnds DEF ToCommand
    <2>4. cursor' = MidiStart(s) + ToCommand(l, 1)
      BY <1>5, <1>7, <2>3
    <2>5. AtCommand(1)'
      BY <1>7, <2>2, <2>3, <2>4 DEF AtCommand, Origin
    <2> QED
      BY <1>7, <1>8, <2>1, <2>5 DEF ParseInv
  <1> QED
    BY <1>9, <1>10

LEMMA ParseStep ==
    ASSUME ReadableLists, ParseInv, Parse
    PROVE  ParseInv'
  <1>1. ~ Idle
    BY DEF Idle, Parse, ListEnd, SysExFound, SysExOctet, SysExLast, StatusFound,
           EmitMidiEvent, Delta, PacketDone, InList
  <1>2. Carries
    BY <1>1 DEF ParseInv
  <1>3. CASE AtDone
    BY <1>3, DoneStep DEF ParseInv
  <1>4. CASE AtEnd
    BY <1>2, <1>4, EndStep, CarriesOn DEF ParseInv
  <1>5. CASE AtSysExEnd
    BY <1>2, <1>5, SysExEndStep, CarriesOn DEF ParseInv
  <1>6. ASSUME NEW i \in 1 .. Len(list), AtCommand(i) \/ AtData(i) \/ AtDelta(i) \/ AtSysEx(i)
        PROVE  ParseInv'
    <2>1. CASE AtCommand(i)
      <3>1. (AtData(i)' \/ AtSysEx(i)') /\ UNCHANGED <<list, section, midiEnd>>
        BY <1>2, <2>1, CommandStep
      <3> QED
        BY <1>2, <3>1, CarriesOn DEF ParseInv
    <2>2. CASE AtData(i)
      <3>1. UNCHANGED <<list, section, midiEnd>>
        BY <1>2, <2>2, DataStep
      <3>2. AtDone' \/ \E j \in 2 .. Len(list) : AtDelta(j)'
        BY <1>2, <2>2, DataStep
      <3>3. AtDone' \/ \E j \in 1 .. Len(list') : AtDelta(j)'
        BY <3>1, <3>2
      <3> QED
        BY <1>2, <3>1, <3>3, CarriesOn DEF ParseInv
    <2>3. CASE AtDelta(i)
      <3>1. (AtCommand(i)' \/ AtData(i)' \/ AtDelta(i)') /\ UNCHANGED <<list, section, midiEnd>>
        BY <1>2, <2>3, DeltaStep
      <3> QED
        BY <1>2, <3>1, CarriesOn DEF ParseInv
    <2>4. CASE AtSysEx(i)
      <3>1. (AtSysEx(i)' \/ AtSysExEnd') /\ UNCHANGED <<list, section, midiEnd>>
        BY <1>2, <2>4, SysExStep
      <3> QED
        BY <1>2, <3>1, CarriesOn DEF ParseInv
    <2> QED
      BY <1>6, <2>1, <2>2, <2>3, <2>4
  <1> QED
    BY <1>1, <1>3, <1>4, <1>5, <1>6 DEF ParseInv

LEMMA ParseInvariant == ReadableLists => (Spec => []ParseInv)
  <1> SUFFICES ASSUME ReadableLists
               PROVE  Spec => []ParseInv
    OBVIOUS
  <1>1. Init => ParseInv
    BY DEF Init, ParserInit, ParseInv, Idle
  <1>2. ParseInv /\ [Next]_vars => ParseInv'
    <2> SUFFICES ASSUME ParseInv, [Next]_vars
                 PROVE  ParseInv'
      OBVIOUS
    <2>1. CASE UNCHANGED parserVars
      BY <2>1 DEF ParseInv, Idle, Carries, Origin, AtEnd, AtDone, AtSysExEnd, AllSaid, AtCommand,
                  AtData, AtDelta, AtSysEx, InSysEx, parserVars, Here
    <2>2. CASE ProcessMidi
      <3>1. Idle
        BY <2>2 DEF ParseInv, ProcessMidi, StartPacket, AtEnd, AtDone, AtSysExEnd, AtCommand,
                    AtData, AtDelta, AtSysEx, InSysEx
      <3> QED
        BY <2>2, <3>1, PacketStep
    <2>3. CASE Parse
      BY <2>3, ParseStep
    <2> QED
      BY <2>1, <2>2, <2>3
      DEF Next, vars, Console, ProcessInvitation, ProcessTimestampSync, Answer, Initiator, Invite,
          ControlAccepted, MidiAccepted, Close, StartClock, ClockAccepted, Stray,
          SendInviteResponse, SendTimestampSync, Send
  <1> QED
    BY <1>1, <1>2, PTL DEF Spec

\* For every list the parser can read, and every header, journal and form of
\* it, exactly its commands are emitted, each with its status
\* (rtpmidi_processRtpMidiPacket(), rtpmidi.c:56-79).
THEOREM CommandsAreEmitted == ReadableLists => (Spec => []EmitsCommands)
  <1>1. ParseInv => EmitsCommands
    <2> SUFFICES ASSUME ParseInv, at = "done"
                 PROVE  emitted = Events(list)
      BY DEF EmitsCommands
    <2>1. Carries /\ AtDone
      BY DEF ParseInv, Idle, AtEnd, AtDone, AtSysExEnd, AtCommand, AtData, AtDelta, AtSysEx, InSysEx
    <2> QED
      BY <2>1, SaidEnds DEF Carries, AtDone, AllSaid
  <1> QED
    BY <1>1, ParseInvariant, PTL

\* Where the parser is in a list that it can read, the list has the octets that
\* its next step reads.
LEMMA CursorStays ==
    ASSUME ReadableLists, ParseInv
    PROVE  StaysInList
  <1>1. CASE Idle
    BY <1>1 DEF Idle, StaysInList
  <1>2. CASE Carries
    <2>1. PICK o \in {2, 3} : o = Origin
      BY OriginType
    <2>2. PICK n \in Nat : n = Len(ListOctets(list))
      BY <1>2, Wholes DEF Carries
    <2>3. midiEnd = o + n /\ midiEnd <= Len(section) + 1
      BY <1>2, <2>1, <2>2 DEF Carries
    <2>4. CASE AtEnd \/ AtDone \/ AtSysExEnd
      BY <2>3, <2>4 DEF AtEnd, AtDone, AtSysExEnd, StaysInList
    <2>5. ASSUME NEW i \in 1 .. Len(list), AtCommand(i) \/ AtData(i) \/ AtDelta(i) \/ AtSysEx(i)
          PROVE  StaysInList
      <3>1. list \in Lists
        BY <1>2 DEF Carries
      <3>2. CASE AtCommand(i)
        <4>1. PICK k \in Nat : k = ToCommand(list, i)
          BY <3>1, CommandLies
        <4>2. k < n /\ cursor = o + k
          BY <1>2, <2>1, <2>2, <3>2, <4>1, DataFollows DEF AtCommand
        <4> QED
          BY <2>3, <3>2, <4>2 DEF AtCommand, StaysInList
      <3>3. CASE AtData(i)
        <4>1. PICK k \in Nat : k = ToData(list, i)
          BY <3>1, DataLies
        <4>2. k < n /\ cursor = o + k
          BY <1>2, <2>1, <2>2, <3>3, <4>1, DataFollows DEF AtData
        <4> QED
          BY <2>3, <3>3, <4>2 DEF AtData, StaysInList
      <3>4. CASE AtDelta(i)
        <4>1. i \in 2 .. Len(list)
          BY <3>4 DEF AtDelta
        <4>2. PICK m \in Nat : m = Len(list[i].delta)
          BY <3>1, CommandTypes
        <4>3. PICK d \in 0 .. m - 1 : cursor = Origin + Sent(list, i - 1) + d
          BY <3>4, <4>2 DEF AtDelta
        <4>4. PICK p \in Nat : p = Sent(list, i - 1)
          BY <3>1, <4>1, PartLies
        <4>5. d + 1 \in 1 .. m
          BY <4>2, <4>3
        <4>6. p + (d + 1) <= n
          BY <2>2, <3>1, <4>1, <4>2, <4>4, <4>5, DeltaLies
        <4>7. cursor = o + p + d
          BY <2>1, <4>3, <4>4
        <4> QED
          BY <2>3, <3>4, <4>3, <4>6, <4>7 DEF AtDelta, StaysInList
      <3>5. CASE AtSysEx(i)
        <4>1. PICK m \in Nat \ {0} : m = Len(list[i].data)
          BY <1>2, DataFollows
        <4>2. PICK p \in Nat : p = ToCommand(list, i)
          BY <3>1, CommandLies
        <4>3. PICK k \in 0 .. m : InSysEx(i, k)
          BY <3>5, <4>1 DEF AtSysEx
        <4>4. p + (m + 1) = n
          <5>1. i = Len(list) /\ Len(Command(list[i])) = m + 1
            BY <1>2, <3>5, <4>1, ExclusiveShape
          <5>2. Sent(list, i) = p + (m + 1)
            BY <3>1, <4>2, <5>1, CommandLies
          <5> QED
            BY <2>2, <3>1, <5>1, <5>2, SentEnds
        <4>5. cursor = o + p + k
          BY <2>1, <4>2, <4>3 DEF InSysEx
        <4>6. /\ at \in {"sysex", "sysexEnd"}
              /\ at = "sysex" => k < m
          BY <4>1, <4>3 DEF InSysEx
        <4> QED
          BY <2>3, <4>4, <4>5, <4>6 DEF StaysInList
      <3> QED
        BY <2>5, <3>2, <3>3, <3>4, <3>5
    <2> QED
      BY <1>1, <2>4, <2>5 DEF ParseInv
  <1> QED
    BY <1>1, <1>2 DEF ParseInv

\* In a list that it can read the parser reads no octet but those of the list,
\* though nothing but the test of its cursor for equality with the end keeps it
\* there (rtpmidi.c:40-47 and 59-79).
THEOREM ListIsNotLeft == ReadableLists => (Spec => []StaysInList)
  <1> SUFFICES ASSUME ReadableLists
               PROVE  Spec => []StaysInList
    OBVIOUS
  <1>1. ParseInv => StaysInList
    BY CursorStays
  <1>2. Spec => []ParseInv
    BY ParseInvariant
  <1> QED
    BY <1>1, <1>2, PTL

-----------------------------------------------------------------------------
(* Types.                                                                  *)

LEMMA PacketTypes ==
    ASSUME ParserTypeOK, ProcessMidi
    PROVE  ParserTypeOK'
  <1>1. PICK l \in Lists : \E j \in Journals : \E s \in Sections(l, j) : StartPacket(l, s)
    BY DEF ProcessMidi
  <1>2. PICK j \in Journals : \E s \in Sections(l, j) : StartPacket(l, s)
    BY <1>1
  <1>3. PICK s \in Sections(l, j) : StartPacket(l, s)
    BY <1>2
  <1>4. PICK octets \in Seq(Octet) : octets = ListOctets(l)
    BY Wholes
  <1>5. /\ s \in Seq(Octet)
        /\ MidiStart(s) \in {2, 3}
        /\ MidiLength(s) \in Nat
    BY <1>4, SectionShape
  <1>6. /\ list' = l /\ section' = s /\ at' = "list" /\ status' = 0 /\ emitted' = emitted
        /\ cursor' = MidiStart(s) /\ midiEnd' = MidiStart(s) + MidiLength(s)
    BY <1>3 DEF StartPacket
  <1>8. MidiStart(s) \in Nat \ {0}
    BY <1>5
  <1>9. MidiStart(s) + MidiLength(s) \in Nat
    BY <1>5
  <1> QED
    BY <1>5, <1>6, <1>8, <1>9 DEF ParserTypeOK, ParserAt, Octet

LEMMA ParseTypes ==
    ASSUME ParserTypeOK, Parse
    PROVE  ParserTypeOK'
  <1>1. ASSUME NEW k \in Nat \ {0}
        PROVE  OctetsAt(k) \subseteq Octet
    BY DEF OctetsAt, ParserTypeOK
  <1>2. /\ cursor \in Nat \ {0} /\ cursor + 1 \in Nat \ {0}
        /\ OctetsAt(cursor) \subseteq Octet /\ OctetsAt(cursor + 1) \subseteq Octet
    BY <1>1 DEF ParserTypeOK
  <1>3. CASE ListEnd \/ SysExFound
    BY <1>3 DEF ListEnd, SysExFound, ParserTypeOK, ParserAt
  <1>4. CASE SysExOctet
    <2>1. PICK o \in Octet : emitted' = Append(emitted, o)
      BY <1>2, <1>4 DEF SysExOctet
    <2>2. Append(emitted, o) \in Seq(Octet)
      BY DEF ParserTypeOK
    <2> QED
      BY <1>2, <1>4, <2>1, <2>2 DEF SysExOctet, ParserTypeOK, ParserAt
  <1>5. CASE SysExLast
    <2>1. SysExEnd \in Octet
      BY DEF SysExEnd, Octet
    <2>2. Append(emitted, SysExEnd) \in Seq(Octet)
      BY <2>1 DEF ParserTypeOK
    <2> QED
      BY <1>5, <2>2 DEF SysExLast, ParserTypeOK, ParserAt
  <1>6. CASE StatusFound
    BY <1>2, <1>6 DEF StatusFound, InList, ParserTypeOK
  <1>7. CASE EmitMidiEvent
    <2>1. cursor + BytesToEmit(status) \in Nat \ {0}
      BY <1>2 DEF BytesToEmit
    <2>2. PICK data \in EventData : emitted' = emitted \o <<status>> \o data
      BY <1>7 DEF EmitMidiEvent
    <2>3. data \in Seq(Octet)
      <3>1. \A o \in Octet : <<o>> \in Seq(Octet)
        OBVIOUS
      <3>2. \A o, q \in Octet : <<o, q>> \in Seq(Octet)
        OBVIOUS
      <3>3. CASE BytesToEmit(status) = 1
        <4>1. PICK o \in OctetsAt(cursor) : data = <<o>>
          BY <3>3 DEF EventData
        <4> QED
          BY <1>2, <3>1, <4>1
      <3>4. CASE BytesToEmit(status) # 1
        <4>1. PICK o \in OctetsAt(cursor), q \in OctetsAt(cursor + 1) : data = <<o, q>>
          BY <3>4 DEF EventData
        <4> QED
          BY <1>2, <3>2, <4>1
      <3> QED
        BY <3>3, <3>4
    <2>4. emitted \in Seq(Octet) /\ <<status>> \in Seq(Octet)
      BY DEF ParserTypeOK
    <2>5. \A x, y, z \in Seq(Octet) : x \o y \o z \in Seq(Octet)
      OBVIOUS
    <2>6. emitted' \in Seq(Octet)
      BY <2>2, <2>3, <2>4, <2>5
    <2>7. UNCHANGED <<list, section, midiEnd, status>> /\ at' \in ParserAt
      BY <1>7 DEF EmitMidiEvent, ParserAt
    <2> QED
      BY <1>7, <2>1, <2>6, <2>7 DEF EmitMidiEvent, ParserTypeOK
  <1>8. CASE Delta
    BY <1>2, <1>8 DEF Delta, ParserTypeOK, ParserAt
  <1>9. CASE PacketDone
    BY <1>9 DEF PacketDone, ParserTypeOK, ParserAt, Octet
  <1> QED
    BY <1>3, <1>4, <1>5, <1>6, <1>7, <1>8, <1>9 DEF Parse

\* Every variable of the session and of the parser has a value of its type, on
\* whatever octets, of the packet or behind it, the parser comes (applemidi.c,
\* rtpmidi.c).
THEOREM TypesHold == Spec => []TypeOK
  <1>1. Init => ParserTypeOK
    BY DEF Init, ParserInit, ParserTypeOK, ParserAt, Octet
  <1>2. ParserTypeOK /\ [Next]_vars => ParserTypeOK'
    <2> SUFFICES ASSUME ParserTypeOK, [Next]_vars
                 PROVE  ParserTypeOK'
      OBVIOUS
    <2>1. CASE UNCHANGED parserVars
      BY <2>1 DEF ParserTypeOK, parserVars
    <2>2. CASE ProcessMidi
      BY <2>2, PacketTypes
    <2>3. CASE Parse
      BY <2>3, ParseTypes
    <2> QED
      BY <2>1, <2>2, <2>3
      DEF Next, vars, Console, ProcessInvitation, ProcessTimestampSync, Answer, Initiator, Invite,
          ControlAccepted, MidiAccepted, Close, StartClock, ClockAccepted, Stray,
          SendInviteResponse, SendTimestampSync, Send
  <1>3. Spec => []AnswerInv
    BY AnswersOnly
  <1>4. ParserTypeOK /\ AnswerInv => TypeOK
    BY DEF TypeOK, AnswerInv
  <1> QED
    BY <1>1, <1>2, <1>3, <1>4, PTL DEF Spec
=============================================================================
