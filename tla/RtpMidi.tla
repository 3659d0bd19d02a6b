------------------------------- MODULE RtpMidi -------------------------------
(***************************************************************************)
(* The parser of src/src/rtpmidi.c: a cursor over the MIDI command section *)
(* of an RTP packet.  The section is a header with the length of a list of *)
(* commands, the list, and whatever follows it (a journal, the octets of   *)
(* an earlier packet).  In the list a delta time of one octet or more goes *)
(* before each command but the first; a command may leave out its status.  *)
(*                                                                         *)
(* The packets are made from lists of commands by the sender, which is not *)
(* part of the repository: the parser has to get the commands back.        *)
(*                                                                         *)
(* An operator named X_Bug is X with a plausible mistake in it; it is not  *)
(* part of the specification.                                              *)
(***************************************************************************)
EXTENDS Integers, Sequences, SequencesExt

CONSTANTS
    Lists,     \* lists that are sent: sequences of commands
               \* [delta, status, running, data]
    Journals   \* what may follow a list: sequences of octets

Octet == 0 .. 255
SysExStart == 240    \* MIDI_SYSEX_START
SysExEnd == 247      \* MIDI_SYSEX_END

ASSUME RtpMidiAssumption ==
    /\ Lists \subseteq Seq([delta : Seq(Octet), status : 128 .. 255,
                           running : BOOLEAN, data : Seq(Octet)])
    /\ Journals \subseteq Seq(Octet)

VARIABLES
    list,      \* history: the commands of the packet
    section,   \* commandSection and what follows it
    cursor,    \* index of *cursor in it
    midiEnd,   \* index of *midiEnd in it
    status,    \* status
    at,        \* where rtpmidi_processRtpMidiPacket() is
    emitted    \* octets given to midi_emit()

parserVars == <<list, section, cursor, midiEnd, status, at, emitted>>

ParserAt == {"idle", "list", "sysex", "sysexEnd", "delta", "done"}

ParserInit ==
    /\ list = <<>>
    /\ section = <<>>
    /\ cursor = 1
    /\ midiEnd = 1
    /\ status = 0
    /\ at = "idle"
    /\ emitted = <<>>

-----------------------------------------------------------------------------
(* The sender.                                                             *)

\* A SysEx has its end among its data.
Command(c) == IF c.running THEN c.data ELSE <<c.status>> \o c.data

ListOctets(l) ==
    FlattenSeq([i \in 1 .. Len(l) |->
                  IF i = 1 THEN Command(l[i]) ELSE l[i].delta \o Command(l[i])])

\* The length of a list has twelve bits in its header.
ASSUME ListsFitHeader == \A l \in Lists : Len(ListOctets(l)) < 4096

\* The flag J says that a journal follows.
Sections(l, journal) ==
    LET octets == ListOctets(l)
        j == IF journal = <<>> THEN 0 ELSE 64
        long == <<128 + j + Len(octets) \div 256, Len(octets) % 256>>
        short == <<j + Len(octets)>>
    IN  {h \o octets \o journal : h \in IF Len(octets) < 16 THEN {short, long} ELSE {long}}

\* The commands as they are to be emitted, each with its status.
Events(l) == FlattenSeq([i \in 1 .. Len(l) |-> <<l[i].status>> \o l[i].data])

-----------------------------------------------------------------------------
(* rtpmidi_processRtpMidiPacket().                                         *)

LongHeader(s) == s[1] \div 128 = 1

\* An u16: the flags of a long header are shifted out of it, and so the high
\* part of the length is four bits too high.
TwelveBitMidiLength(s) == (s[1] * 4096 + s[2]) % 65536

\* The journal flag counts as length.
MidiLength_Bug(s) == IF LongHeader(s) THEN TwelveBitMidiLength(s) ELSE s[1] % 128

MidiLength(s) == IF LongHeader(s) THEN TwelveBitMidiLength(s) ELSE s[1] % 16

MidiStart(s) == IF LongHeader(s) THEN 3 ELSE 2

StartPacket(l, s) ==
    /\ at = "idle"
    /\ list' = l
    /\ section' = s
    /\ cursor' = MidiStart(s)
    /\ midiEnd' = MidiStart(s) + MidiLength(s)
    /\ status' = 0
    /\ at' = "list"
    /\ UNCHANGED emitted

\* Nothing stops the cursor at the end of the packet.  What it would read there
\* is whatever an earlier packet left in the buffer: any octet.
OctetsAt(k) == IF k <= Len(section) THEN {section[k]} ELSE Octet

ListEnd ==
    /\ at = "list"
    /\ cursor = midiEnd
    /\ at' = "done"
    /\ UNCHANGED <<list, section, cursor, midiEnd, status, emitted>>

InList == at = "list" /\ cursor # midiEnd

SysExFound ==
    /\ InList
    /\ SysExStart \in OctetsAt(cursor)
    /\ at' = "sysex"
    /\ UNCHANGED <<list, section, cursor, midiEnd, status, emitted>>

\* processSysEx() stops at the octet that ends the SysEx and stays there.
SysExOctet ==
    /\ at = "sysex"
    /\ \E o \in OctetsAt(cursor) : emitted' = Append(emitted, o)
    /\ cursor' = cursor + 1
    /\ \E next \in OctetsAt(cursor + 1) :
          at' = IF next = SysExEnd THEN "sysexEnd" ELSE "sysex"
    /\ UNCHANGED <<list, section, midiEnd, status>>

SysExLast ==
    /\ at = "sysexEnd"
    /\ emitted' = Append(emitted, SysExEnd)
    /\ at' = "list"
    /\ UNCHANGED <<list, section, cursor, midiEnd, status>>

StatusFound ==
    /\ InList
    /\ \E o \in OctetsAt(cursor) :
          /\ o >= 128
          /\ o # SysExStart
          /\ status' = o
    /\ cursor' = cursor + 1
    /\ UNCHANGED <<list, section, midiEnd, at, emitted>>

\* The masks 0xC0 and 0xD0: one octet for each status from 0xC0 on.
BytesToEmit(s) == IF s >= 192 THEN 1 ELSE 2

EventData ==
    IF BytesToEmit(status) = 1
    THEN {<<o>> : o \in OctetsAt(cursor)}
    ELSE OctetsAt(cursor) \X OctetsAt(cursor + 1)

\* emitMidiEvent().  The list may end here, without a delta time.
EmitMidiEvent ==
    /\ InList
    /\ \E data \in EventData :
          /\ data[1] < 128
          /\ emitted' = emitted \o <<status>> \o data
    /\ cursor' = cursor + BytesToEmit(status)
    /\ at' = IF cursor' = midiEnd THEN "done" ELSE "delta"
    /\ UNCHANGED <<list, section, midiEnd, status>>

\* A delta time is one octet.
Delta_Bug ==
    /\ at = "delta"
    /\ cursor' = cursor + 1
    /\ at' = "list"
    /\ UNCHANGED <<list, section, midiEnd, status, emitted>>

\* One octet of a delta time; the last one is below 128.
Delta ==
    /\ at = "delta"
    /\ cursor' = cursor + 1
    /\ \E o \in OctetsAt(cursor) : at' = IF o >= 128 THEN "delta" ELSE "list"
    /\ UNCHANGED <<list, section, midiEnd, status, emitted>>

PacketDone ==
    /\ at = "done"
    /\ at' = "idle"
    /\ list' = <<>>
    /\ section' = <<>>
    /\ cursor' = 1
    /\ midiEnd' = 1
    /\ status' = 0
    /\ emitted' = <<>>

Parse ==
    \/ ListEnd \/ SysExFound \/ SysExOctet \/ SysExLast \/ StatusFound
    \/ EmitMidiEvent \/ Delta \/ PacketDone

-----------------------------------------------------------------------------
(* Properties.                                                             *)

ParserTypeOK ==
    /\ list \in Lists \cup {<<>>}
    /\ section \in Seq(Octet)
    /\ cursor \in Nat \ {0}
    /\ midiEnd \in Nat
    /\ status \in Octet
    /\ at \in ParserAt
    /\ emitted \in Seq(Octet)

\* The octets emitted are those of the commands that were sent, in order, each
\* command with its status, whatever header, delta times, running status and
\* journal they were sent with (README.md:7-11 of the repository: "Both long
\* and short header form", "2-byte and 3-byte MIDI events").
EmitsCommands == at = "done" => emitted = Events(list)

\* Of the octets that the next step of a command reads, the last one lies in the
\* list, and so does the list in the packet.  The cursor is compared with the
\* end of the list for equality only (rtpmidi.c:59): one octet too far, after a
\* delta time, a SysEx or an event, and the parser goes on through the buffer.
StaysInList ==
    /\ cursor <= midiEnd
    /\ midiEnd <= Len(section) + 1
    /\ at \in {"sysexEnd", "delta"} => cursor < midiEnd
    /\ at = "sysex" => cursor + 1 < midiEnd
=============================================================================
