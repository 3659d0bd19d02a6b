------------------------------ MODULE AppleMidi ------------------------------
(***************************************************************************)
(* The session of src/src/applemidi.c.  The other end of the session, the  *)
(* initiator, invites the console on its control port, then on its MIDI    *)
(* port, then measures clocks and sends MIDI.  The console keeps nothing:  *)
(* it answers each packet for what it is.  Packets are UDP datagrams: they *)
(* may be lost, duplicated and reordered, so those that were ever sent are *)
(* sets, and to receive one does not take it away.                         *)
(*                                                                         *)
(* The initiator is not part of the repository.  A packet of MIDI commands *)
(* is taken by the parser (module RtpMidi) before the next is looked at.   *)
(***************************************************************************)
EXTENDS RtpMidi

CONSTANTS
    Control,    \* CH_CONTROL_PORT
    Midi,       \* CH_MIDI_PORT
    Tokens,     \* bound: sessions the initiator tries, 1 .. n
    Stamps,     \* bound: clock messages it starts, 1 .. n
    Lengths,    \* lengths of its invitations, which end in its name
    Strays      \* bound: packets cut short, which may come from anywhere

Ports == {Control, Midi}

ASSUME AppleMidiAssumption ==
    /\ Control # Midi
    /\ Tokens \in Nat \ {0}
    /\ Stamps \in Nat
    /\ Lengths \subseteq Nat \ (0 .. 16)

\* Lengths of packets: APPLE_MIDI_EXCH_PKT_MIN_LEN (a name of one octet, its
\* zero) and TIMESYNC_PKT_LEN.
MinLength == 17
ClockLength == 36

VARIABLES
    peer,       \* the initiator: state, token, clock, and the last clock
                \* message that was answered
    toConsole,  \* packets sent to the console, other than MIDI
    toPeer      \* packets the console sent

vars == <<parserVars, peer, toConsole, toPeer>>

Invitation == [type : {"IN"}, ch : Ports, token : 1 .. Tokens, length : Lengths]
Acceptance == [type : {"OK"}, ch : Ports, token : 1 .. Tokens]
ClockMessage == [type : {"CK"}, count : 0 .. 2, timestamp1 : 1 .. Stamps,
                 timestamp2 : 0 .. Stamps, timestamp3 : 0 .. Stamps,
                 length : {ClockLength}]
Clock(n, t1, t2, t3) == [type |-> "CK", count |-> n, timestamp1 |-> t1,
                         timestamp2 |-> t2, timestamp3 |-> t3, length |-> ClockLength]

ASSUME StraysAssumption ==
    Strays \subseteq [type : {"IN"}, ch : Ports, token : 1 .. Tokens, length : 0 .. MinLength - 1]
                    \cup {[m EXCEPT !.length = n] : m \in ClockMessage,
                                                   n \in 2 .. ClockLength - 1}

Init ==
    /\ ParserInit
    /\ peer = [state |-> "closed", token |-> 0, clock |-> 0, synced |-> 0]
    /\ toConsole = {}
    /\ toPeer = {}

-----------------------------------------------------------------------------
(* The console: applemidi_processSessionControlPacket() and                *)
(* applemidi_processSessionMidiPacket(), one packet at a time.             *)

Answer(m) ==
    /\ toPeer' = toPeer \cup {m}
    /\ UNCHANGED <<parserVars, peer, toConsole>>

\* What unpackInvitation() and unpackTimestampSync() take; the caller has found
\* the signature.  A packet they refuse is dropped: the error is shown.
UnpackInvitation(m) == m.type = "IN" /\ m.length >= MinLength

\* One of the nine words of a message is not counted.
UnpackTimestampSync_Bug(m) == m.type = "CK" /\ m.length = 32

UnpackTimestampSync(m) == m.type = "CK" /\ m.length = ClockLength

\* The answer goes to the control port.
SendInviteResponse_Bug(ch, m) == Answer([type |-> "OK", ch |-> Control, token |-> m.token])
SendInviteResponse(ch, m) == Answer([type |-> "OK", ch |-> ch, token |-> m.token])

\* Both ports take invitations, at any time.
ProcessInvitation(m) ==
    /\ at = "idle"
    /\ m \in toConsole
    /\ UnpackInvitation(m)
    /\ SendInviteResponse(m.ch, m)

\* It has the length of the message, whose octets it is made of.
SendTimestampSync(m) == Answer(m)

\* Every message is answered with the next.
ProcessTimestampSync_Bug(m) ==
    /\ at = "idle"
    /\ m \in toConsole
    /\ UnpackTimestampSync(m)
    /\ SendTimestampSync(Clock(m.count + 1, m.timestamp1, 0, m.timestamp3))

\* The count of the message is not looked at.
ProcessTimestampSync_Bug2(m) ==
    /\ at = "idle"
    /\ m \in toConsole
    /\ UnpackTimestampSync(m)
    /\ SendTimestampSync(Clock(1, m.timestamp1, 0, m.timestamp3))

\* Only the first of the three messages is answered.  "Mega Drive returns zero
\* timestamp"; the other fields are those of the message.
ProcessTimestampSync(m) ==
    /\ at = "idle"
    /\ m \in toConsole
    /\ UnpackTimestampSync(m)
    /\ m.count = 0
    /\ SendTimestampSync(Clock(1, m.timestamp1, 0, m.timestamp3))

\* A packet without the signature, on the MIDI port, is MIDI.
ProcessMidi ==
    /\ peer.state = "open"
    /\ \E l \in Lists, j \in Journals : \E s \in Sections(l, j) : StartPacket(l, s)
    /\ UNCHANGED <<peer, toConsole, toPeer>>

Console ==
    \/ \E m \in toConsole : ProcessInvitation(m) \/ ProcessTimestampSync(m)
    \/ ProcessMidi
    \/ Parse /\ UNCHANGED <<peer, toConsole, toPeer>>

-----------------------------------------------------------------------------
(* The initiator.                                                          *)

Send(m) == toConsole' = toConsole \cup {m} /\ UNCHANGED <<parserVars, toPeer>>
Accepted(ch) == [type |-> "OK", ch |-> ch, token |-> peer.token] \in toPeer

Invite ==
    /\ peer.state = "closed"
    /\ peer.token < Tokens
    /\ peer' = [peer EXCEPT !.state = "control", !.token = @ + 1]
    /\ \E n \in Lengths : Send([type |-> "IN", ch |-> Control,
                                token |-> peer'.token, length |-> n])

ControlAccepted ==
    /\ peer.state = "control"
    /\ Accepted(Control)
    /\ peer' = [peer EXCEPT !.state = "midi"]
    /\ \E n \in Lengths : Send([type |-> "IN", ch |-> Midi,
                                token |-> peer.token, length |-> n])

MidiAccepted ==
    /\ peer.state = "midi"
    /\ Accepted(Midi)
    /\ peer' = [peer EXCEPT !.state = "open"]
    /\ UNCHANGED <<parserVars, toConsole, toPeer>>

\* It gives up, or ends a session, as long as it may try again.
Close ==
    /\ peer.state # "closed"
    /\ peer.token < Tokens
    /\ peer' = [peer EXCEPT !.state = "closed"]
    /\ UNCHANGED <<parserVars, toConsole, toPeer>>

ClockRequest(k) == Clock(0, k, 0, 0)

StartClock ==
    /\ peer.state = "open"
    /\ peer.clock < Stamps
    /\ peer' = [peer EXCEPT !.clock = @ + 1]
    /\ Send(ClockRequest(peer'.clock))

ClockAccepted ==
    /\ peer.state = "open"
    /\ peer.synced < peer.clock
    /\ \E m \in toPeer :
          /\ m.type = "CK"
          /\ m.count = 1
          /\ m.timestamp1 = peer.clock
          /\ Send(Clock(2, m.timestamp1, m.timestamp2, peer.clock))
    /\ peer' = [peer EXCEPT !.synced = peer.clock]

Stray ==
    /\ \E m \in Strays : Send(m)
    /\ UNCHANGED peer

Initiator ==
    \/ Invite \/ ControlAccepted \/ MidiAccepted \/ Close
    \/ StartClock \/ ClockAccepted \/ Stray

Next == Console \/ Initiator

Spec == Init /\ [][Next]_vars

\* The initiator repeats what is not answered, the network does not lose all of
\* it, and the console takes packets in the order they reach it (LsdLink), so
\* no packet waits for ever behind others.  The console goes on parsing.
FairSpec ==
    /\ Spec
    /\ WF_vars(Parse /\ UNCHANGED <<peer, toConsole, toPeer>>)
    /\ \A m \in Invitation : SF_vars(ProcessInvitation(m))
    /\ \A k \in 1 .. Stamps : SF_vars(ProcessTimestampSync(ClockRequest(k)))
    /\ WF_vars(Invite)
    /\ WF_vars(ControlAccepted)
    /\ WF_vars(MidiAccepted)
    /\ WF_vars(ClockAccepted)

-----------------------------------------------------------------------------
(* Properties.                                                             *)

SessionTypeOK ==
    /\ peer \in [state : {"closed", "control", "midi", "open"}, token : 0 .. Tokens,
                 clock : 0 .. Stamps, synced : 0 .. Stamps]
    /\ toConsole \subseteq Invitation \cup ClockMessage \cup Strays
    /\ toPeer \subseteq Acceptance \cup ClockMessage

\* Every variable has a value of its type.
TypeOK == ParserTypeOK /\ SessionTypeOK

\* Whatever the console sent answers something it was sent, whole: an acceptance
\* an invitation to the same port, a clock message the first of an exchange.
\* What is cut short is not answered (the octets behind it would be those of an
\* earlier packet), nor is the last message of an exchange, late or repeated:
\* the two ends cannot go on answering each other.
AnswersRequests ==
    \A a \in toPeer :
       \/ a.type = "OK" /\ \E m \in toConsole :
             m.type = "IN" /\ m.ch = a.ch /\ m.token = a.token /\ m.length >= MinLength
       \/ a.type = "CK" /\ a.count = 1
          /\ Clock(0, a.timestamp1, a.timestamp2, a.timestamp3) \in toConsole

\* The initiator gets its session, though packets are lost, late and repeated,
\* and though it may give up some attempts half-way: the console, which keeps
\* no state, is in none that stands in the way.
SessionOpens == <>(peer.state = "open")

\* Clocks are measured in between, and after, any MIDI packets.
ClockAnswered ==
    \A k \in 1 .. Stamps :
       peer.clock = k ~> peer.synced >= k \/ peer.state # "open" \/ peer.clock > k
=============================================================================
