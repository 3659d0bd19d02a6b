----------------------------- MODULE MidiClient -----------------------------
(***************************************************************************)
(* The program of src/src/main.c and src/src/mediator.c: what the callback *)
(* of the frame timer does with the functions of the command layer.  It    *)
(* detects the module, associates, opens the two UDP sockets of AppleMIDI, *)
(* waits for both and then serves the packets that come in.                *)
(***************************************************************************)
EXTENDS MegaWifi

CONSTANTS
    Control,    \* CH_CONTROL_PORT
    Midi,       \* CH_MIDI_PORT
    Retries     \* attempts of mw_detect()

ASSUME MidiClientAssumption ==
    /\ {Control, Midi} = Sockets
    /\ Control # Midi
    /\ Retries \in Nat \ {0}

VARIABLES
    step,       \* what the program is at
    retries     \* attempts mw_detect() has left

vars == <<mwVars, step, retries>>

\* Where the callback has returned to the outermost loop().
Outer == {"start", "absent", "detected", "failed"}
Steps == Outer \cup {"reset", "boot", "probe", "version", "join", "assoc", "ip",
                     "control", "midi", "controlWait", "midiWait", "receive",
                     "send"}

Init ==
    /\ MwInit
    /\ step = "start"
    /\ retries = 0

\* The program goes on where a function has returned to it.
At(s) == call = "returned" /\ step = s
Goto(s) == step' = s /\ UNCHANGED retries
Plain(c) == [cmd |-> c, ch |-> Ctrl]
UdpSet(ch) == [cmd |-> "open", ch |-> ch]

\* The callback returns to the outermost loop().
Leave(s) ==
    /\ Goto(s)
    /\ call' = "idle"
    /\ UNCHANGED <<ready, req, post, err, md, stray, timedOut, timerVars, linkVars,
                   modVars>>

-----------------------------------------------------------------------------
(* megawifi_init_cb() and mw_detect().                                     *)

FrameTimer == call = "idle" /\ ~stray

DetectReset == FrameTimer /\ step = "start" /\ Sleep /\ Goto("reset")
DetectBoot == At("reset") /\ Sleep /\ Goto("boot")

\* Each attempt starts with empty FIFOs.
Attempt ==
    /\ ResetFifos
    /\ step' = "probe"

DetectFirst ==
    /\ At("boot")
    /\ Attempt
    /\ retries' = Retries - 1

\* The number of attempts is not limited.
DetectAgain_Bug ==
    /\ At("version")
    /\ err
    /\ Attempt
    /\ retries' = retries - 1

DetectAgain ==
    /\ At("version")
    /\ err
    /\ retries > 0
    /\ Attempt
    /\ retries' = retries - 1

DetectAsk == At("probe") /\ Command(Plain("version")) /\ Goto("version")

DetectFails == At("version") /\ err /\ retries = 0 /\ Leave("absent")
Detected == At("version") /\ ~err /\ Leave("detected")

-----------------------------------------------------------------------------
(* udp_test(), one frame later.                                            *)

Join == FrameTimer /\ step = "detected" /\ Command(Plain("ap_join")) /\ Goto("join")

\* A failed command is not noticed.
Associate_Bug == At("join") /\ AssocWait /\ Goto("assoc")

Associate == At("join") /\ ~err /\ AssocWait /\ Goto("assoc")
ShowIp == At("assoc") /\ ~err /\ Command(Plain("ip_current")) /\ Goto("ip")
OpenControl == At("ip") /\ ~err /\ Command(UdpSet(Control)) /\ Goto("control")
OpenMidi == At("control") /\ ~err /\ Command(UdpSet(Midi)) /\ Goto("midi")
WaitControl == At("midi") /\ ~err /\ SockWait(Control) /\ Goto("controlWait")
WaitMidi == At("controlWait") /\ ~err /\ SockWait(Midi) /\ Goto("midiWait")

\* Any error ends udp_test(), which deletes its timer.
GiveUp ==
    /\ \E s \in {"join", "assoc", "ip", "control", "midi", "controlWait", "midiWait"} : At(s)
    /\ err
    /\ Leave("failed")

\* mediator_receive(), again and again, whatever it returns.
Serve ==
    /\ \/ At("midiWait") /\ ~err
       \/ At("receive")
       \/ At("send")
    /\ RecvSync(FALSE)
    /\ Goto("receive")

\* A packet may be answered, once, on its own channel.  mediator_send() never
\* sees mw_send_sync() fail: without a time limit only cmd_send_cb() ends it.
Respond ==
    /\ At("receive")
    /\ ~err
    /\ md \in {Control, Midi}
    /\ SendSync(md, FALSE)
    /\ Goto("send")

Program ==
    \/ DetectReset \/ DetectBoot \/ DetectFirst \/ DetectAsk \/ DetectAgain
    \/ DetectFails \/ Detected
    \/ Join \/ Associate \/ ShowIp \/ OpenControl \/ OpenMidi
    \/ WaitControl \/ WaitMidi \/ GiveUp \/ Serve \/ Respond

Next == (MwNext /\ UNCHANGED <<step, retries>>) \/ Program

Spec == Init /\ [][Next]_vars

\* The program goes on whenever it has the processor, and a running timer comes
\* due because the loop counts frames (module Loop, TimerComesDue).  Nothing is
\* asked of the module or of the line.
FairSpec ==
    /\ Spec
    /\ WF_vars(Program)
    /\ WF_vars(Returns /\ UNCHANGED <<step, retries>>)
    /\ WF_vars((CmdTout \/ PollDue("assoc") \/ PollDue("sock"))
               /\ UNCHANGED <<step, retries>>)

-----------------------------------------------------------------------------
(* Properties.                                                             *)

\* Every variable has a value of its type; tout_frames fits its 16 bits.
TypeOK ==
    /\ ready \in BOOLEAN
    /\ call \in Waits \cup {"idle", "returned"}
    /\ req \in Request \cup {NoRequest}
    /\ post \in Posts \cup {NoPost}
    /\ err \in BOOLEAN
    /\ md \in Channels
    /\ cmd \in Request \cup {NoRequest} \cup Frame
    /\ timer \in [on : BOOLEAN, cb : TimerCbs, reload : BOOLEAN]
    /\ tout \in -(Word \div 2) .. Word \div 2 - 1
    /\ poll \in BOOLEAN
    /\ monitor \in Channels
    /\ tx \in [busy : BOOLEAN, req : Request \cup {NoRequest}, torn : BOOLEAN,
               cb : BOOLEAN]
    /\ rx \in [cb : RecvCbs, cmd : BOOLEAN]
    /\ chOn \subseteq Channels
    /\ asked \in Seq(Request)
    /\ fromMod \in Seq(Frame)
    /\ opened \subseteq Sockets
    /\ mixed \in BOOLEAN
    /\ stray \in BOOLEAN
    /\ timedOut \in BOOLEAN
    /\ step \in Steps
    /\ retries \in 0 .. Retries

\* The timer runs only for the function that waits and that started it, with
\* the callback and the reloading which that function asked for: no timeout is
\* left behind to end a later wait (loop_timer_stop() in every callback of
\* megawifi.c, and "Restore default timer values" at its lines 600 and 831).
TimerOwned ==
    timer.on =>
        /\ Pending
        /\ call \in {"sleep", "command", "assoc", "sock"}
        /\ timer.cb = IF call \in {"assoc", "sock"} THEN call ELSE "tout"
        /\ timer.reload = (call \in {"assoc", "sock"})

\* While a function waits, the receiver is armed with a callback of its own or
\* not at all: no reply to an earlier function can end its wait.
ReceiverOwned ==
    Pending /\ rx.cb # "none" =>
        rx.cb = IF call \in {"assoc", "sock"} THEN call ELSE "cmd"

\* A flag left set by a wait that is over would let a late reply post
\* (d.stat_poll, tested by stat_reply_cb() and sock_stat_reply_cb()).
PollFlagOwned == poll => call \in {"assoc", "sock"}

\* As long as no command was given up, one that succeeds has the module's answer
\* to its own request in *d.cmd, and so has the wait for association: data that
\* comes between is told apart, and no answer is left over for a later command.
Succeeds == call \in {"command", "assoc"} /\ call' = "returned" /\ ~err'

ReplyMatches ==
    [][~timedOut /\ Succeeds => cmd \in Frame /\ cmd.re = req]_vars

\* Data reaches the receiver only on a channel it has enabled: the module opens
\* a socket before the console knows, but the answer that makes mw_udp_set()
\* enable the channel comes first.  (On a disabled channel the data link would
\* lose its place.)
DataOnOpenChannel ==
    LoopRuns /\ rx.cb # "none" /\ fromMod # <<>> => Head(fromMod).ch \in chOn

\* Unless the module goes on sending datagrams for ever, the start comes to an
\* end: the program serves packets or has given up.  (Each datagram that comes
\* while a command waits for its answer starts the time limit anew,
\* megawifi.c:150-153.)
StartEnds ==
    \/ []<><<Datagram>>_vars
    \/ <>(step \in {"receive", "absent", "failed"})

\* loop.h:212: "Do not call this function if there is not a pending loop_pend()".
PostsOnlyWhenPending == ~stray

\* megawifi.h:446: mw_sock_conn_wait() "Polls a socket until it is ready to
\* transfer data": when it succeeds, the module has said so of this socket.
SockWaitTruthful == ~timedOut /\ call = "sock" /\ post = OK => cmd.re = req

\* A command leaves the console as it was written, as long as nothing but answers
\* comes back: the one buffer is not written to while a command is sent from it.
\* (A datagram that arrives meanwhile does damage the command.)
CommandSentWhole == ~timedOut /\ ~mixed => ~tx.torn
=============================================================================
