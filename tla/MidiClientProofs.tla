-------------------------- MODULE MidiClientProofs --------------------------
(* For every number of attempts, every time limit and whatever the module  *)
(* does: every variable keeps its type, no function is woken by the timer  *)
(* or by the receiver of another, data comes on enabled channels only,     *)
(* and as long as no command is given up there is one command at a time,   *)
(* so that a command is sent whole and gets its own answer.                *)
EXTENDS MidiClient, SequenceTheorems, TLAPS

Polls == {"assoc", "sock"}

\* The timer keeps the default callback outside of the functions that poll,
\* and it is off whenever nothing waits.
TimerShape ==
    /\ timer \in [on : BOOLEAN, cb : TimerCbs, reload : BOOLEAN]
    /\ timer.on => Pending /\ call \in {"sleep", "command"} \cup Polls
    /\ call \in Polls => timer.cb = call /\ timer.reload
    /\ call \notin Polls => timer.cb = "tout" /\ ~timer.reload

SleepSteps == {"reset", "boot"}
CommandSteps == {"version", "join", "ip", "control", "midi"}
SockSteps == {"controlWait", "midiWait"}

\* The function each step of the program waits in.
StepCall ==
    /\ step \in Steps
    /\ step \in Outer => call = "idle"
    /\ step \in SleepSteps => call \in {"sleep", "returned"}
    /\ step = "probe" => call = "returned"
    /\ step \in CommandSteps => call \in {"command", "returned"}
    /\ step = "assoc" => call \in {"assoc", "returned"}
    /\ step \in SockSteps => call \in {"sock", "returned"}
    /\ step = "receive" => call \in {"recv", "returned"}
    /\ step = "send" => call \in {"send", "returned"}

\* Without the UART no command is sent, and detection fails.
ReadyShape ==
    ~ready => /\ step \in {"start", "probe", "version", "absent"} \cup SleepSteps
              /\ step = "version" => call = "returned" /\ err

\* The callback each step may find in the receiver: after a command that
\* succeeded there is none.
ReceiverShape ==
    /\ step \in {"start"} \cup SleepSteps => rx.cb = "none"
    /\ step \in {"probe", "detected"} \cup CommandSteps => rx.cb \in {"none", "cmd"}
    /\ step \in CommandSteps /\ call = "command" /\ post = OK => rx.cb = "none"
    /\ step \in CommandSteps /\ call = "returned" /\ ~err => rx.cb = "none"
    /\ step = "assoc" => rx.cb \in {"none", "assoc"}
    /\ step \in SockSteps => rx.cb \in {"none", "sock"}
    /\ step \in {"receive", "send"} => rx.cb \in {"none", "cmd"}

\* Only data is sent with a callback.
SenderShape ==
    /\ DOMAIN tx = {"busy", "req", "torn", "cb"}
    /\ tx.busy /\ tx.cb => step \in {"receive", "send"}

ReceiverInv == StepCall /\ ReadyShape /\ ReceiverShape /\ SenderShape

-----------------------------------------------------------------------------
(* The timer.                                                              *)

LEMMA TimerInit ==
    Init => TimerShape
  BY DEF Init, MwInit, TimerShape, TimerCbs, Polls

\* Of the callbacks, those that stop the timer may wake the function.
LEMMA TimerCallbacks ==
    ASSUME TimerShape, Callbacks
    PROVE  TimerShape'
  <1>1. CASE CmdRecv
    BY <1>1 DEF CmdRecv, TimerShape, TimerOff, Polls
  <1>2. CASE AssocReply
    BY <1>2 DEF AssocReply, StatReady, StatAgain, TimerShape, TimerOff, Polls,
                callVars, timerVars, Pending
  <1>3. CASE SockReply
    BY <1>3 DEF SockReply, StatReady, StatAgain, TimerShape, TimerOff, Polls,
                callVars, timerVars, Pending
  <1>4. CASE Sent
    BY <1>4 DEF Sent, TimerShape, TimerOff, Polls, Pending
  <1>5. CASE CmdTout
    BY <1>5 DEF CmdTout, Due, TimerShape, TimerOff, Polls
  <1>6. ASSUME NEW cb, PollDue(cb)
        PROVE  TimerShape'
    <2>1. CASE PollOver
      BY <1>6, <2>1 DEF PollDue, PollOver, TimerShape, TimerOff, Polls
    <2>2. CASE PollAgain(cb)
      BY <1>6, <2>2 DEF PollDue, PollAgain, TimerShape, Polls, Pending
    <2> QED
      BY <1>6, <2>1, <2>2 DEF PollDue
  <1> QED
    BY <1>1, <1>2, <1>3, <1>4, <1>5, <1>6 DEF Callbacks

\* A function that has been woken finds the timer stopped.
LEMMA TimerReturns ==
    ASSUME TimerShape, Returns
    PROVE  TimerShape'
  <1>1. CASE SleepDone
    BY <1>1 DEF SleepDone, Woken, Return, TimerShape, timerVars, Polls, Pending
  <1>2. CASE CommandDone
    BY <1>2 DEF CommandDone, Woken, Return, TimerShape, timerVars, Polls, Pending
  <1>3. CASE CommandData
    BY <1>3 DEF CommandData, Woken, Wait, Waits, TimerOn, TimerShape, Polls, Pending
  <1>4. ASSUME NEW f \in Polls, PollDone(f)
        PROVE  TimerShape'
    BY <1>4 DEF PollDone, Woken, Return, TimerShape, TimerCbs, Polls, Pending
  <1>5. ASSUME NEW f \in {"recv", "send"}, DataDone(f)
        PROVE  TimerShape'
    BY <1>5 DEF DataDone, Woken, Return, TimerShape, timerVars, Polls, Pending
  <1> QED
    BY <1>1, <1>2, <1>3, <1>4, <1>5 DEF Returns, Polls

LEMMA TimerModule ==
    ASSUME TimerShape, Module
    PROVE  TimerShape'
  BY DEF Module, Takes, Answer, Ignore, Datagram, TimerShape, callVars, timerVars, Pending

\* The functions are called with the timer stopped.
LEMMA TimerFunctions ==
    ASSUME TimerShape, call \in {"idle", "returned"}
    PROVE  /\ Sleep => TimerShape'
           /\ \A r : Command(r) => TimerShape'
           /\ AssocWait => TimerShape'
           /\ \A ch : SockWait(ch) => TimerShape'
           /\ RecvSync(FALSE) => TimerShape'
           /\ \A ch : SendSync(ch, FALSE) => TimerShape'
  <1> USE DEF TimerShape, Wait, Waits, TimerOn, timerVars, Polls, Pending, TimerCbs
  <1>1. Sleep => TimerShape'
    BY DEF Sleep
  <1>2. \A r : Command(r) => TimerShape'
    BY DEF Command, Ask, Refuse, Return
  <1>3. AssocWait => TimerShape'
    BY DEF AssocWait, PollWait
  <1>4. \A ch : SockWait(ch) => TimerShape'
    BY DEF SockWait, PollWait
  <1>5. RecvSync(FALSE) => TimerShape'
    BY DEF RecvSync
  <1>6. \A ch : SendSync(ch, FALSE) => TimerShape'
    BY DEF SendSync
  <1> QED
    BY <1>1, <1>2, <1>3, <1>4, <1>5, <1>6

LEMMA TimerProgram ==
    ASSUME TimerShape, Program
    PROVE  TimerShape'
  <1>1. ASSUME NEW s, Leave(s), call = "returned"
        PROVE  TimerShape'
    BY <1>1 DEF Leave, TimerShape, timerVars, Polls, Pending, Waits
  <1>2. CASE ResetFifos
    BY <1>2 DEF ResetFifos, TimerShape, callVars, timerVars, Pending
  <1> QED
    BY <1>1, <1>2, TimerFunctions
    DEF Program, At, FrameTimer, DetectReset, DetectBoot, DetectFirst, DetectAsk,
        DetectAgain, Attempt, DetectFails, Detected, Join, Associate, ShowIp,
        OpenControl, OpenMidi, WaitControl, WaitMidi, GiveUp, Serve, Respond

LEMMA TimerStep ==
    TimerShape /\ [Next]_vars => TimerShape'
  <1> SUFFICES ASSUME TimerShape, [Next]_vars
               PROVE  TimerShape'
    OBVIOUS
  <1>1. CASE MwNext
    BY <1>1, TimerCallbacks, TimerReturns, TimerModule DEF MwNext
  <1>2. CASE Program
    BY <1>2, TimerProgram
  <1>3. CASE UNCHANGED vars
    BY <1>3 DEF vars, mwVars, callVars, timerVars, TimerShape, Pending
  <1> QED
    BY <1>1, <1>2, <1>3 DEF Next

\* No timeout is left behind to end the wait of another function.
THEOREM TimerIsOwned == Spec => []TimerOwned
  <1>1. TimerShape => TimerOwned
    BY DEF TimerShape, TimerOwned, Polls
  <1> QED
    BY TimerInit, TimerStep, <1>1, PTL DEF Spec

-----------------------------------------------------------------------------
(* The receiver.                                                           *)

\* Sending a command gives no callback to the transmitter.
LEMMA SenderKept ==
    ASSUME NEW t, DOMAIN t = {"busy", "req", "torn", "cb"}, NEW r, NEW u \in CmdSend(t, r)
    PROVE  /\ DOMAIN u = {"busy", "req", "torn", "cb"}
           /\ u.busy /\ u.cb => t.busy /\ t.cb
  BY DEF CmdSend

LEMMA OverwrittenKept ==
    ASSUME DOMAIN tx = {"busy", "req", "torn", "cb"}, NEW u \in Overwritten(tx)
    PROVE  /\ DOMAIN u = {"busy", "req", "torn", "cb"}
           /\ u.busy /\ u.cb => tx.busy /\ tx.cb
  BY DEF Overwritten

LEMMA ReceiverInit ==
    Init => ReceiverInv
  BY DEF Init, MwInit, Idle, Outer, Steps, SleepSteps, CommandSteps, SockSteps,
         ReceiverInv, StepCall, ReadyShape, ReceiverShape, SenderShape

\* A frame empties the receiver.
LEMMA ReceiverFrames ==
    ASSUME ReceiverInv, CmdRecv \/ AssocReply \/ SockReply, UNCHANGED <<step, retries>>
    PROVE  ReceiverInv'
  <1>1. /\ UNCHANGED <<step, ready, call, err>>
        /\ rx'.cb = "none"
    BY DEF CmdRecv, AssocReply, SockReply, StatReady, StatAgain, Complete, Idle,
           callVars
  <1>2. SenderShape'
    <2>1. \E u \in Overwritten(tx) : tx' = u \/ \E r : tx' \in CmdSend(u, r)
      BY DEF CmdRecv, AssocReply, SockReply, StatReady, StatAgain
    <2> QED
      BY <1>1, <2>1, SenderKept, OverwrittenKept DEF ReceiverInv, SenderShape
  <1> QED
    BY <1>1, <1>2 DEF ReceiverInv, StepCall, ReadyShape, ReceiverShape

\* The transmitter and the timer do not tell a command that it has succeeded.
LEMMA ReceiverSent ==
    ASSUME ReceiverInv, Sent, UNCHANGED <<step, retries>>
    PROVE  ReceiverInv'
  <1>1. step \in CommandSteps => UNCHANGED post
    BY DEF Sent, ReceiverInv, SenderShape, CommandSteps
  <1>2. SenderShape'
    BY DEF Sent, ReceiverInv, SenderShape
  <1> QED
    BY <1>1, <1>2 DEF Sent, ReceiverInv, StepCall, ReadyShape, ReceiverShape

LEMMA ReceiverTimer ==
    ASSUME ReceiverInv, TimerShape, UNCHANGED <<step, retries>>,
           CmdTout \/ PollDue("assoc") \/ PollDue("sock")
    PROVE  ReceiverInv'
  <1>1. CASE CmdTout
    <2>1. post' # post => post' # OK
      BY <1>1 DEF CmdTout, Post, Timeout, OK
    <2> QED
      BY <1>1, <2>1 DEF CmdTout, linkVars, ReceiverInv, StepCall, ReadyShape,
                        ReceiverShape, SenderShape
  <1>2. ASSUME NEW cb \in Polls, PollDue(cb)
        PROVE  ReceiverInv'
    <2>1. call = cb
      BY <1>2 DEF PollDue, Due, TimerShape, Polls
    <2>2. /\ step = "assoc" => cb = "assoc"
          /\ step \in SockSteps => cb = "sock"
          /\ step \in {"assoc"} \cup SockSteps
      BY <2>1 DEF ReceiverInv, StepCall, Steps, Outer, SleepSteps, CommandSteps,
                  SockSteps, Polls
    <2>3. UNCHANGED rx \/ rx'.cb = cb
      BY <1>2 DEF PollDue, PollOver, PollAgain, Armed
    <2> QED
      BY <1>2, <2>2, <2>3
      DEF PollDue, ReceiverInv, StepCall, ReadyShape, ReceiverShape, SenderShape,
          SleepSteps, CommandSteps, SockSteps
  <1> QED
    BY <1>1, <1>2 DEF Polls

LEMMA ReceiverReturns ==
    ASSUME ReceiverInv, Returns, UNCHANGED <<step, retries>>
    PROVE  ReceiverInv'
  <1> USE DEF ReceiverInv, StepCall, ReadyShape, ReceiverShape, SenderShape, Steps,
              Outer, SleepSteps, CommandSteps, SockSteps, linkVars, Return
  <1>1. CASE SleepDone
    BY <1>1 DEF SleepDone, Woken
  <1>2. CASE CommandDone
    BY <1>2 DEF CommandDone, Woken, Succeeded
  <1>3. CASE CommandData
    BY <1>3 DEF CommandData, Woken, Wait, Armed, OK, NoPost
  <1>4. ASSUME NEW f \in Polls, PollDone(f)
        PROVE  ReceiverInv'
    BY <1>4 DEF PollDone, Woken, Polls
  <1>5. ASSUME NEW f \in {"recv", "send"}, DataDone(f)
        PROVE  ReceiverInv'
    BY <1>5 DEF DataDone, Woken
  <1> QED
    BY <1>1, <1>2, <1>3, <1>4, <1>5 DEF Returns, Polls

LEMMA ReceiverModule ==
    ASSUME ReceiverInv, Module, UNCHANGED <<step, retries>>
    PROVE  ReceiverInv'
  BY DEF Module, Takes, Answer, Ignore, Datagram, callVars, linkVars, ReceiverInv,
         StepCall, ReadyShape, ReceiverShape, SenderShape

\* A command arms the receiver anew, whatever was in it.
LEMMA ReceiverCommand ==
    ASSUME ReceiverInv, NEW r, Command(r), NEW s \in CommandSteps, step' = s,
           ready \/ (s = "version" /\ rx.cb \in {"none", "cmd"}),
           step \notin {"receive", "send"}
    PROVE  ReceiverInv'
  <1>1. SenderShape'
    BY SenderKept DEF Command, Ask, Refuse, ReceiverInv, SenderShape, linkVars
  <1>2. CASE ready
    BY <1>1, <1>2
    DEF Command, Ask, Wait, Armed, OK, NoPost, ReceiverInv, StepCall, ReadyShape,
        ReceiverShape, Steps, Outer, SleepSteps, CommandSteps, SockSteps
  <1>3. CASE ~ready
    BY <1>1, <1>3
    DEF Command, Refuse, Return, linkVars, ReceiverInv, StepCall, ReadyShape,
        ReceiverShape, Steps, Outer, SleepSteps, CommandSteps, SockSteps
  <1> QED
    BY <1>2, <1>3 DEF ReceiverInv, StepCall

\* mw_detect(): nothing has been received before the first command.
LEMMA ReceiverDetect ==
    ASSUME ReceiverInv,
           \/ DetectReset \/ DetectBoot \/ DetectFirst \/ DetectAsk \/ DetectAgain
           \/ DetectFails \/ Detected
    PROVE  ReceiverInv'
  <1> USE DEF At, Goto, Plain
  <1>1. CASE DetectReset \/ DetectBoot
    BY <1>1
    DEF DetectReset, DetectBoot, FrameTimer, Sleep, Wait, linkVars, ReceiverInv,
        StepCall, ReadyShape, ReceiverShape, SenderShape, Steps, Outer,
        SleepSteps, CommandSteps, SockSteps
  <1>2. CASE DetectFirst \/ DetectAgain
    BY <1>2
    DEF DetectFirst, DetectAgain, Attempt, ResetFifos, callVars, ReceiverInv,
        StepCall, ReadyShape, ReceiverShape, SenderShape, Steps, Outer,
        SleepSteps, CommandSteps, SockSteps
  <1>3. CASE DetectAsk
    <2>1. /\ rx.cb \in {"none", "cmd"}
          /\ "version" \in CommandSteps
      BY <1>3 DEF DetectAsk, ReceiverInv, ReceiverShape, CommandSteps
    <2> QED
      BY <1>3, <2>1, ReceiverCommand DEF DetectAsk
  <1>4. CASE DetectFails \/ Detected
    BY <1>4
    DEF DetectFails, Detected, Leave, linkVars, ReceiverInv, StepCall, ReadyShape,
        ReceiverShape, SenderShape, Steps, Outer, SleepSteps, CommandSteps,
        SockSteps
  <1> QED
    BY <1>1, <1>2, <1>3, <1>4

\* udp_test(): each error check keeps a command that failed, and whose callback
\* is still in the receiver, from being followed by a wait of another kind.
LEMMA ReceiverTest ==
    ASSUME ReceiverInv,
           \/ Join \/ Associate \/ ShowIp \/ OpenControl \/ OpenMidi
           \/ WaitControl \/ WaitMidi \/ GiveUp \/ Serve \/ Respond
    PROVE  ReceiverInv'
  <1> USE DEF At, Goto
  <1>1. CASE Join \/ ShowIp \/ OpenControl \/ OpenMidi
    <2>1. ready /\ step \notin {"receive", "send"}
      BY <1>1 DEF Join, ShowIp, OpenControl, OpenMidi, FrameTimer, ReceiverInv,
                  ReadyShape, SleepSteps
    <2>2. ASSUME NEW r, NEW s \in CommandSteps, Command(r), step' = s
          PROVE  ReceiverInv'
      BY <2>1, <2>2, ReceiverCommand
    <2> QED
      BY <1>1, <2>2 DEF Join, ShowIp, OpenControl, OpenMidi, CommandSteps
  <1>2. CASE Associate \/ WaitControl \/ WaitMidi
    <2>1. \E r : tx' \in CmdSend(tx, r)
      BY <1>2 DEF Associate, WaitControl, WaitMidi, AssocWait, SockWait, PollWait
    <2>2. SenderShape'
      BY <1>2, <2>1, SenderKept
      DEF Associate, WaitControl, WaitMidi, ReceiverInv, SenderShape
    <2> QED
      BY <1>2, <2>2
      DEF Associate, WaitControl, WaitMidi, AssocWait, SockWait, PollWait, Wait,
          ReceiverInv, StepCall, ReadyShape, ReceiverShape, Steps, Outer,
          SleepSteps, CommandSteps, SockSteps
  <1>3. CASE GiveUp
    BY <1>3
    DEF GiveUp, Leave, linkVars, ReceiverInv, StepCall, ReadyShape, ReceiverShape,
        SenderShape, Steps, Outer, SleepSteps, CommandSteps, SockSteps
  <1>4. CASE Serve \/ Respond
    BY <1>4
    DEF Serve, Respond, RecvSync, SendSync, Wait, ReceiverInv, StepCall,
        ReadyShape, ReceiverShape, SenderShape, Steps, Outer, SleepSteps,
        CommandSteps, SockSteps
  <1> QED
    BY <1>1, <1>2, <1>3, <1>4

LEMMA ReceiverStep ==
    TimerShape /\ ReceiverInv /\ [Next]_vars => ReceiverInv'
  <1> SUFFICES ASSUME TimerShape, ReceiverInv, [Next]_vars
               PROVE  ReceiverInv'
    OBVIOUS
  <1>1. CASE MwNext /\ UNCHANGED <<step, retries>>
    BY <1>1, ReceiverFrames, ReceiverSent, ReceiverTimer, ReceiverReturns,
       ReceiverModule
    DEF MwNext, Callbacks
  <1>2. CASE Program
    BY <1>2, ReceiverDetect, ReceiverTest DEF Program
  <1>3. CASE UNCHANGED vars
    BY <1>3 DEF vars, mwVars, callVars, linkVars, ReceiverInv, StepCall,
                ReadyShape, ReceiverShape, SenderShape
  <1> QED
    BY <1>1, <1>2, <1>3 DEF Next

\* No reply to an earlier function is left behind to end a wait.
THEOREM ReceiverIsOwned == Spec => []ReceiverOwned
  <1> DEFINE Inv == TimerShape /\ ReceiverInv
  <1>1. Init => Inv
    BY TimerInit, ReceiverInit
  <1>2. Inv /\ [Next]_vars => Inv'
    BY TimerStep, ReceiverStep
  <1>3. Inv => ReceiverOwned
    BY DEF ReceiverInv, StepCall, ReceiverShape, ReceiverOwned, Pending, Waits,
           Steps, Outer, SleepSteps, CommandSteps, SockSteps
  <1> QED
    BY <1>1, <1>2, <1>3, PTL DEF Spec

-----------------------------------------------------------------------------
(* The flag of a poll.                                                     *)

\* A poll that still waits is the only one that has the flag set: whatever can
\* end its wait clears it.
PollShape == poll => Pending /\ call \in Polls

\* Of the callbacks only those of the poll itself can run while it waits: the
\* receiver and the timer have no other, and what is sent has none.
LEMMA PollCallbacks ==
    ASSUME TimerShape, ReceiverInv, PollShape, Callbacks
    PROVE  PollShape'
  <1>1. CASE CmdRecv
    <2>1. call \notin Polls
      BY <1>1 DEF CmdRecv, Complete, ReceiverInv, ReceiverShape, StepCall, Polls,
                  Steps, Outer, SleepSteps, CommandSteps, SockSteps
    <2> QED BY <1>1, <2>1 DEF CmdRecv, PollShape
  <1>2. CASE AssocReply \/ SockReply
    <2>1. CASE StatReady
      BY <2>1 DEF StatReady, PollShape
    <2>2. ASSUME NEW r, StatAgain(r)
          PROVE  PollShape'
      BY <2>2 DEF StatAgain, callVars, timerVars, PollShape, Pending
    <2> QED BY <1>2, <2>1, <2>2 DEF AssocReply, SockReply
  <1>3. CASE Sent
    <2>1. CASE tx.cb
      <3>1. call \notin Polls
        BY <1>3, <2>1 DEF Sent, ReceiverInv, SenderShape, StepCall, Polls
      <3> QED BY <1>3, <3>1 DEF Sent, PollShape
    <2>2. CASE ~tx.cb
      BY <1>3, <2>2 DEF Sent, PollShape, Pending
    <2> QED BY <2>1, <2>2
  <1>4. CASE CmdTout
    <2>1. call \notin Polls
      BY <1>4 DEF CmdTout, Due, TimerShape, Polls
    <2> QED BY <1>4, <2>1 DEF CmdTout, PollShape
  <1>5. ASSUME NEW cb, PollDue(cb)
        PROVE  PollShape'
    BY <1>5 DEF PollDue, PollOver, PollAgain, PollShape, Pending
  <1> QED
    BY <1>1, <1>2, <1>3, <1>4, <1>5 DEF Callbacks

LEMMA PollReturns ==
    ASSUME PollShape, Returns
    PROVE  PollShape'
  <1>1. ~poll /\ UNCHANGED poll
    BY DEF Returns, SleepDone, CommandDone, CommandData, PollDone, DataDone, Woken,
           PollShape, Pending, timerVars
  <1> QED BY <1>1 DEF PollShape

\* The program calls a function when no wait is under way; only the functions
\* that poll set the flag, and then they wait.
LEMMA PollProgram ==
    ASSUME PollShape, Program
    PROVE  PollShape'
  <1>1. ~poll
    BY DEF PollShape, Polls, Program, At, FrameTimer, DetectReset, DetectBoot,
           DetectFirst, DetectAsk, DetectAgain, DetectFails, Detected, Join,
           Associate, ShowIp, OpenControl, OpenMidi, WaitControl, WaitMidi,
           GiveUp, Serve, Respond
  <1>2. ASSUME NEW f \in Polls, NEW r, NEW t, PollWait(f, r, t)
        PROVE  PollShape'
    BY <1>2 DEF PollWait, Wait, PollShape, Pending, Polls, Waits
  <1>3. CASE Associate \/ WaitControl \/ WaitMidi
    BY <1>2, <1>3 DEF Associate, WaitControl, WaitMidi, AssocWait, SockWait, Polls
  <1>4. ASSUME NEW r, Command(r)
        PROVE  UNCHANGED poll
    BY <1>4 DEF Command, Ask, Refuse, timerVars
  <1>5. CASE ~(Associate \/ WaitControl \/ WaitMidi)
    <2>1. UNCHANGED poll
      BY <1>4, <1>5
      DEF Program, DetectReset, DetectBoot, DetectFirst, DetectAsk, DetectAgain,
          Attempt, ResetFifos, DetectFails, Detected, Join, ShowIp, OpenControl,
          OpenMidi, GiveUp, Serve, Respond, Sleep, Leave, RecvSync, SendSync,
          timerVars
    <2> QED BY <1>1, <2>1 DEF PollShape
  <1> QED
    BY <1>3, <1>5

\* A status reply that comes after its wait does not post (d.stat_poll, tested
\* in megawifi.c:555 and 783).
THEOREM PollFlagIsOwned == Spec => []PollFlagOwned
  <1> DEFINE Inv == TimerShape /\ ReceiverInv /\ PollShape
  <1>1. Init => Inv
    BY TimerInit, ReceiverInit DEF Init, MwInit, PollShape
  <1>2. Inv /\ [Next]_vars => Inv'
    <2> SUFFICES ASSUME Inv, [Next]_vars
                 PROVE  PollShape'
      BY TimerStep, ReceiverStep
    <2>1. CASE MwNext
      <3>1. CASE Module
        BY <3>1 DEF Module, Answer, Ignore, Datagram, callVars, timerVars,
                    PollShape, Pending
      <3> QED
        BY <2>1, <3>1, PollCallbacks, PollReturns DEF MwNext
    <2>2. CASE Program
      BY <2>2, PollProgram
    <2>3. CASE UNCHANGED vars
      BY <2>3 DEF vars, mwVars, callVars, timerVars, PollShape, Pending
    <2> QED
      BY <2>1, <2>2, <2>3 DEF Next
  <1>3. Inv => PollFlagOwned
    BY DEF PollShape, PollFlagOwned, Polls
  <1> QED
    BY <1>1, <1>2, <1>3, PTL DEF Spec

-----------------------------------------------------------------------------
(* Types.                                                                  *)

\* Only a socket is ever opened.
Asks == {r \in Request : r.cmd = "open" => r.ch \in Sockets}

TxType == [busy : BOOLEAN, req : Asks \cup {NoRequest}, torn : BOOLEAN, cb : BOOLEAN]
TimerType == [on : BOOLEAN, cb : TimerCbs, reload : BOOLEAN]
RxType == [cb : RecvCbs, cmd : BOOLEAN]
WordRange == -(Word \div 2) .. Word \div 2 - 1
Contents == Request \cup {NoRequest} \cup Frame

\* TypeOK, with a name for each type, and of the commands what is known of them.
FlagTypes ==
    /\ ready \in BOOLEAN /\ err \in BOOLEAN /\ poll \in BOOLEAN
    /\ timedOut \in BOOLEAN /\ stray \in BOOLEAN
    /\ call \in Waits \cup {"idle", "returned"} /\ post \in Posts \cup {NoPost}
    /\ step \in Steps /\ retries \in 0 .. Retries
LinkTypes ==
    /\ req \in Asks \cup {NoRequest}
    /\ md \in Channels /\ monitor \in Channels /\ cmd \in Contents
    /\ timer \in TimerType /\ tx \in TxType /\ rx \in RxType /\ tout \in WordRange
    /\ chOn \subseteq Channels
ModTypes ==
    /\ opened \subseteq Sockets
    /\ asked \in Seq(Asks) /\ fromMod \in Seq(Frame)
    /\ mixed \in BOOLEAN
TypeShape == FlagTypes /\ LinkTypes /\ ModTypes

LEMMA TypeNames == TypeShape => TypeOK
<1>1. Asks \subseteq Request
  BY DEF Asks
<1>2. ASSUME TypeShape
      PROVE  /\ asked \in Seq(Request)
             /\ tx \in [busy : BOOLEAN, req : Request \cup {NoRequest},
                        torn : BOOLEAN, cb : BOOLEAN]
             /\ req \in Request \cup {NoRequest}
  BY <1>1, <1>2 DEF TypeShape, LinkTypes, ModTypes, TxType
<1> QED
  BY <1>2 DEF TypeOK, TypeShape, FlagTypes, LinkTypes, ModTypes, TimerType, RxType,
              WordRange, Contents

LEMMA TimerTypes ==
    ASSUME timer \in TimerType
    PROVE  /\ TimerOff \in TimerType
           /\ TimerOn \in TimerType
           /\ [timer EXCEPT !.cb = "tout", !.reload = FALSE] \in TimerType
  BY DEF TimerType, TimerCbs, TimerOff, TimerOn

LEMMA ReceiverTypes ==
    /\ Idle \in RxType
    /\ \A cb \in RecvCbs : Armed(cb) \in RxType
    /\ [cb |-> "cmd", cmd |-> FALSE] \in RxType
  BY DEF RxType, RecvCbs, Idle, Armed

LEMMA TxTypes ==
    ASSUME NEW t \in TxType
    PROVE  /\ [t EXCEPT !.busy = FALSE] \in TxType
           /\ [t EXCEPT !.torn = TRUE] \in TxType
           /\ t.req \in Asks \cup {NoRequest}
           /\ \A r \in Asks \cup {NoRequest}, cb \in BOOLEAN :
                 [busy |-> TRUE, req |-> r, torn |-> FALSE, cb |-> cb] \in TxType
  BY DEF TxType

LEMMA PostTypes ==
    ASSUME NEW v \in Posts, Post(v), stray \in BOOLEAN, post \in Posts \cup {NoPost}
    PROVE  stray' \in BOOLEAN /\ post' \in Posts \cup {NoPost}
  BY DEF Post

\* Requests, frames and NoRequest are what *d.cmd may hold.
LEMMA RequestTypes ==
    /\ Ctrl \in Channels /\ Sockets \subseteq Channels
    /\ Control \in Sockets /\ Midi \in Sockets
    /\ Asks \subseteq Request
    /\ \A ch \in Sockets : UdpSet(ch) \in Asks
    /\ \A c \in {"version", "ap_join", "sys_stat", "ip_current"} : Plain(c) \in Asks
    /\ \A ch \in Channels : [cmd |-> "sock_stat", ch |-> ch] \in Asks
    /\ \A r \in Request : r.cmd \in Commands /\ r.ch \in Channels
  BY MidiClientAssumption DEF Channels, Request, Asks, Commands, UdpSet, Plain

LEMMA FrameTypes ==
    /\ \A ch \in Channels : Data(ch) \in Frame
    /\ \A r \in Request, ok \in BOOLEAN : Reply(r, ok) \in Frame
    /\ \A f \in Frame : f.ch \in Channels
  BY RequestTypes DEF Data, Reply, Frame

\* tout_frames stays within its 16 bits.
LEMMA WordFits ==
    ASSUME NEW n \in Int
    PROVE  Int16(n) \in WordRange
<1>1. \A m \in Int, w \in Nat : w > 0 => m % w \in 0 .. w - 1
  OBVIOUS
<1>2. Word \in Nat /\ Word > 0 /\ Word = 2 * (Word \div 2) /\ Word \div 2 \in Nat
  BY MegaWifiAssumption
<1>3. (n + Word \div 2) % Word \in 0 .. Word - 1
  BY <1>1, <1>2
<1> QED BY <1>2, <1>3 DEF Int16, WordRange

LEMMA TxCommand ==
    ASSUME NEW t \in TxType, NEW r \in Asks, NEW u \in CmdSend(t, r)
    PROVE  u \in TxType
<1>1. u \in {t, [t EXCEPT !.torn = TRUE],
             [busy |-> TRUE, req |-> r, torn |-> FALSE, cb |-> FALSE]}
  BY DEF CmdSend
<1> QED BY <1>1, TxTypes

LEMMA TxOverwritten ==
    ASSUME NEW t \in TxType, NEW u \in Overwritten(t)
    PROVE  u \in TxType
<1>1. u \in {t, [t EXCEPT !.torn = TRUE]}
  BY DEF Overwritten
<1> QED BY <1>1, TxTypes

LEMMA TypeInit ==
    Init => TypeShape
  <1> SUFFICES ASSUME Init PROVE TypeShape
    OBVIOUS
  <1> USE DEF Init, MwInit
  <1>1. FlagTypes
    <2>1. 0 \in 0 .. Retries
      BY MidiClientAssumption
    <2> QED BY <2>1 DEF FlagTypes, Steps, Outer
  <1>2. LinkTypes
    <2>1. 0 \in WordRange
      BY MegaWifiAssumption DEF WordRange
    <2>2. timer \in TimerType
      BY DEF TimerType, TimerCbs
    <2>3. tx \in TxType
      BY DEF TxType
    <2>4. rx \in RxType
      BY ReceiverTypes
    <2>5. cmd \in Contents /\ md \in Channels /\ monitor \in Channels /\ chOn \subseteq Channels
      BY RequestTypes DEF Contents
    <2> QED BY <2>1, <2>2, <2>3, <2>4, <2>5 DEF LinkTypes
  <1>3. ModTypes
    <2>1. mixed \in BOOLEAN
      BY Zenon
    <2>2. opened \subseteq Sockets /\ asked \in Seq(Asks) /\ fromMod \in Seq(Frame)
      BY SMT
    <2> QED BY <2>1, <2>2 DEF ModTypes
  <1> QED BY <1>1, <1>2, <1>3 DEF TypeShape

\* The frame that completes is a frame.
LEMMA TypeComplete ==
    ASSUME TypeShape, NEW cb, Complete(cb)
    PROVE  /\ fromMod' \in Seq(Frame) /\ rx' \in RxType
           /\ Arrived \in Frame /\ Arrived \in Contents /\ Arrived.ch \in Channels
  <1>1. fromMod \in Seq(Frame) /\ fromMod # <<>>
    BY DEF Complete, TypeShape, ModTypes
  <1>2. Head(fromMod) \in Frame /\ Tail(fromMod) \in Seq(Frame)
    BY <1>1
  <1>3. rx' \in RxType /\ fromMod' \in Seq(Frame)
    BY <1>2, ReceiverTypes DEF Complete
  <1> QED BY <1>2, <1>3, FrameTypes DEF Arrived, Contents

LEMMA TypeCmdRecv ==
    ASSUME TypeShape, CmdRecv, UNCHANGED <<step, retries>>
    PROVE  TypeShape'
  <1>1. /\ fromMod' \in Seq(Frame) /\ rx' \in RxType
        /\ Arrived \in Contents /\ Arrived.ch \in Channels
    BY TypeComplete DEF CmdRecv
  <1>2. FlagTypes'
    <2>1. stray' \in BOOLEAN /\ post' \in Posts \cup {NoPost}
      BY PostTypes DEF TypeShape, FlagTypes, CmdRecv, Posts
    <2> QED BY <2>1 DEF TypeShape, FlagTypes, CmdRecv
  <1>3. LinkTypes'
    <2>1. timer' \in TimerType
      BY TimerTypes DEF TypeShape, LinkTypes, CmdRecv
    <2>2. tx' \in TxType
      BY TxOverwritten DEF TypeShape, LinkTypes, CmdRecv
    <2>3. cmd' \in Contents /\ md' \in Channels
      BY <1>1 DEF TypeShape, LinkTypes, CmdRecv
    <2> QED BY <1>1, <2>1, <2>2, <2>3 DEF TypeShape, LinkTypes, CmdRecv
  <1>4. ModTypes'
    BY <1>1 DEF TypeShape, ModTypes, CmdRecv
  <1> QED BY <1>2, <1>3, <1>4 DEF TypeShape

LEMMA TypeStatReady ==
    ASSUME TypeShape, NEW cb, Complete(cb), StatReady, UNCHANGED <<step, retries>>
    PROVE  TypeShape'
  <1>1. /\ fromMod' \in Seq(Frame) /\ rx' \in RxType /\ Arrived \in Contents
    BY TypeComplete
  <1>2. FlagTypes'
    <2>1. stray' \in BOOLEAN /\ post' \in Posts \cup {NoPost}
      BY PostTypes DEF TypeShape, FlagTypes, StatReady, Posts
    <2> QED BY <2>1 DEF TypeShape, FlagTypes, StatReady
  <1>3. LinkTypes'
    <2>1. timer' \in TimerType
      BY TimerTypes DEF TypeShape, LinkTypes, StatReady
    <2>2. tx' \in TxType
      BY TxOverwritten DEF TypeShape, LinkTypes, StatReady
    <2>3. cmd' \in Contents
      BY <1>1 DEF StatReady
    <2> QED BY <1>1, <2>1, <2>2, <2>3 DEF TypeShape, LinkTypes, StatReady
  <1>4. ModTypes'
    BY <1>1 DEF TypeShape, ModTypes, StatReady
  <1> QED BY <1>2, <1>3, <1>4 DEF TypeShape

LEMMA TypeStatAgain ==
    ASSUME TypeShape, NEW cb, Complete(cb), NEW r \in Asks, StatAgain(r),
           UNCHANGED <<step, retries>>
    PROVE  TypeShape'
  <1>1. fromMod' \in Seq(Frame) /\ rx' \in RxType
    BY TypeComplete
  <1>2. FlagTypes'
    BY DEF TypeShape, FlagTypes, StatAgain, callVars, timerVars
  <1>3. LinkTypes'
    <2>1. tx' \in TxType
      <3>1. PICK t \in Overwritten(tx) : tx' \in CmdSend(t, r)
        BY DEF StatAgain
      <3>2. t \in TxType
        BY <3>1, TxOverwritten DEF TypeShape, LinkTypes
      <3> QED BY <3>1, <3>2, TxCommand
    <2>2. cmd' \in Contents
      BY RequestTypes DEF StatAgain, Contents
    <2> QED BY <1>1, <2>1, <2>2 DEF TypeShape, LinkTypes, StatAgain, callVars, timerVars
  <1>4. ModTypes'
    BY <1>1 DEF TypeShape, ModTypes, StatAgain
  <1> QED BY <1>2, <1>3, <1>4 DEF TypeShape

LEMMA TypeSent ==
    ASSUME TypeShape, Sent, UNCHANGED <<step, retries>>
    PROVE  TypeShape'
  <1>1. tx.req \in Asks \cup {NoRequest}
    BY TxTypes DEF TypeShape, LinkTypes
  <1>2. FlagTypes'
    <2>1. stray' \in BOOLEAN /\ post' \in Posts \cup {NoPost}
      BY PostTypes DEF TypeShape, FlagTypes, Sent, Posts
    <2> QED BY <2>1 DEF TypeShape, FlagTypes, Sent
  <1>3. LinkTypes'
    <2>1. timer' \in TimerType
      BY TimerTypes DEF TypeShape, LinkTypes, Sent
    <2>2. tx' \in TxType
      BY TxTypes DEF TypeShape, LinkTypes, Sent
    <2> QED BY <2>1, <2>2 DEF TypeShape, LinkTypes, Sent
  <1>4. ModTypes'
    <2>1. asked' \in Seq(Asks)
      BY <1>1 DEF TypeShape, ModTypes, Sent
    <2> QED BY <2>1 DEF TypeShape, ModTypes, Sent
  <1> QED BY <1>2, <1>3, <1>4 DEF TypeShape

LEMMA TypeCmdTout ==
    ASSUME TypeShape, CmdTout, UNCHANGED <<step, retries>>
    PROVE  TypeShape'
  <1>1. FlagTypes'
    <2>1. stray' \in BOOLEAN /\ post' \in Posts \cup {NoPost}
      BY PostTypes DEF TypeShape, FlagTypes, CmdTout, Posts
    <2> QED BY <2>1 DEF TypeShape, FlagTypes, CmdTout
  <1>2. LinkTypes'
    <2>1. timer' \in TimerType
      BY TimerTypes DEF TypeShape, LinkTypes, CmdTout
    <2> QED BY <2>1 DEF TypeShape, LinkTypes, CmdTout, linkVars
  <1>3. ModTypes'
    BY DEF TypeShape, ModTypes, CmdTout, modVars
  <1> QED BY <1>1, <1>2, <1>3 DEF TypeShape

LEMMA TypePollDue ==
    ASSUME TypeShape, NEW cb \in Polls, PollDue(cb), UNCHANGED <<step, retries>>
    PROVE  TypeShape'
  <1>1. FlagTypes'
    <2>1. CASE PollOver
      <3>1. stray' \in BOOLEAN /\ post' \in Posts \cup {NoPost}
        BY <2>1, PostTypes DEF TypeShape, FlagTypes, PollOver, Posts
      <3> QED BY <2>1, <3>1 DEF TypeShape, FlagTypes, PollDue, PollOver
    <2>2. CASE PollAgain(cb)
      BY <2>2 DEF TypeShape, FlagTypes, PollDue, PollAgain
    <2> QED BY <2>1, <2>2 DEF PollDue
  <1>2. LinkTypes'
    <2>1. timer' \in TimerType
      BY TimerTypes DEF TypeShape, LinkTypes, PollDue, PollOver, PollAgain
    <2>2. rx' \in RxType
      <3>1. cb \in RecvCbs
        BY DEF Polls, RecvCbs
      <3> QED BY <3>1, ReceiverTypes DEF TypeShape, LinkTypes, PollDue, PollOver, PollAgain
    <2>3. tout' \in WordRange
      <3>1. tout \in WordRange
        BY DEF TypeShape, LinkTypes
      <3>2. tout - PollTout \in Int
        BY <3>1, MegaWifiAssumption DEF WordRange
      <3>3. Int16(tout - PollTout) \in WordRange
        BY <3>2, WordFits
      <3>4. tout' \in {tout, Int16(tout - PollTout)}
        BY DEF PollDue, PollOver, PollAgain
      <3> QED BY <3>1, <3>3, <3>4
    <2> QED BY <2>1, <2>2, <2>3 DEF TypeShape, LinkTypes, PollDue
  <1>3. ModTypes'
    BY DEF TypeShape, ModTypes, PollDue, modVars
  <1> QED BY <1>1, <1>2, <1>3 DEF TypeShape

LEMMA TypeCallbacks ==
    ASSUME TypeShape, Callbacks, UNCHANGED <<step, retries>>
    PROVE  TypeShape'
  <1>1. CASE AssocReply
    <2>1. [cmd |-> "sys_stat", ch |-> Ctrl] \in Asks
      BY RequestTypes DEF Plain
    <2> QED BY <1>1, <2>1, TypeStatReady, TypeStatAgain DEF AssocReply
  <1>2. CASE SockReply
    <2>1. [cmd |-> "sock_stat", ch |-> monitor] \in Asks
      BY RequestTypes DEF TypeShape, LinkTypes
    <2> QED BY <1>2, <2>1, TypeStatReady, TypeStatAgain DEF SockReply
  <1> QED
    BY <1>1, <1>2, TypeCmdRecv, TypeSent, TypeCmdTout, TypePollDue
    DEF Callbacks, Polls

LEMMA TypeReturns ==
    ASSUME TypeShape, Returns, UNCHANGED <<step, retries>>
    PROVE  TypeShape'
  <1> USE DEF TypeShape
  <1>1. FlagTypes'
    <2>1. ASSUME NEW e \in BOOLEAN, Return(e), UNCHANGED <<ready, poll, timedOut, stray>>
          PROVE  FlagTypes'
      BY <2>1 DEF FlagTypes, Return
    <2>2. CASE SleepDone
      BY <2>1, <2>2 DEF SleepDone, timerVars
    <2>3. CASE CommandDone
      BY <2>1, <2>3 DEF CommandDone, timerVars, Succeeded, SaysOk
    <2>4. CASE CommandData
      BY <2>4 DEF CommandData, FlagTypes, Wait, Waits
    <2>5. ASSUME NEW f, PollDone(f) PROVE FlagTypes'
      <3>1. (post < 0) \in BOOLEAN
        OBVIOUS
      <3>2. Return(post < 0) /\ UNCHANGED <<ready, poll, timedOut, stray>>
        BY <2>5 DEF PollDone
      <3> QED BY <2>1, <3>1, <3>2
    <2>6. ASSUME NEW f, DataDone(f) PROVE FlagTypes'
      BY <2>1, <2>6 DEF DataDone, timerVars
    <2> QED BY <2>2, <2>3, <2>4, <2>5, <2>6 DEF Returns
  <1>2. LinkTypes'
    <2> USE DEF LinkTypes
    <2>1. CASE CommandDone
      <3>1. chOn' \subseteq Channels
        <4>1. req \in Asks => req.ch \in Channels
          BY RequestTypes
        <4>2. NoRequest.cmd \notin {"open", "cert_set", "close"}
          BY DEF NoRequest
        <4>3. chOn' = ChannelsAfter(Succeeded)
          BY <2>1 DEF CommandDone
        <4> QED BY <4>1, <4>2, <4>3 DEF ChannelsAfter, Enables, Disables
      <3> QED BY <2>1, <3>1 DEF CommandDone, timerVars
    <2>2. CASE CommandData
      <3>1. timer' \in TimerType
        BY <2>2, TimerTypes DEF CommandData
      <3>2. rx' \in RxType
        BY <2>2, ReceiverTypes DEF CommandData, RecvCbs
      <3> QED BY <2>2, <3>1, <3>2 DEF CommandData
    <2>3. ASSUME NEW f, PollDone(f) PROVE LinkTypes'
      <3>1. timer' \in TimerType
        BY <2>3, TimerTypes DEF PollDone
      <3> QED BY <2>3, <3>1 DEF PollDone, linkVars
    <2>4. ASSUME NEW f, SleepDone \/ DataDone(f) PROVE LinkTypes'
      BY <2>4 DEF SleepDone, DataDone, linkVars, timerVars
    <2> QED BY <2>1, <2>2, <2>3, <2>4 DEF Returns
  <1>3. ModTypes'
    BY DEF ModTypes, Returns, SleepDone, CommandDone, CommandData, PollDone, DataDone, modVars
  <1> QED BY <1>1, <1>2, <1>3

LEMMA TypeModule ==
    ASSUME TypeShape, Module, UNCHANGED <<step, retries>>
    PROVE  TypeShape'
  <1>1. FlagTypes' /\ LinkTypes'
    BY DEF TypeShape, FlagTypes, LinkTypes, Module, Answer, Ignore, Datagram, callVars,
           timerVars, linkVars
  <1>2. asked \in Seq(Asks) /\ fromMod \in Seq(Frame)
    BY DEF TypeShape, ModTypes
  <1>3. ASSUME Takes PROVE Head(asked) \in Asks /\ asked' \in Seq(Asks)
    BY <1>2, <1>3 DEF Takes
  <1>4. CASE Answer
    <2>1. Head(asked) \in Asks /\ asked' \in Seq(Asks)
      BY <1>3, <1>4 DEF Answer
    <2>2. PICK ok \in BOOLEAN :
             /\ fromMod' = Append(fromMod, Reply(Head(asked), ok))
             /\ opened' = Opened(Head(asked), ok)
      BY <1>4 DEF Answer
    <2>3. fromMod' \in Seq(Frame)
      <3>1. Reply(Head(asked), ok) \in Frame
        BY <2>1, FrameTypes, RequestTypes
      <3> QED BY <1>2, <2>2, <3>1
    <2>4. opened' \subseteq Sockets
      <3>1. Head(asked).cmd = "open" => Head(asked).ch \in Sockets
        BY <2>1 DEF Asks
      <3>2. opened \subseteq Sockets
        BY DEF TypeShape, ModTypes
      <3> QED BY <2>2, <3>1, <3>2 DEF Opened
    <2> QED
      BY <1>1, <1>4, <2>1, <2>3, <2>4 DEF TypeShape, ModTypes, Answer
  <1>5. CASE Ignore
    BY <1>1, <1>3, <1>5 DEF TypeShape, ModTypes, Ignore
  <1>6. CASE Datagram
    <2>1. PICK ch \in opened : fromMod' = Append(fromMod, Data(ch))
      BY <1>6 DEF Datagram
    <2>2. Data(ch) \in Frame
      BY RequestTypes, FrameTypes DEF TypeShape, ModTypes
    <2>3. fromMod' \in Seq(Frame)
      BY <1>2, <2>1, <2>2
    <2>4. mixed' \in BOOLEAN
      BY <1>6 DEF Datagram
    <2> QED
      BY <1>1, <1>6, <2>3, <2>4 DEF TypeShape, ModTypes, Datagram
  <1> QED
    BY <1>4, <1>5, <1>6 DEF Module

\* The first of the frames that are left may have lost its beginning.
LEMMA FirstReplaced ==
    ASSUME NEW S, NEW q \in Seq(S), 1 \in 1 .. Len(q), NEW v \in S
    PROVE  /\ [q EXCEPT ![1] = v] \in Seq(S)
           /\ Len([q EXCEPT ![1] = v]) = Len(q)
           /\ [q EXCEPT ![1] = v][1] = v
           /\ \A j \in 2 .. Len(q) : [q EXCEPT ![1] = v][j] = q[j]
  <1> DEFINE e == [q EXCEPT ![1] = v]
  <1>1. q \in [1 .. Len(q) -> S] /\ Len(q) \in Nat /\ DOMAIN q = 1 .. Len(q)
    OBVIOUS
  <1>2. e \in [1 .. Len(q) -> S]
    BY <1>1
  <1>3. e \in Seq(S)
    BY <1>1, <1>2, SeqDef
  <1>4. DOMAIN e = 1 .. Len(q) /\ e[1] = v /\ \A j \in 2 .. Len(q) : e[j] = q[j]
    BY <1>1
  <1> HIDE DEF e
  <1>5. Len(e) = Len(q)
    BY <1>1, <1>3, <1>4
  <1>6. e \in Seq(S) /\ Len(e) = Len(q) /\ e[1] = v /\ \A j \in 2 .. Len(q) : e[j] = q[j]
    BY <1>3, <1>4, <1>5
  <1> QED BY <1>6 DEF e

\* What is left of the frames when the FIFOs are reset.
LEMMA CutFrames ==
    ASSUME NEW s \in Seq(Frame), NEW u \in Cut(s)
    PROVE  u \in Seq(Frame)
  <1>1. PICK k \in 1 .. Len(s) + 1 :
            \/ u = SubSeq(s, k, Len(s))
            \/ k > Len(s) /\ u = <<>>
            \/ k <= Len(s) /\ u = [SubSeq(s, k, Len(s)) EXCEPT ![1].err = TRUE]
    BY DEF Cut
  <1>2. SubSeq(s, k, Len(s)) \in Seq(Frame)
    OBVIOUS
  <1>3. ASSUME k <= Len(s), u = [SubSeq(s, k, Len(s)) EXCEPT ![1].err = TRUE]
        PROVE  u \in Seq(Frame)
    <2> DEFINE q == SubSeq(s, k, Len(s))
    <2>1. q \in Seq(Frame) /\ Len(q) = Len(s) - k + 1 /\ 1 \in 1 .. Len(q)
      BY <1>3
    <2>2. [q[1] EXCEPT !.err = TRUE] \in Frame
      <3>1. q[1] \in Frame
        BY <2>1
      <3> QED BY <3>1 DEF Frame
    <2>3. u = [q EXCEPT ![1] = [q[1] EXCEPT !.err = TRUE]]
      BY <1>3
    <2> HIDE DEF q
    <2> DEFINE v == [q[1] EXCEPT !.err = TRUE]
    <2>4. v \in Frame /\ u = [q EXCEPT ![1] = v]
      BY <2>2, <2>3
    <2> HIDE DEF v
    <2>5. [q EXCEPT ![1] = v] \in Seq(Frame)
      BY <2>1, <2>4, FirstReplaced
    <2> QED BY <2>4, <2>5
  <1>4. CASE k > Len(s) /\ u = <<>>
    BY <1>4
  <1>5. CASE u = SubSeq(s, k, Len(s))
    BY <1>2, <1>5
  <1> QED BY <1>1, <1>3, <1>4, <1>5, Zenon

\* What the functions of the command layer do, up to their wait.
LEMMA TypeFunctions ==
    ASSUME TypeShape, step' \in Steps, retries' \in 0 .. Retries
    PROVE  /\ Sleep => TypeShape'
           /\ \A r \in Asks : Command(r) => TypeShape'
           /\ AssocWait => TypeShape'
           /\ \A ch \in Sockets : SockWait(ch) => TypeShape'
           /\ RecvSync(FALSE) => TypeShape'
           /\ \A ch : SendSync(ch, FALSE) => TypeShape'
           /\ ResetFifos => TypeShape'
  <1>1. ASSUME Sleep PROVE TypeShape'
    <2>1. FlagTypes'
      BY <1>1 DEF TypeShape, FlagTypes, Sleep, Wait, Waits
    <2>2. LinkTypes'
      <3>1. timer' \in TimerType
        BY <1>1, TimerTypes DEF TypeShape, LinkTypes, Sleep
      <3> QED BY <1>1, <3>1 DEF TypeShape, LinkTypes, Sleep, linkVars
    <2>3. ModTypes'
      BY <1>1 DEF TypeShape, ModTypes, Sleep, modVars
    <2> QED BY <2>1, <2>2, <2>3 DEF TypeShape
  <1>2. ASSUME NEW r \in Asks, Command(r) PROVE TypeShape'
    <2>1. CASE Ask(r)
      <3>1. FlagTypes'
        BY <2>1 DEF TypeShape, FlagTypes, Ask, Wait, Waits
      <3>2. LinkTypes'
        <4>1. timer' \in TimerType
          BY <2>1, TimerTypes DEF TypeShape, LinkTypes, Ask
        <4>2. rx' \in RxType
          BY <2>1, ReceiverTypes DEF Ask, RecvCbs
        <4>3. tx' \in TxType
          BY <2>1, TxCommand DEF TypeShape, LinkTypes, Ask
        <4>4. md' \in Channels
          BY <2>1 DEF TypeShape, LinkTypes, Ask, Unwritten
        <4>5. cmd' \in Contents /\ req' \in Asks \cup {NoRequest}
          BY <2>1, RequestTypes DEF Ask, Contents
        <4> QED BY <2>1, <4>1, <4>2, <4>3, <4>4, <4>5 DEF TypeShape, LinkTypes, Ask
      <3>3. ModTypes'
        BY <2>1 DEF TypeShape, ModTypes, Ask, modVars
      <3> QED BY <3>1, <3>2, <3>3 DEF TypeShape
    <2>2. CASE Refuse
      <3>1. FlagTypes'
        BY <2>2 DEF TypeShape, FlagTypes, Refuse, Return, timerVars
      <3>2. LinkTypes' /\ ModTypes'
        BY <2>2 DEF TypeShape, LinkTypes, ModTypes, Refuse, timerVars, linkVars, modVars
      <3> QED BY <3>1, <3>2 DEF TypeShape
    <2> QED BY <1>2, <2>1, <2>2 DEF Command
  <1>3. ASSUME NEW f \in Polls, NEW r \in Asks, NEW t \in WaitTouts, PollWait(f, r, t)
        PROVE  TypeShape'
    <2>1. FlagTypes'
      BY <1>3 DEF TypeShape, FlagTypes, PollWait, Wait, Waits, Polls
    <2>2. LinkTypes'
      <3>1. timer' \in TimerType
        BY <1>3 DEF PollWait, TimerType, TimerCbs, Polls
      <3>2. tout' \in WordRange
        <4>1. t \in Int
          BY MegaWifiAssumption
        <4> QED BY <1>3, <4>1, WordFits DEF PollWait
      <3>3. tx' \in TxType
        BY <1>3, TxCommand DEF TypeShape, LinkTypes, PollWait
      <3>4. r \in Request /\ r.ch \in Channels
        BY RequestTypes
      <3>5. cmd' \in Contents /\ req' \in Asks \cup {NoRequest} /\ monitor' \in Channels
        BY <1>3, <3>4 DEF TypeShape, LinkTypes, PollWait, Contents
      <3> QED BY <1>3, <3>1, <3>2, <3>3, <3>5 DEF TypeShape, LinkTypes, PollWait
    <2>3. ModTypes'
      BY <1>3 DEF TypeShape, ModTypes, PollWait, modVars
    <2> QED BY <2>1, <2>2, <2>3 DEF TypeShape
  <1>4. ASSUME AssocWait PROVE TypeShape'
    <2>1. [cmd |-> "sys_stat", ch |-> Ctrl] \in Asks
      BY RequestTypes DEF Plain
    <2> QED BY <1>3, <1>4, <2>1 DEF AssocWait, Polls
  <1>5. ASSUME NEW ch \in Sockets, SockWait(ch) PROVE TypeShape'
    <2>1. [cmd |-> "sock_stat", ch |-> ch] \in Asks
      BY RequestTypes
    <2> QED BY <1>3, <1>5, <2>1 DEF SockWait, Polls
  <1>6. ASSUME RecvSync(FALSE) PROVE TypeShape'
    <2>1. FlagTypes'
      BY <1>6 DEF TypeShape, FlagTypes, RecvSync, Wait, Waits
    <2>2. LinkTypes'
      <3>1. rx' \in RxType
        BY <1>6, ReceiverTypes DEF RecvSync
      <3> QED BY <1>6, <3>1 DEF TypeShape, LinkTypes, RecvSync
    <2>3. ModTypes'
      BY <1>6 DEF TypeShape, ModTypes, RecvSync, modVars
    <2> QED BY <2>1, <2>2, <2>3 DEF TypeShape
  <1>7. ASSUME NEW ch, SendSync(ch, FALSE) PROVE TypeShape'
    <2>1. FlagTypes'
      BY <1>7 DEF TypeShape, FlagTypes, SendSync, Wait, Waits
    <2>2. LinkTypes'
      <3>1. tx' \in TxType
        BY <1>7, TxTypes DEF TypeShape, LinkTypes, SendSync
      <3> QED BY <1>7, <3>1 DEF TypeShape, LinkTypes, SendSync
    <2>3. ModTypes'
      BY <1>7 DEF TypeShape, ModTypes, SendSync, modVars
    <2> QED BY <2>1, <2>2, <2>3 DEF TypeShape
  <1>8. ASSUME ResetFifos PROVE TypeShape'
    <2>1. FlagTypes' /\ LinkTypes'
      BY <1>8 DEF TypeShape, FlagTypes, LinkTypes, ResetFifos, callVars, timerVars
    <2>2. fromMod' \in Seq(Frame)
      BY <1>8, CutFrames DEF TypeShape, ModTypes, ResetFifos
    <2> QED BY <1>8, <2>1, <2>2 DEF TypeShape, ModTypes, ResetFifos
  <1> QED BY <1>1, <1>2, <1>4, <1>5, <1>6, <1>7, <1>8

LEMMA TypeProgram ==
    ASSUME TypeShape, Program
    PROVE  TypeShape'
  <1>1. retries \in 0 .. Retries /\ step \in Steps
    BY DEF TypeShape, FlagTypes
  <1>2. retries' \in 0 .. Retries
    <2>1. ~DetectFirst /\ ~DetectAgain => UNCHANGED retries
      BY DEF Program, Goto, DetectReset, DetectBoot, DetectAsk, DetectFails, Detected,
             Join, Associate, ShowIp, OpenControl, OpenMidi, WaitControl, WaitMidi,
             GiveUp, Serve, Respond, Leave
    <2>2. CASE DetectFirst
      BY <2>2, MidiClientAssumption DEF DetectFirst
    <2>3. CASE DetectAgain
      BY <1>1, <2>3, MidiClientAssumption DEF DetectAgain
    <2> QED BY <1>1, <2>1, <2>2, <2>3
  <1>3. step' \in Steps
    BY <1>1 DEF Program, Goto, DetectReset, DetectBoot, DetectFirst, DetectAgain, Attempt,
           DetectAsk, DetectFails, Detected, Join, Associate, ShowIp, OpenControl,
           OpenMidi, WaitControl, WaitMidi, GiveUp, Serve, Respond, Leave, Steps, Outer
  <1>4. ASSUME NEW s, Leave(s) PROVE TypeShape'
    <2>1. FlagTypes'
      BY <1>2, <1>3, <1>4 DEF TypeShape, FlagTypes, Leave, timerVars
    <2>2. LinkTypes' /\ ModTypes'
      BY <1>4 DEF TypeShape, LinkTypes, ModTypes, Leave, timerVars, linkVars, modVars
    <2> QED BY <2>1, <2>2 DEF TypeShape
  <1>5. CASE \/ Sleep \/ AssocWait \/ RecvSync(FALSE) \/ ResetFifos
             \/ \E r \in Asks : Command(r)
             \/ \E ch \in Sockets : SockWait(ch)
             \/ \E ch : SendSync(ch, FALSE)
    BY <1>2, <1>3, <1>5, TypeFunctions
  <1>6. \/ Sleep \/ AssocWait \/ RecvSync(FALSE) \/ ResetFifos
        \/ \E r \in Asks : Command(r)
        \/ \E ch \in Sockets : SockWait(ch)
        \/ \E ch : SendSync(ch, FALSE)
        \/ \E s : Leave(s)
    BY RequestTypes
    DEF Program, DetectReset, DetectBoot, DetectFirst, DetectAgain, Attempt,
        DetectAsk, DetectFails, Detected, Join, Associate, ShowIp, OpenControl,
        OpenMidi, WaitControl, WaitMidi, GiveUp, Serve, Respond
  <1> QED BY <1>4, <1>5, <1>6

LEMMA TypeStep ==
    TypeShape /\ [Next]_vars => TypeShape'
  <1> SUFFICES ASSUME TypeShape, [Next]_vars
               PROVE  TypeShape'
    OBVIOUS
  <1>1. CASE MwNext /\ UNCHANGED <<step, retries>>
    BY <1>1, TypeCallbacks, TypeReturns, TypeModule DEF MwNext
  <1>2. CASE Program
    BY <1>2, TypeProgram
  <1>3. CASE UNCHANGED vars
    BY <1>3 DEF vars, mwVars, callVars, timerVars, linkVars, modVars, TypeShape,
                FlagTypes, LinkTypes, ModTypes
  <1> QED
    BY <1>1, <1>2, <1>3 DEF Next

\* Every variable keeps its type, tout_frames (megawifi.c:105, counted down in
\* the callbacks that poll) the range of its 16 bits.
THEOREM TypesHold == Spec => []TypeOK
  BY TypeInit, TypeStep, TypeNames, PTL DEF Spec

-----------------------------------------------------------------------------
(* Data comes on enabled channels.                                         *)

\* The step in which a channel is opened, and those before any is.
Opening(c) == IF c = Control THEN "control" ELSE "midi"
EarlySteps == {"start", "absent", "detected", "probe", "version", "join", "assoc", "ip"}
              \cup SleepSteps
ServeSteps == {"receive", "send"}

\* The request of each step.
RequestOf(s) ==
    CASE s = "version" -> Plain("version")
      [] s = "join"    -> Plain("ap_join")
      [] s = "assoc"   -> Plain("sys_stat")
      [] s = "ip"      -> Plain("ip_current")
      [] s = "control" -> UdpSet(Control)
      [] s = "midi"    -> UdpSet(Midi)

\* A function waits for what it asked, and so does a callback that polls.
AskShape ==
    /\ step \in CommandSteps \cup {"assoc"} /\ call # "returned" => req = RequestOf(step)
    /\ rx.cb = "assoc" \/ call = "assoc" => req = Plain("sys_stat")
    /\ rx.cb = "sock" \/ call = "sock" => req = [cmd |-> "sock_stat", ch |-> monitor]

LEMMA AskCallbacks ==
    ASSUME TimerShape, AskShape, Callbacks, UNCHANGED <<step, retries>>
    PROVE  AskShape'
  <1>1. UNCHANGED <<req, call, monitor>>
    BY DEF Callbacks, CmdRecv, AssocReply, SockReply, StatReady, StatAgain, Sent, CmdTout,
           PollDue, callVars, timerVars
  <1>2. rx'.cb \in {rx.cb, "none"} \/ (call \in Polls /\ rx'.cb = call)
    <2>1. CASE CmdRecv \/ AssocReply \/ SockReply
      BY <2>1 DEF CmdRecv, AssocReply, SockReply, Complete, Idle
    <2>2. CASE Sent \/ CmdTout
      BY <2>2 DEF Sent, CmdTout, linkVars
    <2>3. ASSUME NEW cb \in Polls, PollDue(cb)
          PROVE  rx'.cb = rx.cb \/ (call \in Polls /\ rx'.cb = call)
      <3>1. call = cb
        BY <2>3 DEF PollDue, Due, TimerShape, Polls
      <3> QED BY <2>3, <3>1 DEF PollDue, PollOver, PollAgain, Armed
    <2> QED BY <2>1, <2>2, <2>3 DEF Callbacks, Polls
  <1> QED BY <1>1, <1>2 DEF AskShape, Polls

LEMMA AskReturns ==
    ASSUME AskShape, Returns, UNCHANGED <<step, retries>>
    PROVE  AskShape'
  <1>1. UNCHANGED <<req, monitor>>
    BY DEF Returns, SleepDone, CommandDone, CommandData, PollDone, DataDone, timerVars
  <1>2. \/ call' = "returned" /\ rx' = rx
        \/ call' = "command" /\ call = "command" /\ rx'.cb = "cmd"
    BY DEF Returns, SleepDone, CommandDone, CommandData, PollDone, DataDone, linkVars,
           Return, Wait, Woken, Armed
  <1> QED BY <1>1, <1>2 DEF AskShape

LEMMA AskProgram ==
    ASSUME TypeShape, ReceiverInv, ReceiverInv', AskShape, Program
    PROVE  AskShape'
  <1> USE DEF Goto
  <1>1. CASE DetectFails \/ Detected \/ GiveUp
    BY <1>1 DEF DetectFails, Detected, GiveUp, Leave, AskShape, CommandSteps, linkVars, timerVars
  <1>2. CASE \/ DetectReset \/ DetectBoot \/ DetectFirst \/ DetectAgain
    <2>1. step' \in SleepSteps \cup {"probe"} /\ call' \in {"sleep", "returned"}
      BY <1>2 DEF DetectReset, DetectBoot, DetectFirst, DetectAgain, Attempt, ResetFifos, Sleep,
                  Wait, SleepSteps, At, callVars
    <2> QED BY <2>1 DEF AskShape, ReceiverInv, ReceiverShape, SleepSteps, CommandSteps
  <1>3. CASE DetectAsk \/ Join \/ ShowIp \/ OpenControl \/ OpenMidi
    <2>1. /\ Command(RequestOf(step'))
          /\ step' \in CommandSteps
      BY <1>3 DEF DetectAsk, Join, ShowIp, OpenControl, OpenMidi, CommandSteps, RequestOf
    <2>2. \/ req' = RequestOf(step') /\ call' = "command"
          \/ call' = "returned"
      BY <2>1 DEF Command, Ask, Refuse, Wait, Return
    <2> QED BY <2>1, <2>2 DEF AskShape, ReceiverInv, ReceiverShape, CommandSteps
  <1>4. CASE Associate
    <2>1. /\ step' = "assoc" /\ call' = "assoc" /\ req' = Plain("sys_stat")
      BY <1>4 DEF Associate, AssocWait, PollWait, Wait, Plain
    <2> QED BY <2>1 DEF AskShape, ReceiverInv, ReceiverShape, RequestOf, SockSteps
  <1>5. CASE WaitControl \/ WaitMidi
    <2>1. step' \in SockSteps /\ call' = "sock" /\ req' = [cmd |-> "sock_stat", ch |-> monitor']
      BY <1>5 DEF WaitControl, WaitMidi, SockWait, PollWait, Wait, SockSteps
    <2> QED BY <2>1 DEF AskShape, ReceiverInv, ReceiverShape, CommandSteps, SockSteps
  <1>6. CASE Serve \/ Respond
    <2>1. step' \in {"receive", "send"} /\ call' \in {"recv", "send"}
      BY <1>6 DEF Serve, Respond, RecvSync, SendSync, Wait
    <2> QED BY <2>1 DEF AskShape, ReceiverInv, ReceiverShape, CommandSteps
  <1> QED BY <1>1, <1>2, <1>3, <1>4, <1>5, <1>6 DEF Program

LEMMA AskStep ==
    TypeShape /\ TimerShape /\ ReceiverInv /\ AskShape /\ [Next]_vars => AskShape'
  <1> SUFFICES ASSUME TypeShape, TimerShape, ReceiverInv, AskShape, [Next]_vars
               PROVE  AskShape'
    OBVIOUS
  <1>1. CASE MwNext /\ UNCHANGED <<step, retries>>
    <2>1. CASE Module
      BY <1>1, <2>1 DEF Module, Answer, Ignore, Datagram, callVars, timerVars, linkVars, AskShape
    <2> QED BY <1>1, <2>1, AskCallbacks, AskReturns DEF MwNext
  <1>2. CASE Program
    BY <1>2, AskProgram, ReceiverStep
  <1>3. CASE UNCHANGED vars
    BY <1>3 DEF vars, mwVars, callVars, timerVars, linkVars, AskShape
  <1> QED BY <1>1, <1>2, <1>3 DEF Next

\* Which channels are enabled at which step.  Without the UART nothing is sent.
ChannelShape ==
    /\ Ctrl \in chOn <=> ready
    /\ step \in EarlySteps => chOn \subseteq {Ctrl}
    /\ step \in {"midi"} \cup ServeSteps \cup SockSteps => Control \in chOn
    /\ step \in ServeSteps \cup SockSteps => Midi \in chOn
    /\ step = "control" /\ call = "returned" /\ ~err => Control \in chOn
    /\ step = "midi" /\ call = "returned" /\ ~err => Midi \in chOn

SilentShape ==
    ~ready => asked = <<>> /\ fromMod = <<>> /\ ~tx.busy /\ opened = {}

LEMMA ChannelInit ==
    Init => ChannelShape /\ SilentShape
  BY DEF Init, MwInit, ChannelShape, SilentShape, EarlySteps, ServeSteps, SockSteps

\* A command that succeeds enables the channel it opens, and nothing else does.
LEMMA ChannelDone ==
    ASSUME ReceiverInv, AskShape, CommandDone, UNCHANGED <<step, retries>>
    PROVE  /\ call' = "returned"
           /\ step = "control" => chOn' = IF err' THEN chOn ELSE chOn \cup {Control}
           /\ step = "midi" => chOn' = IF err' THEN chOn ELSE chOn \cup {Midi}
           /\ step \notin {"control", "midi"} => chOn' = chOn
  <1>1. call = "command" /\ call' = "returned" /\ chOn' = ChannelsAfter(Succeeded)
    BY DEF CommandDone, Woken, Return
  <1>2. err' = ~Succeeded
    BY DEF CommandDone, Return
  <1>3. step \in CommandSteps /\ req = RequestOf(step)
    BY <1>1 DEF ReceiverInv, StepCall, AskShape, CommandSteps, SockSteps, Steps, Outer, SleepSteps
  <1> QED
    BY <1>1, <1>2, <1>3 DEF ChannelsAfter, Enables, Disables, RequestOf, CommandSteps, UdpSet, Plain

LEMMA ChannelKept ==
    ASSUME Next, ~CommandDone
    PROVE  chOn' = chOn
  BY DEF Next, MwNext, Callbacks, CmdRecv, AssocReply, SockReply, StatReady, StatAgain, Sent,
         CmdTout, PollDue, Returns, SleepDone, CommandData, PollDone, DataDone, Module, Answer,
         Ignore, Datagram, linkVars, Program, DetectReset, DetectBoot, DetectFirst,
         DetectAgain, Attempt, ResetFifos, DetectAsk, DetectFails, Detected, Join, Associate,
         AssocWait, ShowIp, OpenControl, OpenMidi, WaitControl, WaitMidi, SockWait, PollWait,
         GiveUp, Leave, Serve, Respond, Sleep, Command, Ask, Refuse, RecvSync, SendSync

LEMMA ReadyKept ==
    ASSUME Next
    PROVE  ready' = ready
  BY DEF Next, MwNext, Callbacks, CmdRecv, AssocReply, SockReply, StatReady, StatAgain, Sent,
         CmdTout, PollDue, Returns, SleepDone, CommandDone, CommandData, PollDone, DataDone,
         Module, Answer, Ignore, Datagram, Program, DetectReset, DetectBoot, DetectFirst,
         DetectAgain, Attempt, ResetFifos, DetectAsk, DetectFails, Detected, Join, Associate,
         AssocWait, ShowIp, OpenControl, OpenMidi, WaitControl, WaitMidi, SockWait, PollWait,
         GiveUp, Leave, Serve, Respond, Sleep, Command, Ask, Refuse, RecvSync, SendSync

LEMMA ChannelStep ==
    ASSUME TimerShape, ReceiverInv, ReceiverInv', AskShape, ChannelShape, Next
    PROVE  ChannelShape'
  <1>1. ready' = ready
    BY ReadyKept
  <1>2. CASE CommandDone /\ UNCHANGED <<step, retries>>
    BY <1>1, <1>2, ChannelDone, MidiClientAssumption, MegaWifiAssumption
    DEF ChannelShape, EarlySteps, SleepSteps
  <1>3. CASE ~CommandDone /\ MwNext /\ UNCHANGED <<step, retries>>
    <2>1. chOn' = chOn
      BY <1>3, ChannelKept DEF Next
    <2>2. \/ step \notin {"control", "midi"}
          \/ call' # "returned"
          \/ UNCHANGED <<call, err>>
      <3>1. ASSUME Callbacks \/ Module PROVE UNCHANGED <<call, err>>
        BY <3>1 DEF Callbacks, CmdRecv, AssocReply, SockReply, StatReady, StatAgain, Sent,
               CmdTout, PollDue, Module, Answer, Ignore, Datagram, callVars
      <3>2. ASSUME Returns, step \in {"control", "midi"} PROVE call' = "command"
        BY <1>3, <3>2 DEF Returns, SleepDone, CommandData, PollDone, DataDone, Woken, Wait,
               ReceiverInv, StepCall, CommandSteps
      <3> QED BY <1>3, <3>1, <3>2 DEF MwNext
    <2> QED BY <1>1, <1>3, <2>1, <2>2 DEF ChannelShape
  <1>4. CASE Program
    <2>1. chOn' = chOn
      BY <1>4, ChannelKept DEF Program, DetectReset, DetectBoot, DetectFirst, DetectAgain,
             DetectAsk, DetectFails, Detected, Join, Associate, ShowIp, OpenControl, OpenMidi,
             WaitControl, WaitMidi, GiveUp, Serve, Respond, At, FrameTimer, CommandDone, Woken,
             Next
    <2>2. CASE OpenControl \/ OpenMidi
      <3>1. ready
        BY <2>2 DEF OpenControl, OpenMidi, At, ReceiverInv, ReadyShape, SleepSteps
      <3>2. call' = "command"
        BY <2>2, <3>1 DEF OpenControl, OpenMidi, Command, Ask, Wait
      <3> QED
        BY <1>1, <2>1, <2>2, <3>2 DEF OpenControl, OpenMidi, At, Goto, ChannelShape,
           EarlySteps, ServeSteps, SockSteps, SleepSteps
    <2>3. CASE ~(OpenControl \/ OpenMidi)
      BY <1>1, <1>4, <2>1, <2>3 DEF Program, DetectReset, DetectBoot, DetectFirst,
         DetectAgain, Attempt, DetectAsk, DetectFails, Detected, Join, Associate,
         ShowIp, WaitControl, WaitMidi, FrameTimer,
         GiveUp, Leave, Serve, Respond, At, Goto, ChannelShape,
           EarlySteps, ServeSteps, SockSteps, SleepSteps
    <2> QED BY <2>2, <2>3
  <1> QED BY <1>2, <1>3, <1>4 DEF Next

LEMMA SilentStep ==
    ASSUME TypeShape, ReceiverInv, ReceiverInv', ChannelShape, SilentShape, Next
    PROVE  SilentShape'
  <1> SUFFICES ASSUME ~ready
               PROVE  asked' = <<>> /\ fromMod' = <<>> /\ ~tx'.busy /\ opened' = {}
    BY ReadyKept DEF SilentShape
  <1>1. /\ asked = <<>> /\ fromMod = <<>> /\ ~tx.busy /\ opened = {} /\ Ctrl \notin chOn
        /\ tx \in TxType
    BY DEF SilentShape, ChannelShape, TypeShape, LinkTypes
  <1>2. CASE Callbacks
    BY <1>1, <1>2 DEF Callbacks, CmdRecv, AssocReply, SockReply, Complete, Sent, CmdTout,
              PollDue, linkVars, modVars
  <1>3. CASE Returns
    BY <1>1, <1>3 DEF Returns, SleepDone, CommandDone, CommandData, PollDone, DataDone, linkVars,
              modVars
  <1>4. CASE Module
    BY <1>1, <1>4 DEF Module, Answer, Ignore, Datagram, Takes
  <1>5. CASE Program
    <2>1. step' \in {"start", "probe", "version", "absent"} \cup SleepSteps
      BY ReadyKept DEF ReceiverInv, ReadyShape
    <2>2. CASE DetectFirst \/ DetectAgain
      <3>1. fromMod' \in Cut(<<>>)
        BY <1>1, <2>2 DEF DetectFirst, DetectAgain, Attempt, ResetFifos
      <3>2. fromMod' = <<>>
        <4>1. SubSeq(<<>>, 1, 0) = <<>> /\ Len(<<>>) = 0
          OBVIOUS
        <4>2. PICK k \in 1 .. Len(<<>>) + 1 :
                 fromMod' \in {SubSeq(<<>>, k, Len(<<>>)),
                  IF k > Len(<<>>) THEN <<>>
                  ELSE [SubSeq(<<>>, k, Len(<<>>)) EXCEPT ![1].err = TRUE]}
          BY <3>1 DEF Cut
        <4>3. k = 1
          BY <4>1
        <4> QED BY <4>1, <4>2, <4>3
      <3> QED BY <1>1, <2>2, <3>2 DEF DetectFirst, DetectAgain, Attempt, ResetFifos
    <2>3. CASE DetectReset \/ DetectBoot \/ DetectAsk \/ DetectFails
      BY <1>1, <2>3 DEF DetectReset, DetectBoot, DetectAsk, DetectFails, Sleep, Command, Refuse,
              Leave, linkVars, modVars
    <2> QED
      BY <1>5, <2>1, <2>2, <2>3 DEF Program, Detected, Join, Associate,
         ShowIp, OpenControl, OpenMidi, WaitControl, WaitMidi,
         GiveUp, Leave, Serve, Respond, At, Goto, SleepSteps
  <1> QED BY <1>2, <1>3, <1>4, <1>5 DEF Next, MwNext

Framed(c) == \E i \in 1 .. Len(fromMod) : fromMod[i].ch = c

\* The module has opened the socket, or has been asked to.
Known(c) ==
    \/ c \in opened
    \/ Framed(c)
    \/ tx.busy /\ tx.req = UdpSet(c)
    \/ \E i \in 1 .. Len(asked) : asked[i] = UdpSet(c)

\* A frame of the control channel comes before any of this one.
Behind(c) ==
    c \in opened \/ Framed(c) =>
        \E j \in 1 .. Len(fromMod) : /\ fromMod[j].ch = Ctrl
                                     /\ \A i \in 1 .. j : fromMod[i].ch # c

\* A frame may be received.
Receives == (rx.cb # "none" /\ ~stray) \/ (call = "command" /\ post = OK /\ md # Ctrl)

DataShape ==
    \A c \in Sockets \ chOn :
        /\ Known(c) => step \in {Opening(c), "failed"}
        /\ Receives => Behind(c)

LEMMA FramedTail ==
    ASSUME fromMod \in Seq(Frame), fromMod # <<>>, fromMod' = Tail(fromMod), NEW c
    PROVE  /\ Framed(c)' => Framed(c)
           /\ Framed(c) /\ Head(fromMod).ch # c => Framed(c)'
  <1>1. /\ Len(fromMod) \in Nat \ {0} /\ Len(fromMod') = Len(fromMod) - 1
        /\ \A i \in 1 .. Len(fromMod') : fromMod'[i] = fromMod[i + 1]
        /\ Head(fromMod) = fromMod[1]
    OBVIOUS
  <1>2. ASSUME NEW i \in 1 .. Len(fromMod'), fromMod'[i].ch = c PROVE Framed(c)
    BY <1>1, <1>2, i + 1 \in 1 .. Len(fromMod) DEF Framed
  <1>3. ASSUME NEW i \in 1 .. Len(fromMod), fromMod[i].ch = c, Head(fromMod).ch # c
        PROVE Framed(c)'
    <2>1. i # 1 /\ i - 1 \in 1 .. Len(fromMod')
      BY <1>1, <1>3
    <2>2. fromMod'[i - 1] = fromMod[i]
      BY <1>1, <2>1
    <2> QED BY <1>3, <2>1, <2>2 DEF Framed
  <1> QED BY <1>2, <1>3 DEF Framed

LEMMA BehindTail ==
    ASSUME fromMod \in Seq(Frame), fromMod # <<>>, fromMod' = Tail(fromMod), NEW c,
           opened' = opened, Head(fromMod).ch # Ctrl, Behind(c)
    PROVE  Behind(c)'
  <1>1. /\ Len(fromMod) \in Nat \ {0} /\ Len(fromMod') = Len(fromMod) - 1
        /\ \A i \in 1 .. Len(fromMod') : fromMod'[i] = fromMod[i + 1]
        /\ Head(fromMod) = fromMod[1]
    OBVIOUS
  <1>2. SUFFICES ASSUME c \in opened \/ Framed(c)
                 PROVE  \E j \in 1 .. Len(fromMod') : /\ fromMod'[j].ch = Ctrl
                                     /\ \A i \in 1 .. j : fromMod'[i].ch # c
    BY FramedTail DEF Behind
  <1>3. PICK j \in 1 .. Len(fromMod) : /\ fromMod[j].ch = Ctrl
                                     /\ \A i \in 1 .. j : fromMod[i].ch # c
    BY <1>2 DEF Behind
  <1>4. j # 1 /\ j - 1 \in 1 .. Len(fromMod')
    BY <1>1, <1>3
  <1>5. fromMod'[j - 1].ch = Ctrl
    BY <1>1, <1>3, <1>4
  <1>6. ASSUME NEW i \in 1 .. j - 1 PROVE fromMod'[i].ch # c
    <2>1. i + 1 \in 1 .. j /\ i \in 1 .. Len(fromMod')
      BY <1>1, <1>4
    <2> QED BY <1>1, <1>3, <2>1
  <1> QED BY <1>4, <1>5, <1>6

LEMMA FramedAppend ==
    ASSUME fromMod \in Seq(Frame), NEW f, fromMod' = Append(fromMod, f), NEW c
    PROVE  /\ Framed(c)' <=> Framed(c) \/ f.ch = c
           /\ \A i \in 1 .. Len(fromMod) : fromMod'[i] = fromMod[i]
           /\ Len(fromMod') = Len(fromMod) + 1 /\ Len(fromMod) \in Nat
           /\ fromMod'[Len(fromMod')] = f
  <1>1. /\ \A i \in 1 .. Len(fromMod) : fromMod'[i] = fromMod[i]
        /\ Len(fromMod') = Len(fromMod) + 1 /\ Len(fromMod) \in Nat
        /\ fromMod'[Len(fromMod')] = f
    OBVIOUS
  <1>2. ASSUME NEW i \in 1 .. Len(fromMod'), fromMod'[i].ch = c PROVE Framed(c) \/ f.ch = c
    <2>1. i \in 1 .. Len(fromMod) \/ i = Len(fromMod')
      BY <1>1
    <2> QED BY <1>1, <1>2, <2>1 DEF Framed
  <1>3. ASSUME Framed(c) \/ f.ch = c PROVE Framed(c)'
    <2>1. \A i \in 1 .. Len(fromMod) : i \in 1 .. Len(fromMod')
      BY <1>1
    <2>2. Len(fromMod') \in 1 .. Len(fromMod')
      BY <1>1
    <2> QED BY <1>1, <1>3, <2>1, <2>2 DEF Framed
  <1> QED BY <1>1, <1>2, <1>3 DEF Framed

\* A frame at the end leaves what comes before it as it was.
LEMMA BehindAppend ==
    ASSUME fromMod \in Seq(Frame), NEW f, fromMod' = Append(fromMod, f), NEW c,
           c # Ctrl,
           \/ c \in opened \/ Framed(c)
           \/ f.ch = Ctrl
           \/ f.ch # c /\ c \notin opened',
           Behind(c)
    PROVE  Behind(c)'
  <1> USE FramedAppend
  <1>1. CASE c \in opened \/ Framed(c)
    <2>1. PICK j \in 1 .. Len(fromMod) : /\ fromMod[j].ch = Ctrl
                                     /\ \A i \in 1 .. j : fromMod[i].ch # c
      BY <1>1 DEF Behind
    <2>2. j \in 1 .. Len(fromMod') /\ \A i \in 1 .. j : i \in 1 .. Len(fromMod)
      OBVIOUS
    <2>3. fromMod'[j].ch = Ctrl /\ \A i \in 1 .. j : fromMod'[i].ch # c
      BY <2>1, <2>2
    <2> QED BY <2>2, <2>3 DEF Behind
  <1>2. CASE ~(c \in opened \/ Framed(c)) /\ f.ch = Ctrl
    <2>1. ASSUME NEW i \in 1 .. Len(fromMod') PROVE fromMod'[i].ch # c
      <3>1. i \in 1 .. Len(fromMod) \/ i = Len(fromMod')
        OBVIOUS
      <3> QED BY <1>2, <3>1 DEF Framed
    <2>2. Len(fromMod') \in 1 .. Len(fromMod') /\ fromMod'[Len(fromMod')].ch = Ctrl
      BY <1>2
    <2> QED BY <2>1, <2>2 DEF Behind
  <1>3. CASE ~(c \in opened \/ Framed(c)) /\ f.ch # c /\ c \notin opened'
    BY <1>3 DEF Behind
  <1> QED BY <1>1, <1>2, <1>3

\* What is left when the FIFOs are reset was there before.
LEMMA FramedCut ==
    ASSUME fromMod \in Seq(Frame), fromMod' \in Cut(fromMod), NEW c, Framed(c)'
    PROVE  Framed(c)
  <1>1. PICK k \in 1 .. Len(fromMod) + 1 :
            \/ fromMod' = SubSeq(fromMod, k, Len(fromMod))
            \/ k > Len(fromMod) /\ fromMod' = <<>>
            \/ /\ k <= Len(fromMod)
               /\ fromMod' = [SubSeq(fromMod, k, Len(fromMod)) EXCEPT ![1].err = TRUE]
    BY DEF Cut
  <1>2. fromMod' # <<>>
    BY DEF Framed
  <1> DEFINE q == SubSeq(fromMod, k, Len(fromMod))
  <1>3. /\ q \in Seq(Frame) /\ Len(q) = Len(fromMod) - k + 1 /\ Len(fromMod) \in Nat
        /\ \A i \in 1 .. Len(q) : q[i] = fromMod[i + k - 1]
    OBVIOUS
  <1>4. /\ Len(fromMod') = Len(q)
        /\ \A i \in 1 .. Len(q) : fromMod'[i].ch = q[i].ch
    <2>1. CASE fromMod' = q
      BY <1>3, <2>1
    <2>2. CASE k <= Len(fromMod) /\ fromMod' = [q EXCEPT ![1].err = TRUE]
      <3>1. 1 \in 1 .. Len(q) /\ q[1] \in Frame
        BY <1>3, <2>2
      <3> HIDE DEF q
      <3> DEFINE v == [q[1] EXCEPT !.err = TRUE]
      <3>2. fromMod' = [q EXCEPT ![1] = v]
        BY <2>2
      <3>3. v \in Frame /\ v.ch = q[1].ch
        BY <3>1 DEF Frame
      <3> HIDE DEF v
      <3>4. /\ Len(fromMod') = Len(q) /\ fromMod'[1] = v
            /\ \A j \in 2 .. Len(q) : fromMod'[j] = q[j]
        BY <1>3, <3>1, <3>2, <3>3, FirstReplaced
      <3>5. \A i \in 1 .. Len(q) : i = 1 \/ i \in 2 .. Len(q)
        OBVIOUS
      <3> QED BY <3>3, <3>4, <3>5
    <2> QED BY <1>1, <1>2, <2>1, <2>2
  <1> HIDE DEF q
  <1>5. PICK i \in 1 .. Len(q) : fromMod'[i].ch = c
    BY <1>4 DEF Framed
  <1>6. fromMod[i + k - 1].ch = c
    BY <1>3, <1>4, <1>5
  <1>7. i + k - 1 \in 1 .. Len(fromMod)
    BY <1>3
  <1> QED BY <1>6, <1>7 DEF Framed

\* The transmitter holds a request to open c.
Opens(t, c) == t.busy /\ t.req = UdpSet(c)

LEMMA OpensCommand ==
    ASSUME NEW t \in TxType, NEW r, NEW u \in CmdSend(t, r), NEW c, Opens(u, c)
    PROVE  Opens(t, c) \/ r = UdpSet(c)
<1>1. u \in {t, [t EXCEPT !.torn = TRUE],
             [busy |-> TRUE, req |-> r, torn |-> FALSE, cb |-> FALSE]}
  BY DEF CmdSend
<1> QED BY <1>1 DEF Opens, TxType

LEMMA OpensOver ==
    ASSUME NEW u \in Overwritten(tx), tx \in TxType, NEW c, Opens(u, c)
    PROVE  Opens(tx, c)
<1>1. u \in {tx, [tx EXCEPT !.torn = TRUE]}
  BY DEF Overwritten
<1> QED BY <1>1 DEF Opens, TxType

Awaited(c) == \E i \in 1 .. Len(asked) : asked[i] = UdpSet(c)

LEMMA KnownNames ==
    ASSUME NEW c
    PROVE  Known(c) <=> c \in opened \/ Framed(c) \/ Opens(tx, c) \/ Awaited(c)
  BY DEF Known, Opens, Awaited

\* What the polls ask.
Polled == {"sys_stat", "sock_stat"}

\* The receiver and the timer tell the module nothing.
LEMMA KnownCallbacks ==
    ASSUME TypeShape, Callbacks, NEW c \in Sockets, Known(c)'
    PROVE  Known(c)
  <1> USE KnownNames
  <1>1. tx \in TxType /\ fromMod \in Seq(Frame) /\ asked \in Seq(Asks)
    BY DEF TypeShape, LinkTypes, ModTypes
  <1>2. Known(c)' <=> c \in opened' \/ Framed(c)' \/ Opens(tx', c) \/ Awaited(c)'
    BY DEF Known, Opens, Awaited
  <1>3. CASE CmdRecv \/ AssocReply \/ SockReply
    <2>1. opened' = opened /\ asked' = asked
      BY <1>3 DEF CmdRecv, AssocReply, SockReply, StatReady, StatAgain
    <2>2. Framed(c)' => Framed(c)
      BY <1>1, <1>3, FramedTail DEF CmdRecv, AssocReply, SockReply, Complete
    <2>3. Opens(tx', c) => Opens(tx, c)
      <3>1. CASE tx' \in Overwritten(tx)
        BY <1>1, <3>1, OpensOver
      <3>2. ASSUME NEW r, StatAgain(r), r.cmd \in Polled
            PROVE  Opens(tx', c) => Opens(tx, c)
        <4>1. PICK t \in Overwritten(tx) : tx' \in CmdSend(t, r)
          BY <3>2 DEF StatAgain
        <4>2. t \in TxType
          BY <1>1, <4>1, TxOverwritten
        <4>3. r # UdpSet(c)
          BY <3>2 DEF UdpSet, Polled
        <4> QED BY <1>1, <4>1, <4>2, <4>3, OpensCommand, OpensOver
      <3> QED
        BY <1>3, <3>1, <3>2 DEF CmdRecv, AssocReply, SockReply, StatReady, Polled
    <2>4. Awaited(c)' => Awaited(c)
      BY <2>1 DEF Awaited
    <2> QED BY <1>2, <2>1, <2>2, <2>3, <2>4
  <1>4. CASE Sent
    <2>1. opened' = opened /\ fromMod' = fromMod /\ tx' = [tx EXCEPT !.busy = FALSE]
      BY <1>4 DEF Sent
    <2>2. ~Opens(tx', c) /\ (Framed(c)' <=> Framed(c))
      BY <1>1, <2>1 DEF Opens, Framed, TxType
    <2>3. ASSUME Awaited(c)' PROVE Awaited(c) \/ Opens(tx, c)
      <3>1. CASE asked' = asked
        BY <2>3, <3>1 DEF Awaited
      <3>2. CASE asked' = Append(asked, tx.req)
        <4>1. PICK i \in 1 .. Len(asked') : asked'[i] = UdpSet(c)
          BY <2>3 DEF Awaited
        <4>2. i \in 1 .. Len(asked) \/ i = Len(asked) + 1
          BY <1>1, <3>2
        <4>3. CASE i \in 1 .. Len(asked)
          BY <1>1, <3>2, <4>1, <4>3 DEF Awaited
        <4>4. CASE i = Len(asked) + 1
          <5>1. tx.req = UdpSet(c)
            BY <1>1, <3>2, <4>1, <4>4
          <5> QED BY <1>4, <5>1 DEF Opens, Sent
        <4> QED BY <4>2, <4>3, <4>4
      <3> QED BY <1>4, <3>1, <3>2 DEF Sent
    <2> QED BY <1>2, <2>1, <2>2, <2>3
  <1>5. CASE CmdTout \/ PollDue("assoc") \/ PollDue("sock")
    BY <1>5 DEF CmdTout, PollDue, linkVars, modVars, Known, Framed
  <1> QED BY <1>3, <1>4, <1>5 DEF Callbacks

\* What the module opens it has been asked to open, and data comes from there.
LEMMA KnownModule ==
    ASSUME TypeShape, Module, NEW c \in Sockets, Known(c)'
    PROVE  Known(c)
  <1> USE KnownNames
  <1>1. fromMod \in Seq(Frame) /\ asked \in Seq(Asks) /\ c # Ctrl
    BY MegaWifiAssumption DEF TypeShape, ModTypes
  <1>2. Known(c)' <=> c \in opened' \/ Framed(c)' \/ Opens(tx, c) \/ Awaited(c)'
    BY DEF Known, Opens, Awaited, Module, Answer, Ignore, Datagram, linkVars
  <1>3. ASSUME Takes PROVE /\ Awaited(c)' => Awaited(c)
                           /\ Head(asked) = asked[1] /\ 1 \in 1 .. Len(asked)
    <2>1. /\ Len(asked) \in Nat \ {0} /\ Len(asked') = Len(asked) - 1
          /\ \A i \in 1 .. Len(asked') : asked'[i] = asked[i + 1]
          /\ Head(asked) = asked[1]
      BY <1>1, <1>3 DEF Takes
    <2>2. ASSUME NEW i \in 1 .. Len(asked'), asked'[i] = UdpSet(c) PROVE Awaited(c)
      BY <2>1, <2>2, i + 1 \in 1 .. Len(asked) DEF Awaited
    <2> QED BY <2>1, <2>2 DEF Awaited
  <1>4. CASE Answer
    <2>1. Takes
      BY <1>4 DEF Answer
    <2>2. PICK ok \in BOOLEAN :
             /\ fromMod' = Append(fromMod, Reply(Head(asked), ok))
             /\ opened' = Opened(Head(asked), ok)
      BY <1>4 DEF Answer
    <2>3. Framed(c)' => Framed(c)
      BY <1>1, <2>2, FramedAppend DEF Reply
    <2>4. c \in opened' => c \in opened \/ Awaited(c)
      <3>1. ASSUME c \in opened', c \notin opened PROVE Head(asked) = UdpSet(c)
        <4>1. Head(asked).cmd = "open" /\ Head(asked).ch = c
          BY <2>2, <3>1 DEF Opened
        <4>2. Head(asked) \in Request
          BY <1>1, <1>3, <2>1, RequestTypes
        <4> QED BY <4>1, <4>2 DEF Request, UdpSet
      <3> QED BY <1>3, <2>1, <3>1 DEF Awaited
    <2> QED BY <1>2, <1>3, <2>1, <2>3, <2>4
  <1>5. CASE Ignore
    BY <1>2, <1>3, <1>5 DEF Ignore, Framed
  <1>6. CASE Datagram
    <2>1. PICK ch \in opened : fromMod' = Append(fromMod, Data(ch))
      BY <1>6 DEF Datagram
    <2>2. Framed(c)' => Framed(c) \/ ch = c
      BY <1>1, <2>1, FramedAppend DEF Data
    <2> QED BY <1>2, <1>6, <2>1, <2>2 DEF Datagram, Awaited
  <1> QED BY <1>4, <1>5, <1>6 DEF Module

\* The program opens each of its sockets in one step.
LEMMA KnownProgram ==
    ASSUME TypeShape, Program, NEW c \in Sockets, Known(c)'
    PROVE  Known(c) \/ step' = Opening(c)
  <1> USE KnownNames
  <1>1. tx \in TxType /\ fromMod \in Seq(Frame)
    BY DEF TypeShape, LinkTypes, ModTypes
  <1>2. Known(c)' <=> c \in opened' \/ Framed(c)' \/ Opens(tx', c) \/ Awaited(c)'
    BY DEF Known, Opens, Awaited
  <1>3. ASSUME ResetFifos PROVE Known(c)
    <2>1. Framed(c)' => Framed(c)
      BY <1>1, <1>3, FramedCut DEF ResetFifos
    <2> QED BY <1>2, <1>3, <2>1 DEF ResetFifos, Awaited
  <1>4. ASSUME Sleep \/ RecvSync(FALSE) \/ \E s : Leave(s) PROVE Known(c)
    BY <1>4 DEF Sleep, RecvSync, Leave, linkVars, modVars, Known, Framed
  <1>5. ASSUME UNCHANGED modVars, Opens(tx', c) => Opens(tx, c) PROVE Known(c)
    BY <1>2, <1>5 DEF modVars, Awaited, Framed
  <1>6. ASSUME NEW r \in Asks, Command(r) PROVE Known(c) \/ r = UdpSet(c)
    <2>1. UNCHANGED modVars
      BY <1>6 DEF Command, Ask, Refuse
    <2>2. Opens(tx', c) => Opens(tx, c) \/ r = UdpSet(c)
      BY <1>1, <1>6, OpensCommand DEF Command, Ask, Refuse, linkVars
    <2> QED BY <1>5, <2>1, <2>2
  <1>7. ASSUME NEW f, NEW r, NEW t, PollWait(f, r, t), r.cmd \in Polled PROVE Known(c)
    <2>1. r # UdpSet(c)
      BY <1>7 DEF UdpSet, Polled
    <2> QED BY <1>1, <1>5, <1>7, <2>1, OpensCommand DEF PollWait
  <1>8. ASSUME NEW ch, SendSync(ch, FALSE) PROVE Known(c)
    <2>1. UdpSet(c) # NoRequest
      BY DEF UdpSet, NoRequest
    <2> QED BY <1>5, <1>8, <2>1 DEF SendSync, Opens
  <1>9. CASE DetectReset \/ DetectBoot \/ DetectFirst \/ DetectAgain \/ DetectFails
             \/ Detected \/ GiveUp \/ Serve \/ Respond
    BY <1>3, <1>4, <1>8, <1>9 DEF DetectReset, DetectBoot, DetectFirst, DetectAgain, Attempt,
       DetectFails, Detected, GiveUp, Serve, Respond
  <1>10. CASE Associate \/ WaitControl \/ WaitMidi
    BY <1>7, <1>10 DEF Associate, AssocWait, WaitControl, WaitMidi, SockWait, Polled
  <1>11. CASE DetectAsk \/ Join \/ ShowIp
    <2>1. PICK a \in {"version", "ap_join", "ip_current"} : Command(Plain(a))
      BY <1>11 DEF DetectAsk, Join, ShowIp
    <2>2. Plain(a) # UdpSet(c) /\ Plain(a) \in Asks
      BY RequestTypes DEF Plain, UdpSet
    <2> QED BY <1>6, <2>1, <2>2
  <1>12. CASE OpenControl \/ OpenMidi
    <2>1. PICK d \in Sockets : Command(UdpSet(d)) /\ step' = Opening(d)
      BY <1>12, MidiClientAssumption DEF OpenControl, OpenMidi, Goto, Opening
    <2>2. UdpSet(d) = UdpSet(c) => d = c
      BY DEF UdpSet
    <2> QED BY <1>6, <2>1, <2>2, RequestTypes
  <1> QED BY <1>9, <1>10, <1>11, <1>12 DEF Program

\* A frame that ends the wait of a command is data from an enabled channel, or
\* else nothing is received any more.
LEMMA BehindCallbacks ==
    ASSUME TypeShape, TimerShape, ReceiverInv, AskShape, Callbacks, NEW c \in Sockets \ chOn,
           Receives => Behind(c), step \in {Opening(c), "failed"},
           UNCHANGED <<step, retries>>, Receives'
    PROVE  Behind(c)'
  <1>1. fromMod \in Seq(Frame)
    BY DEF TypeShape, ModTypes
  <1>2. call \notin Polls /\ call # "recv" /\ call # "send" /\ step \notin {"receive", "send"}
    BY DEF ReceiverInv, StepCall, Opening, Outer, CommandSteps, Polls
  <1>3. CASE CmdRecv
    <2>1. call = "command" /\ post' = OK /\ md' # Ctrl
      BY <1>3 DEF CmdRecv, Complete, Idle, Receives
    <2>2. Pending /\ ~stray /\ rx.cb = "cmd"
      BY <1>3, <2>1 DEF CmdRecv, Complete, LoopRuns
    <2>3. ~Failed /\ md' = Head(fromMod).ch
      BY <1>3, <2>1, <2>2 DEF CmdRecv, Post, OK, Proto, Arrived
    <2>4. /\ fromMod # <<>> /\ fromMod' = Tail(fromMod) /\ opened' = opened
      BY <1>3 DEF CmdRecv, Complete
    <2> QED BY <1>1, <2>1, <2>2, <2>3, <2>4, BehindTail DEF Receives
  <1>4. CASE AssocReply \/ SockReply
    <2>1. rx'.cb = "none" /\ call = "command" /\ rx.cb \in Polls
      BY <1>4 DEF AssocReply, SockReply, Complete, StatReady, StatAgain, callVars, Idle, Polls,
                  Receives
    <2>2. step \in CommandSteps
      BY <2>1 DEF ReceiverInv, StepCall, Opening, Outer, CommandSteps
    <2> QED BY <2>1, <2>2 DEF ReceiverInv, ReceiverShape, Polls
  <1>5. CASE Sent
    <2>1. ~tx.cb
      BY <1>2, <1>5 DEF Sent, ReceiverInv, SenderShape
    <2> QED BY <1>5, <2>1 DEF Sent, Receives, Behind, Framed
  <1>6. CASE CmdTout
    <2>1. post' # OK \/ post' = post
      BY <1>6 DEF CmdTout, Post, OK, Timeout
    <2>2. stray' \/ stray' = stray
      BY <1>6 DEF CmdTout, Post
    <2> QED BY <1>6, <2>1, <2>2 DEF CmdTout, linkVars, modVars, Receives, Behind, Framed
  <1>7. ASSUME NEW cb \in Polls, PollDue(cb) PROVE FALSE
    BY <1>2, <1>7 DEF PollDue, Due, TimerShape, Polls
  <1> QED BY <1>3, <1>4, <1>5, <1>6, <1>7 DEF Callbacks, Polls

LEMMA BehindReturns ==
    ASSUME Returns, NEW c, Receives => Behind(c), Receives'
    PROVE  Behind(c)'
  <1>1. Receives
    BY DEF Receives, Returns, SleepDone, CommandDone, CommandData, PollDone, DataDone, linkVars,
           Return, Woken
  <1> QED
    BY <1>1 DEF Returns, SleepDone, CommandDone, CommandData, PollDone, DataDone, modVars,
                Behind, Framed

\* The module answers a request to open a channel before it sends data there.
LEMMA BehindModule ==
    ASSUME TypeShape, Module, NEW c \in Sockets, Behind(c)
    PROVE  Behind(c)'
  <1>1. fromMod \in Seq(Frame) /\ c # Ctrl
    BY MegaWifiAssumption DEF TypeShape, ModTypes
  <1>2. CASE Answer
    <2>1. PICK ok \in BOOLEAN :
             fromMod' = Append(fromMod, Reply(Head(asked), ok))
      BY <1>2 DEF Answer
    <2> QED BY <1>1, <2>1, BehindAppend DEF Reply
  <1>3. CASE Ignore
    BY <1>3 DEF Ignore, Behind, Framed
  <1>4. CASE Datagram
    <2>1. PICK ch \in opened : fromMod' = Append(fromMod, Data(ch)) /\ opened' = opened
      BY <1>4 DEF Datagram
    <2>2. c \in opened \/ (Data(ch).ch # c /\ c \notin opened')
      BY <2>1 DEF Data
    <2> QED BY <1>1, <2>1, <2>2, BehindAppend
  <1> QED BY <1>2, <1>3, <1>4 DEF Module

\* The program does not go on before the channel is enabled.
LEMMA OpeningKept ==
    ASSUME ReceiverInv, ChannelShape, Program, NEW c \in Sockets \ chOn,
           step \in {Opening(c), "failed"}
    PROVE  GiveUp
  <1>1. c = Control \/ c = Midi
    BY MidiClientAssumption
  <1>2. \/ step = "control" /\ (call = "returned" => err)
        \/ step = "midi" /\ (call = "returned" => err)
        \/ step = "failed"
    BY <1>1 DEF ChannelShape, Opening
  <1> QED
    BY <1>2 DEF Program, DetectReset, DetectBoot, DetectFirst, DetectAgain, DetectAsk,
       DetectFails, Detected, Join, Associate, ShowIp, OpenControl, OpenMidi, WaitControl,
       WaitMidi, Serve, Respond, At, FrameTimer

LEMMA DataInit ==
    Init => DataShape
  <1>1. ASSUME Init, NEW c PROVE ~Known(c)
    BY <1>1 DEF Init, MwInit, Known, Framed
  <1> QED BY <1>1 DEF DataShape, Known, Behind

LEMMA DataStep ==
    ASSUME TypeShape, TimerShape, ReceiverInv, AskShape, ChannelShape, DataShape, Next
    PROVE  DataShape'
  <1> SUFFICES ASSUME NEW c \in Sockets \ chOn', Known(c)'
               PROVE  /\ step' \in {Opening(c), "failed"}
                      /\ Receives' => Behind(c)'
    BY DEF DataShape, Known, Behind
  <1>1. c \in Sockets \ chOn
    <2>1. CASE CommandDone /\ UNCHANGED <<step, retries>>
      BY <2>1, ChannelDone
    <2>2. CASE CommandDone /\ Program
      BY <2>2 DEF CommandDone, Woken, Program, DetectReset, DetectBoot, DetectFirst,
         DetectAgain, DetectAsk, DetectFails, Detected, Join, Associate, ShowIp, OpenControl,
         OpenMidi, WaitControl, WaitMidi, GiveUp, Serve, Respond, At, FrameTimer
    <2> QED BY <2>1, <2>2, ChannelKept DEF Next
  <1>2. CASE MwNext /\ UNCHANGED <<step, retries>>
    <2>1. Known(c)
      <3>1. CASE Returns
        BY <3>1 DEF Returns, SleepDone, CommandDone, CommandData, PollDone, DataDone,
                    linkVars, modVars, Known, Framed
      <3> QED BY <1>1, <1>2, <3>1, KnownCallbacks, KnownModule DEF MwNext
    <2>2. step \in {Opening(c), "failed"} /\ (Receives => Behind(c))
      BY <1>1, <2>1 DEF DataShape
    <2>3. Receives' => Behind(c)'
      <3>1. CASE Module
        <4>1. Receives' => Receives
          BY <3>1 DEF Module, Answer, Ignore, Datagram, callVars, linkVars, Receives
        <4> QED BY <1>1, <2>2, <3>1, <4>1, BehindModule
      <3> QED BY <1>1, <1>2, <2>2, <3>1, BehindCallbacks, BehindReturns DEF MwNext
    <2> QED BY <1>2, <2>2, <2>3
  <1>3. CASE Program
    <2>1. CASE Known(c)
      <3>1. step \in {Opening(c), "failed"} /\ (Receives => Behind(c))
        BY <1>1, <2>1 DEF DataShape
      <3>2. GiveUp
        BY <1>1, <1>3, <3>1, OpeningKept
      <3> QED
        BY <3>1, <3>2 DEF GiveUp, Leave, Goto, linkVars, modVars, Receives, Behind, Framed
    <2>2. CASE ~Known(c)
      <3>1. step' = Opening(c)
        BY <1>1, <1>3, <2>2, KnownProgram
      <3>2. OpenControl \/ OpenMidi
        BY <1>3, <3>1 DEF Opening, Program, DetectReset, DetectBoot, DetectFirst,
         DetectAgain, Attempt, DetectAsk, DetectFails, Detected, Join, Associate, ShowIp,
         WaitControl, WaitMidi, GiveUp, Serve, Respond, Leave, Goto
      <3>3. UNCHANGED modVars
        BY <3>2 DEF OpenControl, OpenMidi, Command, Ask, Refuse
      <3>4. c \notin opened /\ ~Framed(c)
        BY <2>2 DEF Known
      <3> QED BY <3>1, <3>3, <3>4 DEF modVars, Behind, Framed
    <2> QED BY <2>1, <2>2
  <1> QED BY <1>2, <1>3 DEF Next

DataInv ==
    /\ TypeShape /\ TimerShape /\ ReceiverInv
    /\ AskShape /\ ChannelShape /\ SilentShape /\ DataShape

LEMMA DataInvInit ==
    Init => DataInv
  <1>1. Init => AskShape
    BY DEF Init, MwInit, AskShape, CommandSteps, Idle
  <1> QED
    BY <1>1, TypeInit, TimerInit, ReceiverInit, ChannelInit, DataInit DEF DataInv

LEMMA DataInvStep ==
    DataInv /\ [Next]_vars => DataInv'
  <1> SUFFICES ASSUME DataInv, [Next]_vars
               PROVE  ChannelShape' /\ SilentShape' /\ DataShape'
    BY TypeStep, TimerStep, ReceiverStep, AskStep DEF DataInv
  <1>1. ReceiverInv'
    BY ReceiverStep DEF DataInv
  <1>2. CASE Next
    BY <1>1, <1>2, ChannelStep, SilentStep, DataStep DEF DataInv
  <1>3. CASE UNCHANGED vars
    BY <1>3 DEF vars, mwVars, callVars, linkVars, modVars, DataInv, ChannelShape, SilentShape,
                DataShape, Known, Behind, Receives, Framed
  <1> QED BY <1>2, <1>3

LEMMA DataOpen ==
    DataInv => DataOnOpenChannel
  <1> SUFFICES ASSUME DataInv, LoopRuns, rx.cb # "none", fromMod # <<>>,
                      Head(fromMod).ch \notin chOn
               PROVE  FALSE
    BY DEF DataOnOpenChannel
  <1> DEFINE c == Head(fromMod).ch
  <1>1. /\ fromMod \in Seq(Frame) /\ Len(fromMod) \in Nat /\ 1 \in 1 .. Len(fromMod)
        /\ Head(fromMod) = fromMod[1]
    BY DEF DataInv, TypeShape, ModTypes
  <1>2. c # Ctrl
    BY DEF DataInv, SilentShape, ChannelShape
  <1>3. c \in Sockets
    <2>1. c \in Channels
      BY <1>1, FrameTypes
    <2> QED BY <1>2, <2>1 DEF Channels
  <1>4. Receives /\ Framed(c)
    BY <1>1 DEF LoopRuns, Receives, Framed
  <1>5. PICK j \in 1 .. Len(fromMod) : \A i \in 1 .. j : fromMod[i].ch # c
    BY <1>3, <1>4 DEF DataInv, DataShape, Behind
  <1> QED BY <1>1, <1>5

\* Data reaches the receiver only on a channel that is enabled: mw_udp_set()
\* enables its channel (megawifi.c:771) when it has the module's answer, which
\* comes before anything the socket receives.
THEOREM DataComesOnOpenChannels == Spec => []DataOnOpenChannel
  BY DataInvInit, DataInvStep, DataOpen, PTL DEF Spec

-----------------------------------------------------------------------------
(* One command at a time.                                                  *)

\* A frame is received into *d.cmd unless the program serves packets.
BufferShape ==
    /\ step \in ServeSteps => ~rx.cmd
    /\ step \notin ServeSteps /\ rx.cb # "none" => rx.cmd

\* Of the frames on their way, one is of the control channel: the answer.
OneReply ==
    \E k \in 1 .. Len(fromMod) :
        /\ fromMod[k].ch = Ctrl /\ fromMod[k].re = req
        /\ \A i \in 1 .. Len(fromMod) : fromMod[i].ch = Ctrl => i = k

\* Where the last command is: nowhere any more, on its way, with the module, or
\* answered.
Nothing  == ~tx.busy /\ asked = <<>> /\ ~Framed(Ctrl)
Sending  == tx.busy /\ tx.req = req /\ asked = <<>> /\ ~Framed(Ctrl)
ToModule == ~tx.busy /\ asked = <<req>> /\ ~Framed(Ctrl)
Coming   == ~tx.busy /\ asked = <<>> /\ OneReply
OneRequest == Nothing \/ Sending \/ ToModule \/ Coming

NoError == \A i \in 1 .. Len(fromMod) : ~fromMod[i].err
NoData  == \A i \in 1 .. Len(fromMod) : fromMod[i].ch = Ctrl

\* The program does not go on before its command is over.
QuietSteps == {"start", "absent", "detected", "probe"} \cup SleepSteps
Settled ==
    \/ step \in QuietSteps
    \/ step \in CommandSteps /\ call = "returned"
    \/ step \in {"assoc"} \cup SockSteps /\ call = "returned" /\ ~err

\* A callback has posted that the answer is there.
Answered ==
    \/ call = "command" /\ post = OK /\ md = Ctrl
    \/ call \in Polls /\ post = OK

Serial ==
    /\ OneRequest /\ NoError /\ (~mixed => NoData)
    /\ Settled => Nothing
    /\ Answered => Nothing /\ cmd \in Frame /\ cmd.re = req
    /\ call = "command" => post \in {NoPost, OK}

\* So it is until a command is given up, or a datagram comes while the program
\* polls a socket, or the program serves.
Orderly ==
    /\ ~timedOut /\ step \notin ServeSteps
    /\ ~mixed \/ step \notin SockSteps \cup {"failed"}

SerialShape == Orderly => Serial
WholeShape == ~timedOut /\ ~mixed => ~tx.torn

LEMMA NothingTail ==
    ASSUME fromMod \in Seq(Frame), fromMod # <<>>, fromMod' = Tail(fromMod)
    PROVE  /\ NoError => NoError'
           /\ NoData => NoData'
           /\ Head(fromMod) \in Frame
           /\ NoError => ~Head(fromMod).err
           /\ NoData => Head(fromMod).ch = Ctrl
           /\ Head(fromMod).ch = Ctrl => Framed(Ctrl)
  <1>1. /\ Len(fromMod) \in Nat \ {0} /\ Len(fromMod') = Len(fromMod) - 1
        /\ \A i \in 1 .. Len(fromMod') : fromMod'[i] = fromMod[i + 1]
        /\ Head(fromMod) = fromMod[1] /\ Head(fromMod) \in Frame
    OBVIOUS
  <1>2. \A i \in 1 .. Len(fromMod') : i + 1 \in 1 .. Len(fromMod)
    BY <1>1
  <1>3. 1 \in 1 .. Len(fromMod)
    BY <1>1
  <1> QED BY <1>1, <1>2, <1>3 DEF NoError, NoData, Framed

\* The answer is the only frame of its channel.
LEMMA ReplyTail ==
    ASSUME fromMod \in Seq(Frame), fromMod # <<>>, fromMod' = Tail(fromMod), req' = req, OneReply
    PROVE  /\ Head(fromMod).ch = Ctrl => Head(fromMod).re = req /\ ~Framed(Ctrl)'
           /\ Head(fromMod).ch # Ctrl => OneReply'
  <1>1. /\ Len(fromMod) \in Nat \ {0} /\ Len(fromMod') = Len(fromMod) - 1
        /\ \A i \in 1 .. Len(fromMod') : fromMod'[i] = fromMod[i + 1]
        /\ Head(fromMod) = fromMod[1]
    OBVIOUS
  <1>2. 1 \in 1 .. Len(fromMod) /\ \A i \in 1 .. Len(fromMod') : i + 1 \in 1 .. Len(fromMod)
    BY <1>1
  <1>3. PICK k \in 1 .. Len(fromMod) :
           /\ fromMod[k].ch = Ctrl /\ fromMod[k].re = req
           /\ \A i \in 1 .. Len(fromMod) : fromMod[i].ch = Ctrl => i = k
    BY DEF OneReply
  <1>4. ASSUME Head(fromMod).ch = Ctrl PROVE Head(fromMod).re = req /\ ~Framed(Ctrl)'
    <2>1. k = 1
      BY <1>1, <1>2, <1>3, <1>4
    <2>2. ASSUME NEW i \in 1 .. Len(fromMod') PROVE fromMod'[i].ch # Ctrl
      <3>1. i + 1 \in 1 .. Len(fromMod) /\ i + 1 # 1
        BY <1>2
      <3>2. fromMod[i + 1].ch # Ctrl
        BY <1>3, <2>1, <3>1
      <3> QED BY <1>1, <3>2
    <2> QED BY <1>1, <1>3, <2>1, <2>2 DEF Framed
  <1>5. ASSUME Head(fromMod).ch # Ctrl PROVE OneReply'
    <2>1. k # 1 /\ k - 1 \in 1 .. Len(fromMod')
      BY <1>1, <1>3, <1>5
    <2>2. fromMod'[k - 1].ch = Ctrl /\ fromMod'[k - 1].re = req'
      BY <1>1, <1>3, <2>1
    <2>3. ASSUME NEW i \in 1 .. Len(fromMod'), fromMod'[i].ch = Ctrl PROVE i = k - 1
      <3>1. i + 1 \in 1 .. Len(fromMod) /\ fromMod[i + 1].ch = Ctrl
        BY <1>1, <1>2, <2>3
      <3>2. i + 1 = k
        BY <1>3, <3>1
      <3> QED BY <3>2
    <2> QED BY <2>1, <2>2, <2>3 DEF OneReply
  <1> QED BY <1>4, <1>5

LEMMA ReplyAppend ==
    ASSUME fromMod \in Seq(Frame), NEW f, fromMod' = Append(fromMod, f), req' = req
    PROVE  /\ NoError /\ ~f.err => NoError'
           /\ NoData /\ f.ch = Ctrl => NoData'
           /\ ~Framed(Ctrl) /\ f.ch # Ctrl => ~Framed(Ctrl)'
           /\ ~Framed(Ctrl) /\ f.ch = Ctrl /\ f.re = req => OneReply'
           /\ OneReply /\ f.ch # Ctrl => OneReply'
  <1>1. /\ \A i \in 1 .. Len(fromMod) : fromMod'[i] = fromMod[i]
        /\ Len(fromMod') = Len(fromMod) + 1 /\ Len(fromMod) \in Nat
        /\ fromMod'[Len(fromMod')] = f
    BY FramedAppend
  <1>2. /\ \A i \in 1 .. Len(fromMod') : i \in 1 .. Len(fromMod) \/ i = Len(fromMod')
        /\ \A i \in 1 .. Len(fromMod) : i \in 1 .. Len(fromMod')
        /\ Len(fromMod') \in 1 .. Len(fromMod')
    BY <1>1
  <1>3. NoError /\ ~f.err => NoError'
    BY <1>1, <1>2 DEF NoError
  <1>4. NoData /\ f.ch = Ctrl => NoData'
    BY <1>1, <1>2 DEF NoData
  <1>5. ~Framed(Ctrl) /\ f.ch # Ctrl => ~Framed(Ctrl)'
    BY FramedAppend
  <1>6. ASSUME ~Framed(Ctrl), f.ch = Ctrl, f.re = req PROVE OneReply'
    <2>1. \A i \in 1 .. Len(fromMod) : fromMod[i].ch # Ctrl
      BY <1>6 DEF Framed
    <2>2. \A i \in 1 .. Len(fromMod') : fromMod'[i].ch = Ctrl => i = Len(fromMod')
      BY <1>1, <1>2, <2>1
    <2> QED BY <1>1, <1>2, <1>6, <2>2 DEF OneReply
  <1>7. ASSUME OneReply, f.ch # Ctrl PROVE OneReply'
    <2>1. PICK k \in 1 .. Len(fromMod) :
           /\ fromMod[k].ch = Ctrl /\ fromMod[k].re = req
           /\ \A i \in 1 .. Len(fromMod) : fromMod[i].ch = Ctrl => i = k
      BY <1>7 DEF OneReply
    <2>2. \A i \in 1 .. Len(fromMod') : fromMod'[i].ch = Ctrl => i = k
      BY <1>1, <1>2, <1>7, <2>1
    <2>3. k \in 1 .. Len(fromMod') /\ fromMod'[k].ch = Ctrl /\ fromMod'[k].re = req'
      BY <1>1, <1>2, <2>1
    <2> QED BY <2>2, <2>3 DEF OneReply
  <1> QED BY <1>3, <1>4, <1>5, <1>6, <1>7

\* An idle transmitter takes a command whole.
LEMMA SendIdle ==
    ASSUME NEW t \in TxType, ~t.busy, Ctrl \in chOn, NEW r, NEW u \in CmdSend(t, r)
    PROVE  u.busy /\ u.req = r /\ ~u.torn
  BY DEF CmdSend

LEMMA OverIdle ==
    ASSUME tx \in TxType, ~tx.busy \/ ~rx.cmd, NEW u \in Overwritten(tx)
    PROVE  u = tx
  BY DEF Overwritten, TxType

LEMMA OverKept ==
    ASSUME tx \in TxType, NEW u \in Overwritten(tx)
    PROVE  u.busy = tx.busy /\ u.req = tx.req /\ u \in TxType
<1>1. u \in {tx, [tx EXCEPT !.torn = TRUE]}
  BY DEF Overwritten
<1> QED BY <1>1 DEF TxType

\* Before a socket is opened no data comes.
LEMMA EarlyFrames ==
    ASSUME DataInv, step \in EarlySteps
    PROVE  NoData
  <1> SUFFICES ASSUME NEW i \in 1 .. Len(fromMod), fromMod[i].ch # Ctrl
               PROVE  FALSE
    BY DEF NoData
  <1>1. fromMod \in Seq(Frame)
    BY DEF DataInv, TypeShape, ModTypes
  <1>2. fromMod[i].ch \in Sockets
    <2>1. fromMod[i] \in Frame
      BY <1>1
    <2> QED BY <2>1, FrameTypes DEF Channels
  <1>3. fromMod[i].ch \notin chOn /\ Framed(fromMod[i].ch)
    BY DEF DataInv, ChannelShape, Framed
  <1>4. step \in {Opening(fromMod[i].ch), "failed"}
    BY <1>2, <1>3 DEF DataInv, DataShape, Known
  <1> QED BY <1>4 DEF Opening, EarlySteps, SleepSteps

SerialInv == DataInv /\ BufferShape /\ SerialShape /\ WholeShape

LEMMA BufferStep ==
    ASSUME DataInv, BufferShape, Next
    PROVE  BufferShape'
  <1>1. ASSUME UNCHANGED step, rx' = rx \/ rx' = Idle PROVE BufferShape'
    BY <1>1 DEF BufferShape, Idle
  <1>2. ASSUME UNCHANGED step, step \notin ServeSteps, NEW cb, rx' = Armed(cb) PROVE BufferShape'
    BY <1>2 DEF BufferShape, Armed
  <1>3. CASE Callbacks /\ UNCHANGED <<step, retries>>
    <2>1. ASSUME NEW cb \in Polls, PollDue(cb) PROVE BufferShape'
      <3>1. step \notin ServeSteps
        BY <2>1 DEF PollDue, Due, DataInv, TimerShape, ReceiverInv, StepCall, ServeSteps, Polls
      <3> QED BY <1>1, <1>2, <1>3, <2>1, <3>1 DEF PollDue, PollOver, PollAgain
    <2> QED
      BY <1>1, <1>3, <2>1 DEF Callbacks, CmdRecv, AssocReply, SockReply, Complete, Sent, CmdTout,
              linkVars, Polls
  <1>4. CASE Returns /\ UNCHANGED <<step, retries>>
    <2>1. CASE CommandData
      <3>1. step \notin ServeSteps
        BY <2>1 DEF CommandData, Woken, DataInv, ReceiverInv, StepCall, ServeSteps
      <3> QED BY <1>2, <1>4, <2>1, <3>1 DEF CommandData
    <2> QED
      BY <1>1, <1>4, <2>1 DEF Returns, SleepDone, CommandDone, PollDone, DataDone, linkVars
  <1>5. CASE Module /\ UNCHANGED <<step, retries>>
    BY <1>1, <1>5 DEF Module, Answer, Ignore, Datagram, linkVars
  <1>6. CASE Program
    <2>1. CASE Serve \/ Respond
      BY <2>1 DEF Serve, Respond, RecvSync, SendSync, Goto, BufferShape, ServeSteps, At
    <2>2. CASE ~(Serve \/ Respond)
      <3>1. step \notin ServeSteps /\ step' \notin ServeSteps
        BY <1>6, <2>2 DEF Program, DetectReset, DetectBoot, DetectFirst, DetectAgain, Attempt,
           DetectAsk, DetectFails, Detected, Join, Associate, ShowIp, OpenControl, OpenMidi,
           WaitControl, WaitMidi, GiveUp, Leave, At, FrameTimer, Goto, ServeSteps
      <3>2. rx' = rx \/ rx' = Armed("cmd")
        BY <1>6, <2>2 DEF Program, DetectReset, DetectBoot, DetectFirst, DetectAgain, Attempt,
           DetectAsk, DetectFails, Detected, Join, Associate, ShowIp, OpenControl, OpenMidi,
           WaitControl, WaitMidi, GiveUp, Leave, Sleep, ResetFifos, Command, Ask, Refuse,
           AssocWait, SockWait, PollWait, linkVars
      <3> QED BY <3>1, <3>2 DEF BufferShape, Armed
    <2> QED BY <2>1, <2>2
  <1> QED BY <1>3, <1>4, <1>5, <1>6 DEF Next, MwNext

\* While the loop runs nothing has returned and nothing is posted.
LEMMA LoopUnsettled ==
    ASSUME LoopRuns
    PROVE  ~Answered /\ (Settled => step \in QuietSteps) /\ call # "returned"
  BY DEF LoopRuns, Pending, Waits, Answered, Settled, OK, NoPost, Polls

\* A frame of the control channel that is received is the answer: the request
\* is over.
LEMMA AnswerArrives ==
    ASSUME SerialInv, NEW cb, Complete(cb), UNCHANGED <<step, req>>, Orderly,
           Arrived.ch = Ctrl
    PROVE  /\ ~Failed /\ ~tx.busy /\ asked = <<>> /\ ~Framed(Ctrl)'
           /\ Arrived \in Frame /\ Arrived.re = req
           /\ NoError' /\ (~mixed => NoData')
           /\ step \notin QuietSteps
  <1>1. fromMod \in Seq(Frame) /\ fromMod # <<>> /\ fromMod' = Tail(fromMod)
    BY DEF SerialInv, DataInv, TypeShape, ModTypes, Complete
  <1>2. Serial
    BY DEF SerialInv, SerialShape
  <1>3. Framed(Ctrl) /\ Arrived \in Frame /\ ~Arrived.err /\ NoError' /\ (~mixed => NoData')
    BY <1>1, <1>2, NothingTail DEF Arrived, Serial
  <1>4. Coming
    BY <1>2, <1>3 DEF Serial, OneRequest, Nothing, Sending, ToModule
  <1>5. Arrived.re = req /\ ~Framed(Ctrl)'
    BY <1>1, <1>4, ReplyTail DEF Coming, Arrived
  <1>6. step \notin QuietSteps
    BY <1>2, <1>3 DEF Serial, Settled, Nothing
  <1>7. ~Failed
    <2>1. ASSUME Ctrl \notin chOn PROVE FALSE
      BY <1>1, <2>1 DEF SerialInv, DataInv, ChannelShape, SilentShape
    <2> QED BY <1>3, <2>1 DEF Failed
  <1> QED BY <1>3, <1>4, <1>5, <1>6, <1>7 DEF Coming

LEMMA SerialCmdRecv ==
    ASSUME SerialInv, CmdRecv, UNCHANGED <<step, retries>>
    PROVE  SerialShape' /\ WholeShape'
  <1>1. /\ Complete("cmd") /\ LoopRuns /\ rx.cb = "cmd" /\ fromMod \in Seq(Frame)
        /\ fromMod # <<>> /\ fromMod' = Tail(fromMod) /\ tx \in TxType
        /\ tx' \in Overwritten(tx)
        /\ UNCHANGED <<call, req, timedOut, mixed, asked>>
    BY DEF CmdRecv, Complete, SerialInv, DataInv, TypeShape, LinkTypes, ModTypes
  <1>2. ~Answered /\ (Settled => step \in QuietSteps) /\ call # "returned"
    BY <1>1, LoopUnsettled
  <1>3. ASSUME Orderly, Arrived.ch = Ctrl PROVE Serial' /\ tx' = tx
    <2>1. /\ ~Failed /\ ~tx.busy /\ asked = <<>> /\ ~Framed(Ctrl)'
          /\ Arrived \in Frame /\ Arrived.re = req
          /\ NoError' /\ (~mixed => NoData') /\ step \notin QuietSteps
      BY <1>1, <1>3, AnswerArrives
    <2>2. tx' = tx
      BY <1>1, <2>1, OverIdle
    <2>3. Nothing'
      BY <1>1, <2>1, <2>2 DEF Nothing
    <2>4. cmd' = Arrived
      <3>1. rx.cmd
        BY <1>1, <1>3 DEF SerialInv, BufferShape, Orderly
      <3> QED BY <3>1 DEF CmdRecv
    <2>5. call = "command" => post' = OK
      BY <1>1, <2>1 DEF CmdRecv, Post, LoopRuns
    <2>6. UNCHANGED step
      OBVIOUS
    <2> QED BY <1>1, <1>2, <2>1, <2>2, <2>3, <2>4, <2>5 DEF Serial, OneRequest, Settled
  <1>4. ASSUME Orderly, Arrived.ch # Ctrl PROVE Serial'
    <2>1. Serial
      BY <1>4 DEF SerialInv, SerialShape
    <2>2. NoError' /\ (~mixed => NoData') /\ ~Arrived.err
      BY <1>1, <2>1, NothingTail DEF Serial, Arrived
    <2>3. ~Failed
      <3>1. Arrived.ch \in chOn
        BY <1>1, DataOpen DEF SerialInv, DataOnOpenChannel, Arrived
      <3> QED BY <2>2, <3>1 DEF Failed
    <2>4. tx'.busy = tx.busy /\ tx'.req = tx.req
      BY <1>1, OverKept
    <2>5. ~Framed(Ctrl) => ~Framed(Ctrl)'
      BY <1>1, FramedTail
    <2>6. OneReply => OneReply'
      BY <1>1, <1>4, ReplyTail DEF Arrived
    <2>7. Nothing => Nothing'
      BY <1>1, <2>4, <2>5 DEF Nothing
    <2>8. OneRequest'
      BY <1>1, <2>1, <2>4, <2>5, <2>6
      DEF Serial, OneRequest, Nothing, Sending, ToModule, Coming
    <2>9. call \notin Polls
      <3>1. call \in Polls => step \in {"assoc"} \cup SockSteps
        BY DEF SerialInv, DataInv, ReceiverInv, StepCall, Polls, SockSteps, CommandSteps,
               SleepSteps, Outer, Steps
      <3> QED BY <1>1, <3>1 DEF SerialInv, DataInv, ReceiverInv, ReceiverShape
    <2>10. call = "command" => post' = OK
      BY <1>1, <2>3 DEF CmdRecv, Post, LoopRuns
    <2>11. md' # Ctrl
      BY <1>4, <2>3 DEF CmdRecv
    <2> QED BY <1>1, <1>2, <2>1, <2>2, <2>7, <2>8, <2>9, <2>10, <2>11 DEF Serial, Settled, Answered
  <1>5. Orderly' <=> Orderly
    BY <1>1 DEF Orderly
  <1>6. WholeShape'
    <2> SUFFICES ASSUME ~timedOut, ~mixed PROVE tx' = tx
      BY <1>1 DEF WholeShape, SerialInv
    <2>1. CASE step \in ServeSteps
      <3>1. ~rx.cmd
        BY <2>1 DEF SerialInv, BufferShape
      <3> QED BY <1>1, <3>1, OverIdle
    <2>2. CASE step \notin ServeSteps
      <3>1. Orderly /\ Serial
        BY <2>2 DEF Orderly, SerialInv, SerialShape
      <3>2. Arrived.ch = Ctrl
        BY <1>1, <3>1, NothingTail DEF Serial, Arrived
      <3> QED BY <1>3, <3>1, <3>2
    <2> QED BY <2>1, <2>2
  <1> QED BY <1>3, <1>4, <1>5, <1>6 DEF SerialShape

\* A reply that says that all is well ends the wait, any other is asked for again.
LEMMA SerialPoll ==
    ASSUME SerialInv, NEW cb \in Polls, Complete(cb),
           StatReady \/ StatAgain(req), UNCHANGED <<step, retries>>
    PROVE  SerialShape' /\ WholeShape'
  <1>1. /\ LoopRuns /\ rx.cb = cb /\ fromMod \in Seq(Frame) /\ fromMod # <<>>
        /\ fromMod' = Tail(fromMod) /\ tx \in TxType
        /\ UNCHANGED <<call, req, timedOut, mixed, asked>>
    BY DEF Complete, StatReady, StatAgain, callVars, SerialInv, DataInv, TypeShape, LinkTypes,
           ModTypes
  <1>2. ~Answered /\ (Settled => step \in QuietSteps) /\ call # "returned"
    BY <1>1, LoopUnsettled
  <1>3. step \notin ServeSteps /\ call # "command"
    <2>1. step \notin ServeSteps \cup CommandSteps
      BY <1>1 DEF SerialInv, DataInv, ReceiverInv, ReceiverShape, ServeSteps, Polls
    <2> QED BY <2>1 DEF SerialInv, DataInv, ReceiverInv, StepCall, Steps, Outer, CommandSteps,
                SleepSteps, SockSteps, ServeSteps
  <1>4. ASSUME Orderly PROVE (Serial' /\ ~tx'.torn) \/ (Serial' /\ tx' = tx)
    <2>1. Arrived.ch = Ctrl
      <3>1. CASE step \in EarlySteps
        BY <1>1, <3>1, EarlyFrames, NothingTail DEF SerialInv, Arrived
      <3>2. CASE step \notin EarlySteps
        <4>1. step \in SockSteps \cup {"failed"}
          BY <1>1, <1>3, <3>2 DEF SerialInv, DataInv, ReceiverInv, StepCall, ReceiverShape, Steps,
             Outer, EarlySteps, SleepSteps, CommandSteps, SockSteps, ServeSteps, Polls
        <4>2. ~mixed /\ Serial
          BY <1>4, <4>1 DEF Orderly, SerialInv, SerialShape
        <4> QED BY <1>1, <4>2, NothingTail DEF Serial, Arrived
      <3> QED BY <3>1, <3>2
    <2>2. /\ ~Failed /\ ~tx.busy /\ asked = <<>> /\ ~Framed(Ctrl)'
          /\ Arrived \in Frame /\ Arrived.re = req
          /\ NoError' /\ (~mixed => NoData') /\ step \notin QuietSteps
      BY <1>1, <1>4, <2>1, AnswerArrives
    <2>3. ~Settled'
      BY <1>1, <1>2, <2>2 DEF Settled
    <2>4. CASE StatReady
      <3>1. tx' = tx
        BY <1>1, <2>2, <2>4, OverIdle DEF StatReady
      <3>2. Nothing' /\ cmd' = Arrived
        BY <1>1, <2>2, <2>4, <3>1 DEF Nothing, StatReady
      <3> QED BY <1>1, <1>3, <2>2, <2>3, <3>1, <3>2 DEF Serial, OneRequest
    <2>5. CASE StatAgain(req)
      <3>1. PICK t \in Overwritten(tx) : tx' \in CmdSend(t, req)
        BY <2>5 DEF StatAgain
      <3>2. t = tx
        BY <1>1, <2>2, <3>1, OverIdle
      <3>3. Ctrl \in chOn
        BY <2>1, <2>2 DEF Failed
      <3>4. tx'.busy /\ tx'.req = req /\ ~tx'.torn
        BY <1>1, <2>2, <3>1, <3>2, <3>3, SendIdle
      <3>5. Sending'
        BY <1>1, <2>2, <3>4 DEF Sending
      <3>6. ~Answered'
        BY <1>1, <1>2, <2>5 DEF StatAgain, callVars, Answered
      <3> QED BY <1>1, <1>3, <2>2, <2>3, <3>4, <3>5, <3>6 DEF Serial, OneRequest
    <2> QED BY <2>4, <2>5
  <1>5. Orderly' <=> Orderly
    BY <1>1 DEF Orderly
  <1>6. WholeShape'
    BY <1>1, <1>3, <1>4 DEF WholeShape, SerialInv, Orderly
  <1> QED BY <1>4, <1>5, <1>6 DEF SerialShape

\* The command is with the module.
LEMMA SerialSent ==
    ASSUME SerialInv, Sent, UNCHANGED <<step, retries>>
    PROVE  SerialShape' /\ WholeShape'
  <1>1. /\ LoopRuns /\ tx.busy /\ tx \in TxType /\ tx' = [tx EXCEPT !.busy = FALSE]
        /\ UNCHANGED <<call, req, err, md, cmd, timedOut, mixed, fromMod>>
    BY DEF Sent, SerialInv, DataInv, TypeShape, LinkTypes
  <1>2. ~Answered /\ (Settled => step \in QuietSteps) /\ call # "returned"
    BY <1>1, LoopUnsettled
  <1>3. tx'.torn = tx.torn /\ ~tx'.busy
    BY <1>1 DEF TxType
  <1>4. ASSUME Orderly PROVE Serial'
    <2>1. Serial
      BY <1>4 DEF SerialInv, SerialShape
    <2>2. Sending /\ step \notin QuietSteps
      BY <1>1, <2>1 DEF Serial, OneRequest, Nothing, ToModule, Coming, Settled
    <2>3. ~tx.cb
      BY <1>1, <1>4 DEF SerialInv, DataInv, ReceiverInv, SenderShape, Orderly, ServeSteps
    <2>4. post' = post
      BY <2>3 DEF Sent
    <2>5. ~Framed(Ctrl)' /\ NoError' /\ (~mixed' => NoData')
      BY <1>1, <2>1, <2>2 DEF Serial, Sending, Framed, NoError, NoData
    <2>6. asked' = IF req = NoRequest THEN asked ELSE Append(asked, req)
      BY <2>2 DEF Sent, Sending
    <2>7. asked' = <<>> \/ asked' = <<req>>
      BY <2>2, <2>6 DEF Sending
    <2>8. Nothing' \/ ToModule'
      BY <1>1, <1>3, <2>5, <2>7 DEF Nothing, ToModule
    <2>9. ~Settled' /\ ~Answered' /\ (call' = "command" => post' \in {NoPost, OK})
      BY <1>1, <1>2, <2>1, <2>2, <2>4 DEF Settled, Answered, Serial
    <2> QED BY <2>5, <2>8, <2>9 DEF Serial, OneRequest
  <1> QED BY <1>1, <1>3, <1>4 DEF SerialShape, Orderly, WholeShape, SerialInv

\* Nothing moves: what ends a wait is a timeout.
LEMMA SerialTimer ==
    ASSUME SerialInv, CmdTout \/ PollDue("assoc") \/ PollDue("sock"), UNCHANGED <<step, retries>>
    PROVE  SerialShape' /\ WholeShape'
  <1>1. /\ LoopRuns
        /\ UNCHANGED <<call, req, err, md, cmd, mixed, fromMod, asked, tx>>
    BY DEF CmdTout, PollDue, Due, linkVars, modVars
  <1>2. ~Answered /\ (Settled => step \in QuietSteps) /\ call # "returned"
    BY <1>1, LoopUnsettled
  <1>3. ~timedOut' => ~timedOut /\ call # "command"
    <2>1. CASE CmdTout
      BY <2>1 DEF CmdTout
    <2>2. CASE PollDue("assoc") \/ PollDue("sock")
      BY <2>2 DEF PollDue, Due, SerialInv, DataInv, TimerShape, Polls
    <2> QED BY <2>1, <2>2
  <1>4. post' # OK
    <2>1. post # OK /\ Pending
      BY DEF CmdTout, PollDue, Due, SerialInv, DataInv, TimerShape, Pending, OK, NoPost
    <2>2. ASSUME Post(Timeout) PROVE post' # OK
      BY <2>1, <2>2 DEF Post, Timeout, OK
    <2> QED BY <2>1, <2>2 DEF CmdTout, PollDue, PollOver, PollAgain
  <1>5. ASSUME ~timedOut', Orderly' PROVE Serial'
    <2>1. Serial
      BY <1>1, <1>3, <1>5 DEF SerialInv, SerialShape, Orderly
    <2>2. OneRequest' /\ NoError' /\ (~mixed' => NoData') /\ (Settled' => Nothing')
      BY <1>1, <2>1 DEF Serial, OneRequest, Nothing, Sending, ToModule, Coming, OneReply, Framed,
            NoError, NoData, Settled
    <2> QED BY <1>1, <1>3, <1>4, <1>5, <2>2 DEF Serial, Answered
  <1> QED BY <1>1, <1>3, <1>5 DEF SerialShape, Orderly, WholeShape, SerialInv

LEMMA LineSame ==
    ASSUME UNCHANGED <<tx, asked, fromMod, req>>
    PROVE  /\ (OneRequest => OneRequest') /\ (Nothing => Nothing')
           /\ (NoError => NoError') /\ (NoData => NoData')
  BY DEF OneRequest, Nothing, Sending, ToModule, Coming, OneReply, Framed, NoError, NoData

\* A function that returns without an error has its answer.
LEMMA SerialReturns ==
    ASSUME SerialInv, Returns, UNCHANGED <<step, retries>>
    PROVE  SerialShape' /\ WholeShape'
  <1>1. UNCHANGED <<req, md, timedOut, mixed, tx, asked, fromMod, cmd>>
    BY DEF Returns, SleepDone, CommandDone, CommandData, PollDone, DataDone, linkVars, modVars
  <1>2. /\ call' \in {"returned", "command"} /\ post' = NoPost
        /\ call' = "command" => call = "command"
    BY DEF Returns, SleepDone, CommandDone, CommandData, PollDone, DataDone, Return, Wait, Woken
  <1>3. ~Answered'
    BY <1>2 DEF Answered, OK, NoPost, Polls
  <1>4. ASSUME Orderly PROVE Serial'
    <2>1. Serial
      BY <1>4 DEF SerialInv, SerialShape
    <2>2. ASSUME Settled' PROVE Nothing
      <3>1. CASE step \in QuietSteps
        BY <2>1, <3>1 DEF Serial, Settled
      <3>2. CASE step \notin QuietSteps /\ CommandDone
        <4>1. call = "command" /\ post # NoPost /\ (post = OK => md = Ctrl)
          BY <3>2 DEF CommandDone, Woken
        <4> QED BY <2>1, <4>1 DEF Serial, Answered
      <3>3. CASE step \notin QuietSteps /\ CommandData
        BY <2>2, <3>3 DEF CommandData, Settled, Wait
      <3>4. ASSUME step \notin QuietSteps, NEW f \in Polls, PollDone(f) PROVE Nothing
        <4>1. call = f /\ post # NoPost /\ err' = (post < 0)
          BY <3>4 DEF PollDone, Woken, Return
        <4>2. step \notin CommandSteps
          BY <3>4, <4>1 DEF SerialInv, DataInv, ReceiverInv, StepCall, CommandSteps, Polls
        <4>3. ~err'
          BY <2>2, <3>4, <4>2 DEF Settled
        <4>4. post \in Posts \cup {NoPost}
          BY DEF SerialInv, DataInv, TypeShape, FlagTypes
        <4>5. post = OK
          <5>1. post \in {-2, -1, 0, 1} /\ post # 0
            BY <4>1, <4>4 DEF Posts, OK, Timeout, Proto, NoPost
          <5>2. ~(post < 0)
            BY <4>1, <4>3
          <5> QED BY <5>1, <5>2 DEF OK
        <4> QED BY <2>1, <3>4, <4>1, <4>5 DEF Serial, Answered
      <3>5. CASE step \notin QuietSteps /\ SleepDone
        BY <3>5 DEF SleepDone, Woken, SerialInv, DataInv, ReceiverInv, StepCall, Steps, Outer,
           QuietSteps, SleepSteps, CommandSteps, SockSteps
      <3>6. ASSUME step \notin QuietSteps, NEW f \in {"recv", "send"}, DataDone(f) PROVE FALSE
        BY <1>4, <3>6 DEF DataDone, Woken, SerialInv, DataInv, ReceiverInv, StepCall, Steps, Outer,
           QuietSteps, SleepSteps, CommandSteps, SockSteps, Orderly, ServeSteps
      <3> QED BY <3>1, <3>2, <3>3, <3>4, <3>5, <3>6 DEF Returns, Polls
    <2> QED BY <1>1, <1>2, <1>3, <2>1, <2>2, LineSame DEF Serial
  <1> QED BY <1>1, <1>4 DEF SerialShape, Orderly, WholeShape, SerialInv

\* The module answers the one command it has been asked, or ignores it.
LEMMA SerialModule ==
    ASSUME SerialInv, Module, UNCHANGED <<step, retries>>
    PROVE  SerialShape' /\ WholeShape'
  <1>1. /\ UNCHANGED <<req, md, timedOut, tx, cmd, call, post, err>>
        /\ fromMod \in Seq(Frame) /\ asked \in Seq(Asks)
        /\ mixed \in BOOLEAN /\ mixed' \in {mixed, TRUE}
    <2>1. UNCHANGED <<req, md, timedOut, tx, cmd, call, post, err>>
      BY DEF Module, Answer, Ignore, Datagram, callVars, linkVars
    <2>2. fromMod \in Seq(Frame) /\ asked \in Seq(Asks) /\ mixed \in BOOLEAN
      BY DEF SerialInv, DataInv, TypeShape, ModTypes
    <2>3. mixed' \in {mixed, TRUE}
      BY DEF Module, Answer, Ignore, Datagram
    <2> QED BY <2>1, <2>2, <2>3, MegaWifiAssumption
  <1>2. (Settled' <=> Settled) /\ (Answered' <=> Answered)
    BY <1>1 DEF Settled, Answered
  <1>3. ASSUME Orderly' PROVE Orderly /\ Serial
    BY <1>1, <1>3 DEF Orderly, SerialInv, SerialShape
  <1>4. ASSUME Takes, Orderly'
        PROVE  /\ ~tx.busy /\ asked' = <<>> /\ ~Framed(Ctrl) /\ Head(asked) = req
               /\ ~Settled /\ ~Answered
    <2>1. Serial /\ asked # <<>> /\ asked' = Tail(asked)
      BY <1>3, <1>4 DEF Takes
    <2>2. ToModule
      BY <2>1 DEF Serial, OneRequest, Nothing, Sending, Coming
    <2>3. Tail(<<req>>) = <<>> /\ Head(<<req>>) = req
      OBVIOUS
    <2> QED BY <2>1, <2>2, <2>3 DEF ToModule, Serial, Nothing
  <1>5. CASE Answer
    <2>1. ASSUME Orderly' PROVE Serial'
      <3>1. PICK ok \in BOOLEAN :
               fromMod' = Append(fromMod, Reply(req, ok))
        BY <1>4, <1>5, <2>1 DEF Answer
      <3>2. /\ Reply(req, ok).ch = Ctrl /\ Reply(req, ok).re = req
            /\ ~Reply(req, ok).err
        BY DEF Reply
      <3>3. Serial /\ ~tx.busy /\ asked' = <<>> /\ ~Framed(Ctrl) /\ ~Settled /\ ~Answered
        BY <1>3, <1>4, <1>5, <2>1 DEF Answer
      <3>4. OneReply' /\ (NoError => NoError') /\ (NoData => NoData')
        BY <1>1, <3>1, <3>2, <3>3, ReplyAppend
      <3>5. Coming'
        BY <1>1, <3>3, <3>4 DEF Coming
      <3> QED BY <1>1, <1>2, <1>5, <3>3, <3>4, <3>5 DEF Serial, OneRequest, Answer
    <2> QED BY <1>1, <1>5, <2>1 DEF SerialShape, WholeShape, SerialInv, Answer
  <1>6. CASE Ignore
    <2>1. ASSUME Orderly' PROVE Serial'
      <3>1. Serial /\ ~tx.busy /\ asked' = <<>> /\ ~Framed(Ctrl) /\ ~Settled /\ ~Answered
        BY <1>3, <1>4, <1>6, <2>1 DEF Ignore
      <3>2. fromMod' = fromMod /\ mixed' = mixed
        BY <1>6 DEF Ignore
      <3>3. Nothing' /\ (NoError => NoError') /\ (NoData => NoData')
        BY <1>1, <3>1, <3>2 DEF Nothing, Framed, NoError, NoData
      <3> QED BY <1>1, <1>2, <3>1, <3>2, <3>3 DEF Serial, OneRequest
    <2> QED BY <1>1, <1>6, <2>1 DEF SerialShape, WholeShape, SerialInv, Ignore
  <1>7. CASE Datagram
    <2>1. PICK ch \in opened : fromMod' = Append(fromMod, Data(ch)) /\ asked' = asked
      BY <1>7 DEF Datagram
    <2>2. Data(ch).ch # Ctrl /\ ~Data(ch).err
      BY MegaWifiAssumption DEF Data, SerialInv, DataInv, TypeShape, ModTypes
    <2>3. /\ NoError => NoError'
          /\ ~Framed(Ctrl) => ~Framed(Ctrl)'
          /\ OneReply => OneReply'
      BY <1>1, <2>1, <2>2, ReplyAppend
    <2>4. mixed'
      BY <1>1, <1>7 DEF Datagram
    <2>5. ASSUME Orderly' PROVE Serial'
      <3>1. Serial
        BY <1>3, <2>5
      <3>2. tx' = tx /\ asked' = asked /\ req' = req
        BY <1>1, <2>1
      <3>3. ASSUME Nothing \/ Sending \/ ToModule
            PROVE  (Nothing => Nothing') /\ (Nothing' \/ Sending' \/ ToModule')
        <4>1. ~Framed(Ctrl)
          BY <3>3 DEF Nothing, Sending, ToModule
        <4>2. ~Framed(Ctrl)'
          BY <2>3, <4>1
        <4> QED BY <3>2, <3>3, <4>2 DEF Nothing, Sending, ToModule
      <3>4. ASSUME Coming PROVE Coming'
        <4>1. OneReply'
          BY <2>3, <3>4 DEF Coming
        <4> QED BY <3>2, <3>4, <4>1 DEF Coming
      <3> QED BY <1>1, <1>2, <2>3, <2>4, <3>1, <3>3, <3>4 DEF Serial, OneRequest
    <2> QED BY <1>1, <2>4, <2>5 DEF SerialShape, WholeShape
  <1> QED BY <1>5, <1>6, <1>7 DEF Module

\* A command is sent when the one before is over.
LEMMA SerialAsk ==
    ASSUME SerialInv, Nothing, NoError, ~mixed => NoData, Ctrl \in chOn,
           NEW r, tx' \in CmdSend(tx, r), req' = r, UNCHANGED modVars
    PROVE  OneRequest' /\ ~tx'.torn /\ NoError' /\ (~mixed' => NoData')
  <1>1. tx \in TxType
    BY DEF SerialInv, DataInv, TypeShape, LinkTypes
  <1>2. tx'.busy /\ tx'.req = r /\ ~tx'.torn
    BY <1>1, SendIdle DEF Nothing
  <1>3. Sending'
    BY <1>2 DEF Nothing, Sending, modVars, Framed
  <1> QED BY <1>2, <1>3 DEF OneRequest, modVars, NoError, NoData

\* Where the program goes on nothing is under way.
LEMMA SerialProgram ==
    ASSUME SerialInv, Program
    PROVE  SerialShape' /\ WholeShape'
  <1> USE DEF Goto
  <1>1. UNCHANGED <<timedOut, mixed>>
    BY DEF Program, DetectReset, DetectBoot, DetectFirst, DetectAgain, Attempt, DetectAsk,
       DetectFails, Detected, Join, Associate, ShowIp, OpenControl, OpenMidi, WaitControl,
       WaitMidi, GiveUp, Serve, Respond, Leave, Sleep, ResetFifos, Command, Ask, Refuse,
       AssocWait, SockWait, PollWait, RecvSync, SendSync, modVars, callVars
  <1>2. CASE Serve \/ Respond
    <2>1. step' \in ServeSteps
      <3>1. Serve => step' = "receive"
        BY DEF Serve
      <3>2. Respond => step' = "send"
        BY DEF Respond
      <3> QED BY <1>2, <3>1, <3>2 DEF ServeSteps
    <2>2. tx' = tx \/ ~tx'.torn
      BY <1>2 DEF Serve, Respond, RecvSync, SendSync
    <2> QED BY <1>1, <2>1, <2>2 DEF SerialShape, WholeShape, Orderly, SerialInv
  <1>3. CASE GiveUp
    <2>1. /\ UNCHANGED <<tx, asked, fromMod, req>> /\ step' = "failed" /\ call' = "idle"
          /\ step \notin ServeSteps
      BY <1>3 DEF GiveUp, Leave, At, linkVars, modVars, ServeSteps
    <2>2. ~Settled' /\ ~Answered'
      BY <2>1 DEF Settled, Answered, QuietSteps, SleepSteps, CommandSteps, SockSteps, Polls
    <2>3. ASSUME Orderly' PROVE Serial'
      <3>1. Serial
        BY <1>1, <2>1, <2>3 DEF Orderly, SerialInv, SerialShape
      <3> QED BY <1>1, <2>1, <2>2, <3>1, LineSame DEF Serial
    <2> QED BY <1>1, <2>1, <2>3 DEF SerialShape, WholeShape, SerialInv
  <1>4. CASE ~(Serve \/ Respond \/ GiveUp)
    <2>1. ASSUME Orderly' PROVE Orderly
      BY <1>1, <1>4, <2>1 DEF Orderly, Program, DetectReset, DetectBoot, DetectFirst, DetectAgain,
         Attempt, DetectAsk, DetectFails, Detected, Join, Associate, ShowIp, OpenControl, OpenMidi,
         WaitControl, WaitMidi, Leave, At, FrameTimer, SockSteps, ServeSteps
    <2>2. Settled
      BY <1>4 DEF Settled, Program, DetectReset, DetectBoot, DetectFirst, DetectAgain,
         DetectAsk, DetectFails, Detected, Join, Associate, ShowIp, OpenControl, OpenMidi,
         WaitControl, WaitMidi, At, FrameTimer, SockSteps, CommandSteps, SleepSteps, QuietSteps
    <2>3. ASSUME Orderly
          PROVE  Serial /\ Nothing /\ NoError /\ (~mixed => NoData)
      BY <2>2, <2>3 DEF SerialInv, SerialShape, Serial
    <2>4. CASE DetectReset \/ DetectBoot \/ DetectFails \/ Detected
      <3>1. UNCHANGED <<tx, asked, fromMod, req>> /\ call' \in {"sleep", "idle"}
        BY <2>4 DEF DetectReset, DetectBoot, DetectFails, Detected, Leave, Sleep, Wait, linkVars,
                    modVars
      <3>2. ~Answered'
        BY <3>1 DEF Answered, Polls
      <3>3. ASSUME Orderly' PROVE Serial'
        BY <1>1, <2>1, <2>3, <3>1, <3>2, <3>3, LineSame DEF Serial, OneRequest
      <3> QED BY <1>1, <3>1, <3>3 DEF SerialShape, WholeShape, SerialInv
    <2>5. CASE DetectFirst \/ DetectAgain
      <3>1. /\ UNCHANGED <<tx, asked, req, call, post, md>> /\ fromMod' \in Cut(fromMod)
            /\ call = "returned" /\ step \in EarlySteps
        BY <2>5 DEF DetectFirst, DetectAgain, Attempt, ResetFifos, callVars, At, EarlySteps,
           SleepSteps
      <3>2. ASSUME Orderly' PROVE Serial'
        <4>1. Nothing /\ NoData
          BY <2>1, <2>3, <3>1, <3>2, EarlyFrames DEF SerialInv
        <4>2. fromMod = <<>>
          <5>1. fromMod \in Seq(Frame) /\ Len(fromMod) \in Nat
            BY DEF SerialInv, DataInv, TypeShape, ModTypes
          <5>2. Len(fromMod) # 0 => 1 \in 1 .. Len(fromMod)
            BY <5>1
          <5>3. Len(fromMod) = 0
            BY <4>1, <5>2 DEF Nothing, NoData, Framed
          <5> QED BY <5>1, <5>3
        <4>3. fromMod' = <<>>
          <5>1. SubSeq(<<>>, 1, 0) = <<>> /\ Len(<<>>) = 0
            OBVIOUS
          <5>2. PICK k \in 1 .. Len(<<>>) + 1 :
                   fromMod' \in {SubSeq(<<>>, k, Len(<<>>)),
                    IF k > Len(<<>>) THEN <<>>
                    ELSE [SubSeq(<<>>, k, Len(<<>>)) EXCEPT ![1].err = TRUE]}
            BY <3>1, <4>2 DEF Cut
          <5>3. k = 1
            BY <5>1
          <5> QED BY <5>1, <5>2, <5>3
        <4>4. ~Answered' /\ call' # "command"
          BY <3>1 DEF Answered, Polls
        <4>5. 1 .. Len(fromMod') = {}
          BY <4>3
        <4>6. Nothing' /\ NoError' /\ NoData'
          BY <3>1, <4>1, <4>5 DEF Nothing, Framed, NoError, NoData
        <4> QED BY <4>4, <4>6 DEF Serial, OneRequest
      <3> QED BY <1>1, <3>1, <3>2 DEF SerialShape, WholeShape, SerialInv
    <2>6. ASSUME ~ready, DetectAsk
          PROVE  SerialShape' /\ WholeShape'
      <3>1. UNCHANGED <<tx, asked, fromMod, req>> /\ call' = "returned"
        BY <2>6 DEF DetectAsk, Command, Refuse, Return, linkVars, modVars
      <3>2. ~Answered'
        BY <3>1 DEF Answered, Polls
      <3>3. ASSUME Orderly' PROVE Serial'
        BY <1>1, <2>1, <2>3, <3>1, <3>2, <3>3, LineSame DEF Serial, OneRequest
      <3> QED BY <1>1, <3>1, <3>3 DEF SerialShape, WholeShape, SerialInv
    <2>7. ASSUME ready, NEW r, tx' \in CmdSend(tx, r), req' = r, UNCHANGED modVars,
                 post' = NoPost, call' \in {"command"} \cup Polls, step' \notin QuietSteps
          PROVE  SerialShape' /\ WholeShape'
      <3>1. Ctrl \in chOn
        BY <2>7 DEF SerialInv, DataInv, ChannelShape
      <3>2. ASSUME Orderly
            PROVE  OneRequest' /\ ~tx'.torn /\ NoError' /\ (~mixed' => NoData')
        BY <2>3, <2>7, <3>1, <3>2, SerialAsk
      <3>3. ~Settled' /\ ~Answered'
        BY <2>7 DEF Settled, Answered, NoPost, OK, Polls
      <3>4. Orderly' => Serial'
        BY <2>1, <2>7, <3>2, <3>3 DEF Serial
      <3>5. WholeShape'
        <4>1. step \notin ServeSteps
          BY <1>4 DEF Program, DetectReset, DetectBoot, DetectFirst, DetectAgain,
             DetectAsk, DetectFails, Detected, Join, Associate, ShowIp, OpenControl, OpenMidi,
             WaitControl, WaitMidi, At, FrameTimer, ServeSteps
        <4>2. ~timedOut /\ ~mixed => Orderly
          BY <4>1 DEF Orderly
        <4> QED BY <1>1, <3>2, <4>2 DEF WholeShape
      <3> QED BY <3>4, <3>5 DEF SerialShape
    <2>8. CASE \/ (DetectAsk /\ ready) \/ Join \/ ShowIp \/ OpenControl \/ OpenMidi
      <3>1. ready
        BY <2>8 DEF Join, ShowIp, OpenControl, OpenMidi, At, FrameTimer, SerialInv, DataInv,
           ReceiverInv, ReadyShape, SleepSteps
      <3>2. PICK r : Ask(r)
        BY <2>8, <3>1 DEF DetectAsk, Join, ShowIp, OpenControl, OpenMidi, Command
      <3>3. step' \notin QuietSteps
        BY <2>8 DEF DetectAsk, Join, ShowIp, OpenControl, OpenMidi, QuietSteps, SleepSteps
      <3> QED BY <2>7, <3>1, <3>2, <3>3 DEF Ask, Wait
    <2>9. CASE Associate \/ WaitControl \/ WaitMidi
      <3>1. ready
        BY <2>9 DEF Associate, WaitControl, WaitMidi, At, SerialInv, DataInv,
           ReceiverInv, ReadyShape, SleepSteps
      <3>2. PICK f, r, t : f \in Polls /\ PollWait(f, r, t)
        BY <2>9 DEF Associate, WaitControl, WaitMidi, AssocWait, SockWait, Polls
      <3>3. step' \notin QuietSteps
        BY <2>9 DEF Associate, WaitControl, WaitMidi, QuietSteps, SleepSteps
      <3> QED BY <2>7, <3>1, <3>2, <3>3 DEF PollWait, Wait
    <2> QED BY <1>4, <2>4, <2>5, <2>6, <2>8, <2>9 DEF Program
  <1> QED BY <1>2, <1>3, <1>4

LEMMA SerialInvInit ==
    Init => SerialInv
  <1> SUFFICES ASSUME Init PROVE BufferShape /\ SerialShape /\ WholeShape
    BY DataInvInit DEF SerialInv
  <1>1. Nothing /\ NoError /\ NoData /\ ~Answered /\ call # "command"
    BY DEF Init, MwInit, Nothing, Framed, NoError, NoData, Answered, Polls
  <1>2. SerialShape
    BY <1>1 DEF SerialShape, Serial, OneRequest
  <1> QED
    BY <1>2 DEF Init, MwInit, BufferShape, WholeShape, Idle

LEMMA SerialInvStep ==
    SerialInv /\ [Next]_vars => SerialInv'
  <1> SUFFICES ASSUME SerialInv, [Next]_vars PROVE SerialInv'
    OBVIOUS
  <1>1. DataInv'
    BY DataInvStep DEF SerialInv
  <1>2. CASE MwNext /\ UNCHANGED <<step, retries>>
    <2>1. BufferShape'
      BY <1>2, BufferStep DEF SerialInv, Next
    <2>2. CASE AssocReply
      <3>1. Complete("assoc") /\ req = [cmd |-> "sys_stat", ch |-> Ctrl]
        BY <2>2 DEF AssocReply, Complete, SerialInv, DataInv, AskShape, Plain
      <3>2. StatReady \/ StatAgain(req)
        BY <2>2, <3>1 DEF AssocReply
      <3> QED BY <1>1, <1>2, <2>1, <3>1, <3>2, SerialPoll DEF SerialInv, Polls
    <2>3. CASE SockReply
      <3>1. Complete("sock") /\ req = [cmd |-> "sock_stat", ch |-> monitor]
        BY <2>3 DEF SockReply, Complete, SerialInv, DataInv, AskShape
      <3>2. StatReady \/ StatAgain(req)
        BY <2>3, <3>1 DEF SockReply
      <3> QED BY <1>1, <1>2, <2>1, <3>1, <3>2, SerialPoll DEF SerialInv, Polls
    <2>4. CASE CmdRecv \/ Sent \/ CmdTout \/ PollDue("assoc") \/ PollDue("sock")
      BY <1>1, <1>2, <2>1, <2>4, SerialCmdRecv, SerialSent, SerialTimer DEF SerialInv
    <2>5. CASE Returns \/ Module
      BY <1>1, <1>2, <2>1, <2>5, SerialReturns, SerialModule DEF SerialInv
    <2> QED BY <1>2, <2>2, <2>3, <2>4, <2>5 DEF MwNext, Callbacks
  <1>3. CASE Program
    BY <1>1, <1>3, SerialProgram, BufferStep DEF SerialInv, Next
  <1>4. CASE UNCHANGED vars
    <2>1. UNCHANGED <<tx, asked, fromMod, req, rx, mixed, timedOut, step, call, post, md, err, cmd>>
      BY <1>4 DEF vars, mwVars, callVars, linkVars, modVars
    <2>2. Serial => Serial'
      BY <2>1, LineSame DEF Serial, Settled, Answered
    <2> QED BY <1>1, <2>1, <2>2 DEF SerialInv, BufferShape, SerialShape, WholeShape, Orderly
  <1> QED BY <1>2, <1>3, <1>4 DEF Next

\* As long as no command is given up and no datagram comes, *d.cmd is not
\* written to while a command is sent from it (mw_cmd_send() hands it to
\* lsd_send() without a copy).
THEOREM CommandsSentWhole == Spec => []CommandSentWhole
  <1>1. SerialInv => CommandSentWhole
    BY DEF SerialInv, WholeShape, CommandSentWhole
  <1> QED
    BY SerialInvInit, SerialInvStep, <1>1, PTL DEF Spec

\* As long as no command is given up, one that succeeds has the answer to its
\* own request in *d.cmd (mw_command()), and so has mw_ap_assoc_wait().
THEOREM RepliesMatch == Spec => ReplyMatches
  <1>1. SerialInv /\ [Next]_vars => [~timedOut /\ Succeeds => cmd \in Frame /\ cmd.re = req]_vars
    <2> SUFFICES ASSUME SerialInv, Next, ~timedOut, Succeeds
                 PROVE  cmd \in Frame /\ cmd.re = req
      OBVIOUS
    <2>1. call \in {"command", "assoc"} /\ call' = "returned" /\ ~err'
      BY DEF Succeeds
    <2>2. Orderly /\ step \notin QuietSteps
      BY <2>1 DEF SerialInv, DataInv, ReceiverInv, StepCall, Orderly, Steps, Outer, SleepSteps,
         CommandSteps, SockSteps, ServeSteps, QuietSteps
    <2>3. Serial
      BY <2>2 DEF SerialInv, SerialShape
    <2>4. CASE Callbacks \/ Module
      BY <2>1, <2>4 DEF Callbacks, CmdRecv, AssocReply, SockReply, StatReady, StatAgain, Sent,
         CmdTout, PollDue, Module, Answer, Ignore, Datagram, callVars
    <2>5. CASE Program
      BY <2>1, <2>5 DEF Program, DetectReset, DetectBoot, DetectFirst, DetectAgain,
         DetectAsk, DetectFails, Detected, Join, Associate, ShowIp, OpenControl, OpenMidi,
         WaitControl, WaitMidi, GiveUp, Serve, Respond, At, FrameTimer
    <2>6. CASE CommandDone
      <3>1. Succeeded
        <4>1. err' = ~Succeeded /\ Succeeded \in BOOLEAN
          BY <2>6 DEF CommandDone, Return, Succeeded
        <4> QED BY <2>1, <4>1
      <3> QED BY <2>1, <2>3, <2>6, <3>1 DEF Succeeded, Serial, Answered, CommandDone, Woken
    <2>7. CASE PollDone("assoc")
      <3>1. call = "assoc" /\ post # NoPost /\ ~(post < 0)
        BY <2>1, <2>7 DEF PollDone, Woken, Return
      <3>2. post \in {-2, -1, 0, 1} /\ post # 0
        BY <3>1 DEF Posts, OK, Timeout, Proto, NoPost, SerialInv, DataInv, TypeShape, FlagTypes
      <3>3. post = OK
        BY <3>1, <3>2 DEF OK
      <3> QED BY <2>3, <3>1, <3>3 DEF Serial, Answered, Polls
    <2> QED
      BY <2>1, <2>4, <2>5, <2>6, <2>7 DEF Next, MwNext, Returns, SleepDone, CommandData, PollDone,
         DataDone, Woken, Wait
  <1> QED
    BY SerialInvInit, SerialInvStep, <1>1, PTL DEF Spec, ReplyMatches
=============================================================================
