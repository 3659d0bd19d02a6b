---------------------------- MODULE MwApiProofs ----------------------------
(***************************************************************************)
(* The functions of megawifi.h in the hands of any program, for all        *)
(* channels, any number of calls and of packets, and whatever the module   *)
(* does: who owns the time limit, what a pointer into *d.cmd shows, and,   *)
(* until a function gives up or an HTTP request is cleaned up too early,   *)
(* where a command and its answer are, which channels are enabled, and     *)
(* that the functions implement module Rpc.                                *)
(***************************************************************************)
EXTENDS MwApi, TLAPS

-----------------------------------------------------------------------------
(* The time limit of a wait.                                               *)

TimerType == timer \in [on : BOOLEAN, cb : {"tout"}, reload : {FALSE}]

LimitInv == TimerType /\ LimitOwned

LEMMA TimerSet ==
    ASSUME TimerType
    PROVE  /\ TimerOff \in [on : BOOLEAN, cb : {"tout"}, reload : {FALSE}]
           /\ TimerOn \in [on : BOOLEAN, cb : {"tout"}, reload : {FALSE}]
           /\ ~TimerOff.on /\ timer.reload = FALSE /\ timer.cb = "tout"
  BY DEF TimerType, TimerOff, TimerOn

\* A wait that begins may start the timer or leave it as it is.
LEMMA LimitBegins ==
    ASSUME LimitInv, NEW f \in Waits, Wait(f), timer' \in {timer, TimerOn}
    PROVE  LimitInv'
<1>1. TimerType'
  BY TimerSet DEF LimitInv, TimerType
<1>2. Pending'
  BY DEF Wait, Pending
<1> QED BY <1>1, <1>2 DEF LimitInv, LimitOwned

\* Without a wait the timer is off, and stays off.
LEMMA LimitEnds ==
    ASSUME LimitInv, ~Pending, timer' = timer
    PROVE  LimitInv'
  BY DEF LimitInv, LimitOwned, TimerType

LEMMA LimitAsk ==
    ASSUME LimitInv, NEW r, Ask(r) PROVE LimitInv'
<1>1. Wait("command") /\ timer' = TimerOn /\ "command" \in Waits
  BY DEF Ask, Waits
<1> QED BY <1>1, LimitBegins

LEMMA LimitSend ==
    ASSUME LimitInv, NEW ch, NEW limited, SendSync(ch, limited)
    PROVE  LimitInv'
<1>1. Wait("send") /\ timer' \in {timer, TimerOn} /\ "send" \in Waits
  BY DEF SendSync, Waits
<1> QED BY <1>1, LimitBegins

LEMMA FreeNotPending ==
    ASSUME Free PROVE ~Pending
  BY DEF Free, Pending, Waits

LEMMA LimitProgram ==
    ASSUME LimitInv, Program PROVE LimitInv'
<1>1. ASSUME NEW f \in Functions, Call(f) PROVE LimitInv'
  <2>1. ASSUME NEW r, Ask(r) PROVE LimitInv'
    BY <2>1, LimitAsk
  <2>2. ASSUME Refuse \/ Scribble PROVE LimitInv'
    <3>1. ~Pending
      BY <1>1, FreeNotPending DEF Call, Start
    <3>2. timer' = timer
      BY <2>2 DEF Refuse, Scribble, timerVars
    <3> QED BY <3>1, <3>2, LimitEnds
  <2> QED BY <1>1, <2>1, <2>2 DEF Call
<1>2. CASE PowerOff \/ Leave
  <2>1. ~Pending
    BY <1>2, FreeNotPending DEF PowerOff, Leave, Start
  <2>2. timer' = timer
    BY <1>2 DEF PowerOff, Leave, timerVars
  <2> QED BY <2>1, <2>2, LimitEnds
<1>3. CASE SleepCall
  <2>1. Wait("sleep") /\ timer' = TimerOn /\ "sleep" \in Waits
    BY <1>3 DEF SleepCall, Sleep, Waits
  <2> QED BY <2>1, LimitBegins
<1>4. CASE RecvCall
  <2>1. Wait("recv") /\ timer' \in {timer, TimerOn} /\ "recv" \in Waits
    BY <1>4 DEF RecvCall, RecvSync, Waits
  <2> QED BY <2>1, LimitBegins
<1>5. CASE SendCall
  BY <1>5, LimitSend DEF SendCall
<1> QED BY <1>1, <1>2, <1>3, <1>4, <1>5 DEF Program

LEMMA WokenNotPending ==
    ASSUME NEW f, Woken(f) PROVE ~Pending
  BY DEF Woken, Pending

LEMMA LimitContinue ==
    ASSUME LimitInv, Continue PROVE LimitInv'
<1>1. CASE SleepDone \/ DataDone("recv") \/ CommandReturns \/ SendReturns
  <2>1. ~Pending
    BY <1>1, WokenNotPending
    DEF SleepDone, DataDone, CommandReturns, CommandDone, SendReturns
  <2>2. timer' = timer
    BY <1>1 DEF SleepDone, DataDone, CommandReturns, CommandDone, SendReturns, timerVars
  <2> QED BY <2>1, <2>2, LimitEnds
<1>2. CASE CommandData
  <2>1. Wait("command") /\ timer' = TimerOn /\ "command" \in Waits
    BY <1>2 DEF CommandData, Waits
  <2> QED BY <2>1, LimitBegins
<1>3. CASE SendPart
  BY <1>3, LimitSend DEF SendPart
<1>4. CASE CertSend
  BY <1>4, LimitSend DEF CertSend
<1>5. CASE CertReturns
  <2>1. ~Pending /\ timer' = timer
    BY <1>5 DEF CertReturns, InCertSet, Pending, Waits, timerVars
  <2> QED BY <2>1, LimitEnds
<1>6. CASE CleanupReturns
  <2>1. ~Pending /\ timer' = timer
    BY <1>6 DEF CleanupReturns, Pending, Waits, timerVars
  <2> QED BY <2>1, LimitEnds
<1> QED BY <1>1, <1>2, <1>3, <1>4, <1>5, <1>6 DEF Continue

LEMMA LimitCallbacks ==
    ASSUME LimitInv, Timers \/ Frames PROVE LimitInv'
<1>1. CASE timer' = TimerOff
  BY <1>1, TimerSet DEF LimitInv, LimitOwned, TimerType
<1>2. CASE timer' = timer /\ UNCHANGED <<call, post>>
  BY <1>2 DEF LimitInv, LimitOwned, TimerType, Pending
<1>3. timer' = TimerOff \/ (timer' = timer /\ UNCHANGED <<call, post>>)
  BY TimerSet DEF LimitInv, Timers, Frames, CmdTout, CmdRecv, Sent
<1> QED BY <1>1, <1>2, <1>3

LEMMA LimitModule ==
    ASSUME LimitInv, Module \/ BodyEnds \/ UNCHANGED vars PROVE LimitInv'
<1>1. UNCHANGED <<timer, call, post>>
  BY DEF Module, Answer, Ignore, Datagram, BodyEnds, vars, mwVars, callVars, timerVars
<1> QED BY <1>1 DEF LimitInv, LimitOwned, TimerType, Pending

\* No time limit outlives the function that set it (megawifi.c:134-239).
THEOREM LimitIsOwned == Spec => []LimitOwned
<1>1. Init => LimitInv
  BY DEF Init, MwInit, LimitInv, LimitOwned, TimerType
<1>2. LimitInv /\ [Next]_vars => LimitInv'
  BY LimitProgram, LimitContinue, LimitCallbacks, LimitModule DEF Next
<1>3. LimitInv => LimitOwned
  BY DEF LimitInv
<1> QED BY <1>1, <1>2, <1>3, PTL DEF Spec

-----------------------------------------------------------------------------
(* The pointers into *d.cmd.                                               *)

\* A frame can still be put into *d.cmd.
Receiving == rx.cb # "none" /\ rx.cmd

\* A function that waits for its answer finds it in *d.cmd only when the
\* receiver has put it there: what is there before is its own request, or the
\* datagram that md tells.
Unanswered == call = "command" /\ Receiving /\ SaysOk => md # Ctrl

RxType == rx \in [cb : {"none", "cmd"}, cmd : BOOLEAN]

ViewInv ==
    /\ RxType
    /\ PointerStays
    /\ view # NoView => ~Receiving /\ call # "command"
    /\ Unanswered

\* A request is no frame.
LEMMA RequestNoFrame ==
    ASSUME NEW c, NEW ch, cmd' = [cmd |-> c, ch |-> ch] PROVE ~SaysOk'
<1>1. DOMAIN [cmd |-> c, ch |-> ch] = {"cmd", "ch"}
  OBVIOUS
<1>2. \A f \in Frame : DOMAIN f = {"ch", "re", "ok", "err"}
  BY DEF Frame
<1> QED BY <1>1, <1>2 DEF SaysOk

\* The program sends a command, and lets go of what it was given before.
LEMMA ViewForgotten ==
    ASSUME ViewInv, view' = NoView, RxType', call' # "command"
    PROVE  ViewInv'
  BY DEF ViewInv, PointerStays, Unanswered

LEMMA ViewAsk ==
    ASSUME ViewInv, view' = NoView, NEW c, NEW ch, Ask([cmd |-> c, ch |-> ch])
    PROVE  ViewInv'
<1>1. cmd' = [cmd |-> c, ch |-> ch] /\ rx' = [cb |-> "cmd", cmd |-> TRUE]
  BY DEF Ask, Armed
<1>2. ~SaysOk'
  BY <1>1, RequestNoFrame
<1> QED BY <1>1, <1>2 DEF ViewInv, PointerStays, Unanswered, RxType

\* Nothing is put into *d.cmd, and nobody waits for an answer.
LEMMA ViewKept ==
    ASSUME ViewInv, UNCHANGED <<cmd, view>>, call' # "command",
           rx' \in {rx, [cb |-> "cmd", cmd |-> FALSE]}
    PROVE  ViewInv'
<1>1. CASE rx' = rx
  BY <1>1 DEF ViewInv, RxType, Receiving, PointerStays, Unanswered
<1>2. CASE rx' = [cb |-> "cmd", cmd |-> FALSE]
  <2>1. RxType' /\ ~Receiving'
    BY <1>2 DEF RxType, Receiving
  <2> QED BY <2>1 DEF ViewInv, PointerStays, Unanswered
<1> QED BY <1>1, <1>2

LEMMA ViewProgram ==
    ASSUME ViewInv, Program PROVE ViewInv'
<1>1. ASSUME NEW f \in Functions, Call(f) PROVE ViewInv'
  <2>1. view' = NoView
    BY <1>1 DEF Call
  <2>2. ASSUME NEW ch, Ask([cmd |-> f.asks, ch |-> ch]) PROVE ViewInv'
    BY <2>1, <2>2, ViewAsk
  <2>3. ASSUME Refuse \/ Scribble PROVE ViewInv'
    <3>1. call' = "returned" /\ rx' = rx
      BY <2>3 DEF Refuse, Scribble, Return, linkVars
    <3> QED BY <2>1, <3>1, ViewForgotten DEF ViewInv, RxType
  <2> QED BY <1>1, <2>2, <2>3 DEF Call
<1>2. CASE PowerOff
  <2>1. view' = NoView /\ call' = "returned" /\ rx' = rx
    BY <1>2 DEF PowerOff, Return
  <2> QED BY <2>1, ViewForgotten DEF ViewInv, RxType
<1>3. CASE SleepCall \/ Leave
  <2>1. UNCHANGED <<cmd, view, rx>> /\ call' \in {"sleep", "idle"}
    BY <1>3 DEF SleepCall, Sleep, Leave, Wait, linkVars, apiVars
  <2> QED BY <2>1, ViewKept
<1>4. CASE RecvCall
  <2>1. /\ UNCHANGED <<cmd, view>> /\ call' = "recv"
        /\ rx' = [cb |-> "cmd", cmd |-> FALSE]
    BY <1>4 DEF RecvCall, RecvSync, Wait
  <2> QED BY <2>1, ViewKept
<1>5. CASE SendCall
  <2>1. UNCHANGED <<cmd, view, rx>> /\ call' = "send"
    BY <1>5 DEF SendCall, SendSync, Wait
  <2> QED BY <2>1, ViewKept
<1> QED BY <1>1, <1>2, <1>3, <1>4, <1>5 DEF Program

\* The answer that a pointer is given into has been received.
LEMMA ViewReturns ==
    ASSUME ViewInv, CommandReturns PROVE ViewInv'
<1>1. /\ call = "command" /\ call' = "returned" /\ UNCHANGED <<cmd, rx>>
      /\ view' = IF Succeeded /\ fun = "pointer" THEN cmd ELSE NoView
  BY DEF CommandReturns, CommandDone, Woken, Return
<1>2. RxType' /\ (Receiving' <=> Receiving)
  BY <1>1 DEF ViewInv, RxType, Receiving
<1>3. CASE Succeeded /\ fun = "pointer"
  <2>1. ~Receiving
    BY <1>1, <1>3 DEF ViewInv, Unanswered, Succeeded
  <2> QED BY <1>1, <1>2, <1>3, <2>1 DEF ViewInv, PointerStays, Unanswered
<1>4. CASE ~(Succeeded /\ fun = "pointer")
  BY <1>1, <1>2, <1>4, ViewForgotten
<1> QED BY <1>3, <1>4

LEMMA ViewContinue ==
    ASSUME ViewInv, Continue PROVE ViewInv'
<1>1. CASE SleepDone /\ UNCHANGED apiVars
  <2>1. UNCHANGED <<cmd, view, rx>> /\ call' = "returned"
    BY <1>1 DEF SleepDone, Return, linkVars, apiVars
  <2> QED BY <2>1, ViewKept
<1>2. CASE DataDone("recv") /\ UNCHANGED apiVars
  <2>1. UNCHANGED <<cmd, view, rx>> /\ call' = "returned"
    BY <1>2 DEF DataDone, Return, linkVars, apiVars
  <2> QED BY <2>1, ViewKept
<1>3. CASE SendReturns
  <2>1. UNCHANGED <<cmd, view, rx>> /\ call' = "returned"
    BY <1>3 DEF SendReturns, DataDone, Return, linkVars
  <2> QED BY <2>1, ViewKept
<1>4. CASE SendPart \/ CertSend
  <2>1. UNCHANGED <<cmd, view, rx>> /\ call' = "send"
    BY <1>4 DEF SendPart, CertSend, SendSync, Wait, apiVars
  <2> QED BY <2>1, ViewKept
<1>5. CASE CertReturns
  <2>1. UNCHANGED <<cmd, view, rx>> /\ call' = "returned"
    BY <1>5 DEF CertReturns, Return
  <2> QED BY <2>1, ViewKept
<1>6. CASE CommandReturns
  BY <1>6, ViewReturns
<1>7. CASE CommandData /\ UNCHANGED apiVars
  <2>1. /\ md # Ctrl /\ UNCHANGED <<md, cmd, view>>
        /\ rx' = [cb |-> "cmd", cmd |-> TRUE]
        /\ call = "command"
    BY <1>7 DEF CommandData, Woken, Armed, apiVars
  <2> QED BY <2>1 DEF ViewInv, PointerStays, Unanswered, RxType
<1>8. CASE CleanupReturns
  <2>1. UNCHANGED <<cmd, view, rx>> /\ call' = "returned"
    BY <1>8 DEF CleanupReturns, callVars
  <2> QED BY <2>1, ViewKept
<1> QED BY <1>1, <1>2, <1>3, <1>4, <1>5, <1>6, <1>7, <1>8 DEF Continue

\* A frame goes into *d.cmd, or somewhere else; the receiver is idle then.
LEMMA ViewReceive ==
    ASSUME ViewInv, CmdRecv, UNCHANGED apiVars PROVE ViewInv'
<1>1. /\ rx.cb = "cmd" /\ rx' = [cb |-> "none", cmd |-> FALSE]
      /\ cmd' = IF rx.cmd THEN Arrived ELSE cmd
      /\ UNCHANGED <<view, call>>
  BY DEF CmdRecv, Complete, Idle, apiVars
<1>2. RxType' /\ ~Receiving'
  BY <1>1 DEF RxType, Receiving
<1>3. view # NoView => cmd' = cmd
  BY <1>1 DEF ViewInv, Receiving
<1> QED BY <1>1, <1>2, <1>3 DEF ViewInv, PointerStays, Unanswered

\* Neither *d.cmd nor the receiver is touched.
LEMMA ViewApart ==
    ASSUME ViewInv, UNCHANGED <<cmd, view, rx, call, md>> PROVE ViewInv'
  BY DEF ViewInv, PointerStays, Unanswered, RxType, Receiving, SaysOk

LEMMA ViewOthers ==
    ASSUME ViewInv,
           Timers \/ Frames \/ (Module /\ UNCHANGED apiVars) \/ BodyEnds \/ UNCHANGED vars
    PROVE  ViewInv'
<1>1. CASE CmdRecv /\ UNCHANGED apiVars
  BY <1>1, ViewReceive
<1>2. CASE ~(CmdRecv /\ UNCHANGED apiVars)
  <2>1. UNCHANGED <<cmd, view, rx, call, md>>
    BY <1>2 DEF Timers, Frames, CmdTout, Sent, Module, Answer, Ignore, Datagram,
                BodyEnds, linkVars, callVars, apiVars, mwVars, vars
  <2> QED BY <2>1, ViewApart
<1> QED BY <1>1, <1>2

\* A pointer that was returned into *d.cmd shows the same reply until the
\* program sends another command (megawifi.c:134-170).
THEOREM PointersStay == Spec => []PointerStays
<1>1. Init => ViewInv
  <2> SUFFICES ASSUME Init PROVE ViewInv
    OBVIOUS
  <2>1. view = NoView /\ rx = [cb |-> "none", cmd |-> FALSE] /\ call = "idle"
    BY DEF Init, MwInit, Idle
  <2> QED BY <2>1 DEF ViewInv, RxType, PointerStays, Unanswered
<1>2. ViewInv /\ [Next]_vars => ViewInv'
  BY ViewProgram, ViewContinue, ViewOthers DEF Next
<1>3. ViewInv => PointerStays
  BY DEF ViewInv
<1> QED BY <1>1, <1>2, <1>3, PTL DEF Spec

-----------------------------------------------------------------------------
(* Command and answer, until a function gives up or an HTTP request is     *)
(* cleaned up too early.                                                   *)

Lost == timedOut \/ cleaned

On == chOn \ {Ctrl}

\* The module may send on channels C, but that the HTTP request may be over.
Matches(C) == opened \subseteq C /\ C \subseteq opened \cup {Http}

\* Only datagrams of channels C are under way.
Datagrams(s, C) == \A k \in 1 .. Len(s) : \E ch \in C : s[k] = Data(ch)

\* Frame k is the answer to request r; what comes before it is of channels C,
\* what comes after it of channels D.
AnswerAt(s, k, r, ok, C, D) ==
    /\ k \in 1 .. Len(s)
    /\ s[k] = Reply(r, ok)
    /\ \A j \in 1 .. k - 1 : \E ch \in C : s[j] = Data(ch)
    /\ \A j \in k + 1 .. Len(s) : \E ch \in D : s[j] = Data(ch)

\* The channels that the module may send on once it has answered r: C before.
After(C, r, ok) ==
    CASE r.cmd = "open" /\ ok     -> C \cup {r.ch}
      [] r.cmd = "close" /\ ok    -> C \ {r.ch}
      [] r.cmd = "cert_set" /\ ok -> C \ {Http}
      [] OTHER                    -> C

\* A request that is cleaned up in time was over before.
Before == IF fun = "cleanup" THEN On \ {Http} ELSE On
Then(ok) == After(Before, req, ok)

\* While a certificate is sent and a request is cleaned up, there is none.
Rest == IF fun \in {"certificate", "cleanup"} THEN On \ {Http} ELSE On

\* Where the request that mw_command() waits for is.
Sending ==
    tx.busy /\ tx.req = req /\ ~tx.cb /\ asked = <<>> /\ ready
ToModule == ~tx.busy /\ asked = <<req>> /\ ready
Nowhere == ~tx.busy /\ asked = <<>>

Replied == post = OK /\ md = Ctrl

\* mw_command() waits, for the answer or because data came before it.
Called ==
    /\ ~Answers(cmd)
    /\ \/ /\ Sending \/ ToModule \/ Nowhere
          /\ Matches(Before)
          /\ Datagrams(fromMod, Before)
       \/ /\ Nowhere /\ ready
          /\ \E ok \in BOOLEAN, k \in 1 .. Len(fromMod) :
                /\ AnswerAt(fromMod, k, req, ok, Before, Then(ok))
                /\ Matches(Then(ok))

\* The answer is in *d.cmd.
Got ==
    /\ Nowhere
    /\ \E ok \in BOOLEAN :
          /\ cmd = Reply(req, ok)
          /\ Matches(Then(ok))
          /\ Datagrams(fromMod, Then(ok))

\* No command is under way.
AtRest ==
    /\ tx.busy => call = "send" /\ post = NoPost /\ tx.cb /\ tx.req = NoRequest
    /\ asked = <<>>
    /\ Matches(Rest)
    /\ Datagrams(fromMod, Rest)

\* The request that is under way is one of the functions'.
Asked ==
    /\ req \in Request
    /\ fun # "none"
    /\ req.cmd \in {"open", "close", "cert_set"} => req.ch \in Sockets
    /\ req.cmd = "cert_set" <=> fun = "certificate"
    /\ req.cmd = "cert_set" => req.ch = Http
    /\ fun = "cleanup" => req.cmd = "http_finish"

\* Which function waits for what.
Shape ==
    /\ rx.cb # "none" => /\ call \in {"command", "recv"} /\ post = NoPost
                         /\ rx.cmd <=> call = "command"
    /\ call \in {"command", "recv", "send"} => post \in {NoPost, OK}
    /\ call \in {"sleep", "recv"} => fun = "none"
    /\ call = "send" => fun \in {"none", "certificate"}
    /\ fun = "certificate" /\ call # "command" => ~err /\ call \in {"returned", "send"}
    /\ fun = "cleanup" => call \in {"command", "returned"}

Sync ==
    /\ ~stray
    /\ ready \in BOOLEAN /\ err \in BOOLEAN
    /\ fromMod \in Seq(Frame)
    /\ chOn \subseteq Channels
    /\ opened \subseteq Sockets
    /\ Ctrl \in chOn <=> ready
    /\ Shape
    /\ IF call = "command" THEN Asked /\ IF Replied THEN Got ELSE Called ELSE AtRest

TxType ==
    tx \in [busy : BOOLEAN, req : Request \cup {NoRequest}, torn : BOOLEAN,
            cb : BOOLEAN]

SyncInv ==
    /\ TxType
    /\ timedOut \in BOOLEAN /\ cleaned \in BOOLEAN
    /\ ~Lost => Sync

-----------------------------------------------------------------------------
(* What is on its way from the module.                                     *)

LEMMA ChannelFacts ==
    /\ Ctrl \notin Sockets /\ Ctrl \in Channels /\ Http \in Sockets
    /\ \A ch \in Sockets : ch \in Channels /\ ch # Ctrl
    /\ NoRequest \notin Request
    /\ \A ch \in Channels : Data(ch) \in Frame
    /\ \A r \in Request, ok \in BOOLEAN : Reply(r, ok) \in Frame
<1>1. /\ Ctrl \notin Sockets /\ Ctrl \in Channels /\ Http \in Sockets
      /\ \A ch \in Sockets : ch \in Channels /\ ch # Ctrl
  BY MegaWifiAssumption, MwApiAssumption DEF Channels
<1>2. NoRequest \notin Request
  BY DEF NoRequest, Request, Commands
<1>3. \A ch \in Channels : Data(ch) \in Frame
  BY DEF Data, Frame
<1>4. \A r \in Request, ok \in BOOLEAN : Reply(r, ok) \in Frame
  BY <1>1 DEF Reply, Frame
<1> QED BY <1>1, <1>2, <1>3, <1>4

\* A datagram answers no request; a reply answers its own.
LEMMA WhoAnswers ==
    /\ \A ch : Data(ch).re = NoRequest /\ Data(ch).ch = ch /\ ~Data(ch).err
    /\ \A r, ok : /\ Reply(r, ok).re = r /\ Reply(r, ok).ch = Ctrl
                  /\ Reply(r, ok).ok = ok /\ ~Reply(r, ok).err
  BY DEF Data, Reply

LEMMA DatagramsTail ==
    ASSUME NEW s \in Seq(Frame), s # <<>>, NEW C, Datagrams(s, C)
    PROVE  /\ Tail(s) \in Seq(Frame)
           /\ Datagrams(Tail(s), C)
           /\ \E ch \in C : Head(s) = Data(ch)
<1>1. /\ Len(s) \in Nat \ {0} /\ Len(Tail(s)) = Len(s) - 1
      /\ \A k \in 1 .. Len(Tail(s)) : Tail(s)[k] = s[k + 1]
      /\ Head(s) = s[1]
  OBVIOUS
<1> QED BY <1>1 DEF Datagrams

LEMMA DatagramsAppend ==
    ASSUME NEW s \in Seq(Frame), NEW C, NEW ch \in C, ch \in Channels,
           Datagrams(s, C)
    PROVE  /\ Append(s, Data(ch)) \in Seq(Frame)
           /\ Datagrams(Append(s, Data(ch)), C)
<1>1. Data(ch) \in Frame
  BY ChannelFacts
<1> HIDE DEF Data
<1> QED BY <1>1 DEF Datagrams

\* The module sends its answer behind the datagrams.
LEMMA AnswerSent ==
    ASSUME NEW s \in Seq(Frame), NEW r \in Request, NEW ok \in BOOLEAN,
           NEW C, NEW D, Datagrams(s, C),
           NEW t, t = Append(s, Reply(r, ok))
    PROVE  /\ t \in Seq(Frame)
           /\ Len(s) + 1 \in 1 .. Len(t)
           /\ AnswerAt(t, Len(s) + 1, r, ok, C, D)
<1> DEFINE a == Reply(r, ok)
<1>1. a \in Frame
  BY ChannelFacts
<1> HIDE DEF a
<1>2. /\ t \in Seq(Frame) /\ Len(t) = Len(s) + 1 /\ Len(s) \in Nat
      /\ t[Len(s) + 1] = a
      /\ \A j \in 1 .. Len(s) : t[j] = s[j]
  BY <1>1 DEF a
<1> QED BY <1>2 DEF AnswerAt, Datagrams, a

\* It sends a datagram behind the answer.
LEMMA AnswerFollowed ==
    ASSUME NEW s \in Seq(Frame), NEW k, NEW r, NEW ok, NEW C,
           NEW D, NEW ch \in D, ch \in Channels, AnswerAt(s, k, r, ok, C, D),
           NEW t, t = Append(s, Data(ch))
    PROVE  /\ t \in Seq(Frame)
           /\ k \in 1 .. Len(t)
           /\ AnswerAt(t, k, r, ok, C, D)
<1> DEFINE a == Data(ch)
<1>1. a \in Frame
  BY ChannelFacts
<1> HIDE DEF a
<1>2. /\ t \in Seq(Frame) /\ Len(t) = Len(s) + 1 /\ Len(s) \in Nat
      /\ t[Len(s) + 1] = a
      /\ \A j \in 1 .. Len(s) : t[j] = s[j]
  BY <1>1 DEF a
<1>3. ASSUME NEW j \in k + 1 .. Len(t)
      PROVE  \E c \in D : t[j] = Data(c)
  <2>1. j \in k + 1 .. Len(s) \/ j = Len(s) + 1
    BY <1>2 DEF AnswerAt
  <2> QED BY <1>2, <2>1 DEF AnswerAt, a
<1>4. /\ k \in 1 .. Len(t)
      /\ t[k] = Reply(r, ok)
      /\ \A j \in 1 .. k - 1 : \E c \in C : t[j] = Data(c)
  BY <1>2 DEF AnswerAt
<1> QED BY <1>2, <1>3, <1>4 DEF AnswerAt

\* The console receives what comes before the answer, then the answer.
LEMMA AnswerNearer ==
    ASSUME NEW s \in Seq(Frame), NEW k, NEW r, NEW ok, NEW C, NEW D,
           AnswerAt(s, k, r, ok, C, D), k # 1
    PROVE  /\ Tail(s) \in Seq(Frame)
           /\ k - 1 \in 1 .. Len(Tail(s))
           /\ AnswerAt(Tail(s), k - 1, r, ok, C, D)
           /\ \E ch \in C : Head(s) = Data(ch)
<1>1. /\ Len(s) \in Nat /\ k \in 1 .. Len(s)
  BY DEF AnswerAt
<1>2. /\ Tail(s) \in Seq(Frame) /\ Len(Tail(s)) = Len(s) - 1 /\ Head(s) = s[1]
      /\ \A j \in 1 .. Len(Tail(s)) : Tail(s)[j] = s[j + 1]
  BY <1>1
<1>3. k - 1 \in 1 .. Len(Tail(s)) /\ Tail(s)[k - 1] = s[k]
  BY <1>1, <1>2
<1>4. \A j \in 1 .. k - 1 - 1 : /\ Tail(s)[j] = s[j + 1]
                                /\ j + 1 \in 1 .. k - 1
  BY <1>1, <1>2
<1>5. \A j \in k - 1 + 1 .. Len(Tail(s)) : /\ Tail(s)[j] = s[j + 1]
                                           /\ j + 1 \in k + 1 .. Len(s)
  BY <1>1, <1>2
<1>6. 1 \in 1 .. k - 1
  BY <1>1
<1> QED BY <1>2, <1>3, <1>4, <1>5, <1>6 DEF AnswerAt

LEMMA AnswerTaken ==
    ASSUME NEW s \in Seq(Frame), NEW r, NEW ok, NEW C, NEW D,
           AnswerAt(s, 1, r, ok, C, D)
    PROVE  /\ Tail(s) \in Seq(Frame)
           /\ Datagrams(Tail(s), D)
           /\ Head(s) = Reply(r, ok)
<1>1. Len(s) \in Nat /\ 1 \in 1 .. Len(s)
  BY DEF AnswerAt
<1>2. /\ Tail(s) \in Seq(Frame) /\ Len(Tail(s)) = Len(s) - 1 /\ Head(s) = s[1]
      /\ \A j \in 1 .. Len(Tail(s)) : Tail(s)[j] = s[j + 1]
  BY <1>1
<1>3. \A j \in 1 .. Len(Tail(s)) : j + 1 \in 1 + 1 .. Len(s)
  BY <1>1, <1>2
<1> QED BY <1>2, <1>3 DEF AnswerAt, Datagrams

-----------------------------------------------------------------------------
(* What the functions ask for.                                             *)

ChannelCommands == {"open", "close", "cert_set"}

\* What a function asks, about which channels, and what it gives, fit together.
Proper(f) ==
    /\ f.asks \in Commands
    /\ f.on \subseteq Channels
    /\ f.asks \in ChannelCommands => f.on \subseteq Sockets
    /\ f.asks = "cert_set" <=> f.gives = "certificate"
    /\ f.asks = "cert_set" => f.on = {Http}
    /\ f.gives = "cleanup" => f.asks = "http_finish"
    /\ f.gives # "none"

LEMMA FunctionFacts ==
    ASSUME NEW f \in Functions
    PROVE  Proper(f)
<1>1. ASSUME NEW n, NEW a \in {"get", "set"}, NEW c, NEW g \in {"value", "pointer"}
      PROVE  /\ Proper(Fn(n, a, c, g))
             /\ Proper(Early(Fn(n, a, c, g)))
             /\ Proper(Unready(Fn(n, a, c, g)))
  BY <1>1, ChannelFacts DEF Proper, Fn, Early, Unready, Commands, ChannelCommands
<1>2. ASSUME NEW n, NEW a \in {"open", "close"}, NEW c
      PROVE  Proper(OnSocket(n, a, c))
  BY <1>2, ChannelFacts DEF Proper, OnSocket, Fn, Commands, ChannelCommands
<1>3. ASSUME NEW n, NEW a \in {"open", "http_finish"}, NEW c
      PROVE  /\ Proper(OnHttp(n, a, c, "value"))
             /\ Proper(Early(OnHttp(n, a, c, "value")))
  BY <1>3, ChannelFacts DEF Proper, OnHttp, Fn, Early, Commands, ChannelCommands
<1>4. ASSUME NEW n, NEW c
      PROVE  /\ Proper(OnHttp(n, "cert_set", c, "certificate"))
             /\ Proper(OnHttp(n, "http_finish", c, "cleanup"))
  BY ChannelFacts DEF Proper, OnHttp, Fn, Commands, ChannelCommands
<1>5. ASSUME f \in VersionFunctions \/ f \in ApCfgFunctions \/ f \in IpFunctions
      PROVE  Proper(f)
  BY <1>1, <1>5 DEF VersionFunctions, ApCfgFunctions, IpFunctions
<1>6. ASSUME f \in AssocFunctions \/ f \in DefaultApFunctions \/ f \in SocketFunctions
      PROVE  Proper(f)
  BY <1>1, <1>2, <1>6 DEF AssocFunctions, DefaultApFunctions, SocketFunctions
<1>7. ASSUME f \in StatusFunctions \/ f \in TimeFunctions \/ f \in FlashFunctions
      PROVE  Proper(f)
  BY <1>1, <1>7 DEF StatusFunctions, TimeFunctions, FlashFunctions
<1>8. ASSUME f \in IdentityFunctions \/ f \in HttpSetFunctions \/ f \in HttpFunctions
      PROVE  Proper(f)
  BY <1>1, <1>3, <1>4, <1>8 DEF IdentityFunctions, HttpSetFunctions, HttpFunctions
<1>9. ASSUME \/ f \in ServerFunctions \/ f \in SaveFunctions
             \/ f \in GameFunctions \/ f \in UpgradeFunctions
      PROVE  Proper(f)
  BY <1>1, <1>3, <1>9
  DEF ServerFunctions, SaveFunctions, GameFunctions, UpgradeFunctions
<1> QED BY <1>5, <1>6, <1>7, <1>8, <1>9 DEF Functions

-----------------------------------------------------------------------------
(* The transmitter.                                                        *)

LEMMA TxCommand ==
    ASSUME TxType, NEW r \in Request, tx' \in CmdSend(tx, r)
    PROVE  TxType'
<1>1. CASE tx' \in {tx, [tx EXCEPT !.torn = TRUE]}
  BY <1>1 DEF TxType
<1>2. CASE tx' = [busy |-> TRUE, req |-> r, torn |-> FALSE, cb |-> FALSE]
  BY <1>2 DEF TxType
<1> QED BY <1>1, <1>2 DEF CmdSend

LEMMA TxData ==
    ASSUME TxType, NEW ch, NEW limited, SendSync(ch, limited)
    PROVE  TxType'
  BY DEF TxType, SendSync

LEMMA TxStep == TxType /\ [Next]_vars => TxType'
<1> SUFFICES ASSUME TxType, [Next]_vars PROVE TxType'
  OBVIOUS
<1>1. ASSUME tx' \in {tx, [tx EXCEPT !.torn = TRUE], [tx EXCEPT !.busy = FALSE]}
      PROVE  TxType'
  BY <1>1 DEF TxType
<1>2. ASSUME NEW f \in Functions, Call(f) PROVE TxType'
  <2>1. ASSUME NEW ch \in f.on, Ask([cmd |-> f.asks, ch |-> ch]) PROVE TxType'
    <3>1. [cmd |-> f.asks, ch |-> ch] \in Request
      BY FunctionFacts DEF Proper, Request
    <3> QED BY <2>1, <3>1, TxCommand DEF Ask
  <2>2. ASSUME Refuse \/ Scribble PROVE TxType'
    BY <1>1, <2>2 DEF Refuse, Scribble, linkVars
  <2> QED BY <1>2, <2>1, <2>2 DEF Call
<1>3. CASE PowerOff
  <2>1. [cmd |-> "power_off", ch |-> Ctrl] \in Request
    BY ChannelFacts DEF Request, Commands
  <2>2. tx' \in CmdSend(tx, [cmd |-> "power_off", ch |-> Ctrl])
    BY <1>3 DEF PowerOff
  <2> QED BY <2>1, <2>2, TxCommand
<1>4. CASE SendCall \/ SendPart \/ CertSend
  BY <1>4, TxData DEF SendCall, SendPart, CertSend
<1>5. CASE SleepCall \/ RecvCall \/ Leave
  BY <1>1, <1>5 DEF SleepCall, RecvCall, Leave, Sleep, RecvSync, linkVars
<1>6. CASE Continue /\ ~(SendPart \/ CertSend)
  BY <1>1, <1>6 DEF Continue, SleepDone, CommandData, DataDone, CommandReturns,
     CommandDone, SendReturns, CertReturns, CleanupReturns, linkVars
<1>7. CASE Timers \/ Frames
  BY <1>1, <1>7 DEF Timers, Frames, CmdTout, CmdRecv, Sent, Overwritten, linkVars
<1>8. CASE Module \/ BodyEnds \/ UNCHANGED vars
  BY <1>1, <1>8 DEF Module, Answer, Ignore, Datagram, BodyEnds, linkVars, vars, mwVars
<1> QED BY <1>2, <1>3, <1>4, <1>5, <1>6, <1>7, <1>8 DEF Next, Program

-----------------------------------------------------------------------------
(* The invariant: the program.                                             *)

\* While the program has the processor nothing is under way for it.
LEMMA SyncFree ==
    ASSUME Sync, Free
    PROVE  /\ call \in {"idle", "returned"} /\ fun \notin {"certificate", "cleanup"}
           /\ ~tx.busy /\ asked = <<>> /\ rx.cb = "none"
           /\ Matches(On) /\ Datagrams(fromMod, On)
  BY DEF Sync, Free, AtRest, Shape, Rest

\* A step outside of mw_command() that leaves the channels and the frames alone.
LEMMA SyncRest ==
    ASSUME Sync, call # "command", call' # "command",
           UNCHANGED <<ready, stray, chOn, asked, fromMod, opened>>,
           err' \in BOOLEAN, Shape',
           tx'.busy => call' = "send" /\ post' = NoPost /\ tx'.cb /\ tx'.req = NoRequest,
           fun' \in {"certificate", "cleanup"} <=> fun \in {"certificate", "cleanup"}
    PROVE  Sync'
<1>1. Rest' = Rest
  BY DEF Rest, On
<1>2. AtRest'
  BY <1>1 DEF Sync, AtRest, Matches, Datagrams
<1> QED BY <1>2 DEF Sync

\* A request that is cleaned up is over: nothing of it is under way.
LEMMA SyncOver ==
    ASSUME Sync, ~Unfinished, NEW C, Matches(C), Datagrams(fromMod, C)
    PROVE  Matches(C \ {Http}) /\ Datagrams(fromMod, C \ {Http})
<1>1. Matches(C \ {Http})
  BY DEF Unfinished, Matches
<1>2. ASSUME NEW k \in 1 .. Len(fromMod)
      PROVE  \E ch \in C \ {Http} : fromMod[k] = Data(ch)
  BY <1>2, WhoAnswers DEF Unfinished, Datagrams
<1> QED BY <1>1, <1>2 DEF Datagrams

LEMMA SyncAsk ==
    ASSUME Sync, Free, NEW f \in Functions, f.ready => ready, NEW ch \in f.on,
           Ask([cmd |-> f.asks, ch |-> ch]), fun' = f.gives,
           f.gives = "cleanup" => ~Unfinished
    PROVE  Sync'
<1> DEFINE r == [cmd |-> f.asks, ch |-> ch]
<1>1. Proper(f)
  BY FunctionFacts
<1>2. r \in Request /\ r.cmd = f.asks /\ r.ch = ch
  BY <1>1 DEF Request, Proper
<1>3. /\ call' = "command" /\ post' = NoPost /\ req' = r /\ cmd' = r
      /\ tx' \in CmdSend(tx, r) /\ rx' = [cb |-> "cmd", cmd |-> TRUE]
      /\ UNCHANGED <<ready, stray, err, chOn, asked, fromMod, opened>>
  BY DEF Ask, Wait, Armed, modVars
<1>4. cmd' \notin Frame
  <2>1. DOMAIN r = {"cmd", "ch"}
    OBVIOUS
  <2>2. \A g \in Frame : DOMAIN g = {"ch", "re", "ok", "err"}
    BY DEF Frame
  <2> QED BY <1>3, <2>1, <2>2
<1> HIDE DEF r
<1>5. Asked'
  BY <1>1, <1>2, <1>3 DEF Asked, Proper, ChannelCommands
<1>6. Shape'
  BY <1>3 DEF Shape
<1>7. Called'
  <2>1. (Sending \/ ToModule \/ Nowhere)'
    <3>1. CASE ready
      <4>1. tx' = [busy |-> TRUE, req |-> r, torn |-> FALSE, cb |-> FALSE]
        BY <1>3, <3>1, SyncFree DEF CmdSend, Sync
      <4> QED BY <1>3, <3>1, <4>1, SyncFree DEF Sending
    <3>2. CASE ~ready
      <4>1. tx' = tx
        BY <1>3, <3>2 DEF CmdSend, Sync
      <4> QED BY <1>3, <4>1, SyncFree DEF Nowhere
    <3> QED BY <3>1, <3>2
  <2>2. ~Answers(cmd)'
    BY <1>4 DEF Answers
  <2>3. Matches(Before') /\ Datagrams(fromMod, Before')
    <3>1. On' = On /\ Matches(On) /\ Datagrams(fromMod, On)
      BY <1>3, SyncFree DEF On
    <3>2. Before' = IF f.gives = "cleanup" THEN On \ {Http} ELSE On
      BY <3>1 DEF Before
    <3>3. CASE f.gives = "cleanup"
      BY <3>1, <3>2, <3>3, SyncOver
    <3> QED BY <3>1, <3>2, <3>3
  <2>4. Matches(Before)' /\ Datagrams(fromMod, Before)'
    BY <1>3, <2>3 DEF Matches, Datagrams
  <2> QED BY <2>1, <2>2, <2>4 DEF Called
<1>8. ~Replied'
  BY <1>3 DEF Replied, NoPost, OK
<1> QED BY <1>3, <1>5, <1>6, <1>7, <1>8 DEF Sync

\* The other calls of the program.
LEMMA SyncOtherCalls ==
    ASSUME Sync, Free, fun' = "none",
           UNCHANGED <<ready, stray, chOn, asked, fromMod, opened>>, err' \in BOOLEAN,
           \/ /\ call' \in {"returned", "sleep"} /\ rx' = rx /\ tx' = tx
           \/ /\ call' = "recv" /\ post' = NoPost /\ tx' = tx
              /\ rx' = [cb |-> "cmd", cmd |-> FALSE]
           \/ /\ call' = "send" /\ post' = NoPost /\ rx' = rx
              /\ tx' \in {tx, [busy |-> TRUE, req |-> NoRequest, torn |-> FALSE, cb |-> TRUE]}
    PROVE  Sync'
<1>1. Shape'
  BY SyncFree DEF Shape
<1>2. tx'.busy => call' = "send" /\ post' = NoPost /\ tx'.cb /\ tx'.req = NoRequest
  BY SyncFree
<1>3. call # "command" /\ call' # "command" /\ fun \notin {"certificate", "cleanup"}
  BY SyncFree
<1> QED BY <1>1, <1>2, <1>3, SyncRest

LEMMA SyncProgram ==
    ASSUME Sync, Program, ~Lost'
    PROVE  Sync'
<1>1. ASSUME NEW f \in Functions, Call(f) PROVE Sync'
  <2>1. Free
    BY <1>1 DEF Call, Start
  <2>2. ASSUME NEW ch \in f.on, f.ready => ready, Ask([cmd |-> f.asks, ch |-> ch]),
               fun' = f.gives
        PROVE  Sync'
    <3>1. f.gives = "cleanup" => ~Unfinished
      BY <1>1 DEF Call, Lost
    <3> QED BY <2>1, <2>2, <3>1, SyncAsk
  <2>3. ASSUME Refuse \/ Scribble, fun' = "none" PROVE Sync'
    <3>1. tx' = tx
      BY <2>1, <2>3, SyncFree DEF Refuse, Scribble, linkVars
    <3>2. /\ call' = "returned" /\ err' = TRUE /\ rx' = rx
          /\ UNCHANGED <<ready, stray, chOn, asked, fromMod, opened>>
      BY <2>3 DEF Refuse, Scribble, Return, linkVars, modVars
    <3> QED BY <2>1, <2>3, <3>1, <3>2, SyncOtherCalls
  <2> QED BY <1>1, <2>2, <2>3 DEF Call
<1>2. CASE PowerOff
  BY <1>2 DEF PowerOff, Lost
<1>3. CASE SleepCall
  <2>1. /\ Free /\ fun' = "none" /\ call' = "sleep"
        /\ UNCHANGED <<ready, stray, chOn, asked, fromMod, opened, err, rx, tx>>
    BY <1>3 DEF SleepCall, Start, Sleep, Wait, linkVars, modVars
  <2>2. err' \in BOOLEAN
    BY <2>1 DEF Sync
  <2> QED BY <2>1, <2>2, SyncOtherCalls
<1>4. CASE RecvCall
  <2>1. /\ Free /\ fun' = "none" /\ call' = "recv" /\ post' = NoPost
        /\ rx' = [cb |-> "cmd", cmd |-> FALSE]
        /\ UNCHANGED <<ready, stray, chOn, asked, fromMod, opened, err, tx>>
    BY <1>4 DEF RecvCall, Start, RecvSync, Wait, modVars
  <2>2. err' \in BOOLEAN
    BY <2>1 DEF Sync
  <2> QED BY <2>1, <2>2, SyncOtherCalls
<1>5. CASE SendCall
  <2>1. /\ Free /\ fun' = "none" /\ call' = "send" /\ post' = NoPost /\ rx' = rx
        /\ tx' \in {tx, [busy |-> TRUE, req |-> NoRequest, torn |-> FALSE, cb |-> TRUE]}
        /\ UNCHANGED <<ready, stray, chOn, asked, fromMod, opened, err>>
    BY <1>5 DEF SendCall, Start, SendSync, Wait, modVars
  <2>2. err' \in BOOLEAN
    BY <2>1 DEF Sync
  <2> QED BY <2>1, <2>2, SyncOtherCalls
<1>6. CASE Leave
  <2>1. /\ Free /\ call' = "idle"
        /\ UNCHANGED <<ready, stray, chOn, asked, fromMod, opened, err, rx, tx, fun, post>>
    BY <1>6 DEF Leave, linkVars, modVars, apiVars
  <2>2. Shape' /\ err' \in BOOLEAN
    BY <2>1, SyncFree DEF Shape, Sync
  <2>3. ~tx'.busy
    BY <2>1, SyncFree
  <2>4. call # "command" /\ call' # "command"
    BY <2>1, SyncFree
  <2> QED BY <2>1, <2>2, <2>3, <2>4, SyncRest
<1> QED BY <1>1, <1>2, <1>3, <1>4, <1>5, <1>6 DEF Program

-----------------------------------------------------------------------------
(* The invariant: a function goes on.                                      *)

\* A function that sends a command has its answer when it goes on.
LEMMA SyncAnswered ==
    ASSUME Sync, CommandDone
    PROVE  /\ call = "command" /\ post = OK /\ md = Ctrl
           /\ Asked /\ Got
           /\ \E ok \in BOOLEAN :
                 /\ cmd = Reply(req, ok) /\ Matches(Then(ok))
                 /\ Datagrams(fromMod, Then(ok))
                 /\ Succeeded <=> ok
<1>1. call = "command" /\ post # NoPost /\ (post = OK => md = Ctrl)
  BY DEF CommandDone, Woken
<1>2. post = OK /\ md = Ctrl
  BY <1>1 DEF Sync, Shape
<1>3. Asked /\ Got
  BY <1>1, <1>2 DEF Sync, Replied
<1>4. PICK ok \in BOOLEAN :
         cmd = Reply(req, ok) /\ Matches(Then(ok)) /\ Datagrams(fromMod, Then(ok))
  BY <1>3 DEF Got
<1>5. Succeeded <=> ok
  BY <1>2, <1>3, <1>4, ChannelFacts, WhoAnswers DEF Succeeded, SaysOk, Asked
<1> QED BY <1>1, <1>2, <1>3, <1>4, <1>5

\* What the function then does to its channel is what the module did.
LEMMA SyncReturns ==
    ASSUME Sync, CommandReturns
    PROVE  Sync'
<1>1. CommandDone
  BY DEF CommandReturns
<1>2. PICK ok \in BOOLEAN :
         /\ cmd = Reply(req, ok) /\ (Succeeded <=> ok)
         /\ Matches(Then(ok)) /\ Datagrams(fromMod, Then(ok))
  BY <1>1, SyncAnswered
<1>3. /\ call = "command" /\ post = OK /\ Asked /\ Got
      /\ call' = "returned" /\ err' = ~Succeeded /\ chOn' = ChannelsAfter(ok)
      /\ UNCHANGED <<ready, stray, tx, rx, asked, fromMod, opened>>
      /\ fun' = IF fun = "certificate" /\ ~ok THEN "value" ELSE fun
  <2>1. ChannelsAfter(Succeeded) = ChannelsAfter(ok)
    BY <1>2 DEF ChannelsAfter
  <2>2. /\ call' = "returned" /\ err' = ~Succeeded /\ chOn' = ChannelsAfter(Succeeded)
        /\ UNCHANGED <<ready, stray, tx, rx, asked, fromMod, opened>>
    BY <1>1 DEF CommandDone, Return, modVars
  <2>3. fun' = IF fun = "certificate" /\ ~ok THEN "value" ELSE fun
    BY <1>2 DEF CommandReturns
  <2> QED BY <1>1, SyncAnswered, <2>1, <2>2, <2>3
<1>4. /\ Ctrl \in chOn' <=> Ctrl \in chOn
      /\ chOn' \subseteq Channels
      /\ Rest' = Then(ok)
  <2> USE ChannelFacts DEF ChannelsAfter, Enables, Disables, Then, After, Before, Rest, On
  <2>1. CASE req.cmd = "open" /\ ok
    <3>1. chOn' = chOn \cup {req.ch} /\ req.ch \in Sockets
      BY <1>3, <2>1 DEF Asked
    <3>2. fun \notin {"certificate", "cleanup"} /\ fun' = fun
      BY <1>3, <2>1 DEF Asked
    <3> QED BY <2>1, <3>1, <3>2 DEF Sync
  <2>2. CASE req.cmd = "close" /\ ok
    <3>1. chOn' = chOn \ {req.ch} /\ req.ch \in Sockets
      BY <1>3, <2>2 DEF Asked
    <3>2. fun \notin {"certificate", "cleanup"} /\ fun' = fun
      BY <1>3, <2>2 DEF Asked
    <3> QED BY <2>2, <3>1, <3>2 DEF Sync
  <2>3. CASE req.cmd = "cert_set" /\ ok
    <3>1. chOn' = chOn \cup {Http} /\ fun = "certificate" /\ fun' = fun
      BY <1>3, <2>3 DEF Asked
    <3> QED BY <2>3, <3>1 DEF Sync
  <2>4. CASE ~(req.cmd \in {"open", "close", "cert_set"} /\ ok)
    <3>1. chOn' = chOn /\ Then(ok) = Before
      BY <1>3, <2>4
    <3>2. Rest' = Before
      <4>1. CASE fun = "certificate"
        BY <1>3, <2>4, <3>1, <4>1 DEF Asked
      <4>2. CASE fun # "certificate"
        BY <1>3, <3>1, <4>2
      <4> QED BY <4>1, <4>2
    <3> QED BY <3>1, <3>2 DEF Sync
  <2> QED BY <1>2, <2>1, <2>2, <2>3, <2>4
<1>5. AtRest'
  <2>1. Matches(Rest)' /\ Datagrams(fromMod, Rest)'
    BY <1>2, <1>3, <1>4 DEF Matches, Datagrams
  <2> QED BY <1>3, <2>1 DEF AtRest, Got, Nowhere
<1>6. Shape'
  <2>1. rx'.cb = "none"
    BY <1>3 DEF Sync, Shape, NoPost, OK
  <2> QED BY <1>2, <1>3, <2>1 DEF Shape
<1> QED BY <1>3, <1>4, <1>5, <1>6 DEF Sync

LEMMA SyncData ==
    ASSUME Sync, CommandData, UNCHANGED apiVars
    PROVE  Sync'
<1>1. /\ call = "command" /\ md # Ctrl /\ call' = "command" /\ post' = NoPost
      /\ rx' = [cb |-> "cmd", cmd |-> TRUE]
      /\ UNCHANGED <<ready, req, err, md, stray, tx, chOn, cmd, asked, fromMod, opened, fun>>
  BY DEF CommandData, Woken, Wait, Armed, modVars, apiVars
<1>2. Asked /\ Called
  BY <1>1 DEF Sync, Replied
<1>3. Asked' /\ Called'
  BY <1>1, <1>2
  DEF Asked, Called, Answers, Sending, ToModule, Nowhere, On, Before, Then, Matches
<1>4. Shape' /\ ~Replied'
  BY <1>1 DEF Shape, Sync, Replied, NoPost, OK
<1> QED BY <1>1, <1>3, <1>4 DEF Sync

LEMMA SyncContinue ==
    ASSUME Sync, Continue
    PROVE  Sync'
<1>1. CASE (SleepDone \/ DataDone("recv")) /\ UNCHANGED apiVars
  <2>1. /\ call \in {"sleep", "recv"} /\ call' = "returned" /\ post # NoPost
        /\ err' \in BOOLEAN
        /\ UNCHANGED <<ready, stray, chOn, asked, fromMod, opened, rx, tx, fun>>
    BY <1>1 DEF SleepDone, DataDone, Woken, Return, linkVars, modVars, apiVars
  <2>2. fun = "none" /\ ~tx.busy /\ rx.cb = "none"
    BY <2>1 DEF Sync, Shape, AtRest
  <2>3. Shape'
    BY <2>1, <2>2 DEF Shape
  <2> QED BY <2>1, <2>2, <2>3, SyncRest
<1>2. CASE CommandData /\ UNCHANGED apiVars
  BY <1>2, SyncData
<1>3. CASE CommandReturns
  BY <1>3, SyncReturns
<1>4. CASE SendReturns
  <2>1. /\ call = "send" /\ call' = "returned" /\ post # NoPost /\ err' = (post # OK)
        /\ UNCHANGED <<ready, stray, chOn, asked, fromMod, opened, rx, tx, fun>>
    BY <1>4 DEF SendReturns, DataDone, Woken, Return, linkVars, modVars
  <2>2. ~tx.busy /\ rx.cb = "none" /\ post = OK /\ fun \in {"none", "certificate"}
    BY <2>1 DEF Sync, Shape, AtRest
  <2>3. Shape'
    BY <2>1, <2>2 DEF Shape
  <2> QED BY <2>1, <2>2, <2>3, SyncRest
<1>5. CASE SendPart \/ CertSend
  <2>1. /\ call' = "send" /\ post' = NoPost
        /\ tx' \in {tx, [busy |-> TRUE, req |-> NoRequest, torn |-> FALSE, cb |-> TRUE]}
        /\ UNCHANGED <<ready, stray, err, chOn, asked, fromMod, opened, rx, fun>>
        /\ \/ call = "send" /\ post = OK
           \/ call = "returned" /\ fun = "certificate"
    BY <1>5 DEF SendPart, CertSend, Woken, InCertSet, SendSync, Wait, linkVars,
                modVars, apiVars
  <2>2. /\ rx.cb = "none" /\ fun \in {"none", "certificate"} /\ err \in BOOLEAN
        /\ ~tx.busy
    BY <2>1 DEF Sync, Shape, AtRest, NoPost, OK
  <2>3. Shape'
    BY <2>1, <2>2 DEF Shape, Sync
  <2> QED BY <2>1, <2>2, <2>3, SyncRest
<1>6. CASE CertReturns
  <2>1. /\ call = "returned" /\ fun = "certificate" /\ call' = "returned"
        /\ fun' = "value" /\ err' = FALSE /\ chOn' = chOn \ {Http}
        /\ UNCHANGED <<ready, stray, asked, fromMod, opened, rx, tx>>
    BY <1>6 DEF CertReturns, InCertSet, Return, modVars
  <2>2. /\ AtRest /\ rx.cb = "none" /\ ~tx.busy /\ asked = <<>>
        /\ Datagrams(fromMod, Rest) /\ Matches(Rest)
    BY <2>1 DEF Sync, Shape, AtRest
  <2>3. Rest' = Rest
    BY <2>1 DEF Rest, On
  <2>4. AtRest'
    BY <2>1, <2>2, <2>3 DEF AtRest, Matches, Datagrams
  <2>5. Shape'
    BY <2>1, <2>2 DEF Shape
  <2> QED BY <2>1, <2>4, <2>5, ChannelFacts DEF Sync
<1>7. CASE CleanupReturns
  <2>1. /\ call = "returned" /\ fun = "cleanup" /\ call' = "returned"
        /\ fun' = "value" /\ chOn' = chOn \ {Http}
        /\ UNCHANGED <<ready, stray, err, post, asked, fromMod, opened, rx, tx>>
    BY <1>7 DEF CleanupReturns, callVars, modVars
  <2>2. /\ AtRest /\ rx.cb = "none" /\ ~tx.busy /\ asked = <<>>
        /\ Datagrams(fromMod, Rest) /\ Matches(Rest)
    BY <2>1 DEF Sync, Shape, AtRest
  <2>3. Rest' = Rest
    BY <2>1 DEF Rest, On
  <2>4. AtRest'
    BY <2>1, <2>2, <2>3 DEF AtRest, Matches, Datagrams
  <2>5. Shape'
    BY <2>1, <2>2 DEF Shape
  <2> QED BY <2>1, <2>4, <2>5, ChannelFacts DEF Sync
<1> QED BY <1>1, <1>2, <1>3, <1>4, <1>5, <1>6, <1>7 DEF Continue

-----------------------------------------------------------------------------
(* The invariant: callbacks, and the module.                               *)

\* A datagram is dropped, and the wait goes on; the answer ends it.
LEMMA SyncReceive ==
    ASSUME TxType, Sync, CmdRecv, UNCHANGED apiVars
    PROVE  Sync'
<1>1. /\ rx.cb = "cmd" /\ fromMod # <<>> /\ LoopRuns
      /\ fromMod' = Tail(fromMod) /\ rx' = [cb |-> "none", cmd |-> FALSE]
      /\ cmd' = IF rx.cmd THEN Arrived ELSE cmd
      /\ tx' \in Overwritten(tx)
      /\ IF Failed THEN Post(Proto) /\ UNCHANGED md ELSE Post(OK) /\ md' = Arrived.ch
      /\ UNCHANGED <<ready, call, req, err, chOn, asked, opened, fun>>
  BY DEF CmdRecv, Complete, Idle, apiVars
<1>2. call \in {"command", "recv"} /\ post = NoPost /\ (rx.cmd <=> call = "command")
  BY <1>1 DEF Sync, Shape
<1>3. Pending
  BY <1>2 DEF Pending, Waits
<1>4. ~tx.busy => tx' = tx
  BY <1>1 DEF Overwritten
<1>5. tx.busy => tx'.busy /\ tx'.req = tx.req /\ tx'.cb = tx.cb
  BY <1>1 DEF Overwritten, TxType
<1>6. ASSUME ~Failed PROVE post' = OK /\ stray' = stray /\ md' = Arrived.ch
  BY <1>1, <1>3, <1>6 DEF Post
<1>a. Before \subseteq On /\ Rest \subseteq On
  BY DEF Before, Rest
<1>b. UNCHANGED <<On, Before, Rest>> /\ \A ok : Then(ok)' = Then(ok)
  BY <1>1 DEF On, Before, Rest, Then
<1>7. ASSUME NEW C, C \subseteq On, Datagrams(fromMod, C)
      PROVE  /\ ~Failed /\ Arrived.ch # Ctrl
             /\ req \in Request => ~Answers(Arrived)
             /\ fromMod' \in Seq(Frame) /\ Datagrams(fromMod', C)
  <2>1. PICK ch \in C : Arrived = Data(ch)
    BY <1>1, <1>7, DatagramsTail DEF Arrived, Sync
  <2>2. ch \in chOn /\ ch # Ctrl
    BY <1>7 DEF On
  <2>3. ~Failed /\ Arrived.ch = ch /\ Arrived.re = NoRequest
    BY <2>1, <2>2, WhoAnswers DEF Failed
  <2> QED BY <1>1, <1>7, <2>2, <2>3, DatagramsTail, ChannelFacts DEF Answers, Sync
<1>8. Shape'
  <2>1. ~Failed => post' = OK
    BY <1>6
  <2>2. ~Failed => Shape'
    BY <1>1, <1>2, <2>1 DEF Shape, Sync
  <2>3. ~Failed
    <3>1. CASE call = "recv"
      <4>1. Datagrams(fromMod, Rest)
        BY <1>2, <3>1 DEF Sync, AtRest, Shape
      <4> QED BY <1>a, <1>7, <4>1
    <3>2. CASE call = "command"
      <4>1. Called
        BY <1>2, <3>2 DEF Sync, Replied, NoPost, OK
      <4>2. CASE Datagrams(fromMod, Before)
        BY <1>a, <1>7, <4>2
      <4>3. CASE ready /\ \E ok \in BOOLEAN, k \in 1 .. Len(fromMod) :
                              AnswerAt(fromMod, k, req, ok, Before, Then(ok))
        <5>1. PICK ok \in BOOLEAN, k \in 1 .. Len(fromMod) :
                 AnswerAt(fromMod, k, req, ok, Before, Then(ok))
          BY <4>3
        <5>2. CASE k = 1
          <6>1. Arrived = Reply(req, ok)
            BY <5>1, <5>2, AnswerTaken DEF Arrived, Sync
          <6> QED BY <4>3, <6>1, WhoAnswers DEF Failed, Sync
        <5>3. CASE k # 1
          <6>1. \E ch \in Before : Arrived = Data(ch)
            BY <5>1, <5>3, AnswerNearer DEF Arrived, Sync
          <6> QED BY <1>a, <6>1, WhoAnswers DEF Failed, On
        <5> QED BY <5>2, <5>3
      <4> QED BY <4>1, <4>2, <4>3 DEF Called
    <3> QED BY <1>2, <3>1, <3>2
  <2> QED BY <2>2, <2>3
<1>9. CASE call = "recv"
  <2>1. AtRest /\ fun = "none" /\ ~tx.busy
    BY <1>9 DEF Sync, Shape, AtRest
  <2>2. Matches(Rest) /\ Datagrams(fromMod, Rest)
    BY <2>1 DEF AtRest
  <2>3. /\ ~Failed /\ fromMod' \in Seq(Frame) /\ Datagrams(fromMod', Rest)
    BY <1>a, <1>7, <2>2
  <2>4. AtRest'
    BY <1>1, <1>b, <1>4, <2>1, <2>2, <2>3 DEF AtRest, Matches, Datagrams
  <2> QED BY <1>1, <1>6, <1>8, <1>9, <2>3, <2>4 DEF Sync
<1>10. CASE call = "command"
  <2>1. Asked /\ Called /\ Asked'
    BY <1>1, <1>2, <1>10 DEF Sync, Replied, NoPost, OK, Asked
  <2>2. CASE /\ Sending \/ ToModule \/ Nowhere
             /\ Matches(Before) /\ Datagrams(fromMod, Before)
    <3>1. ~Failed /\ Arrived.ch # Ctrl /\ ~Answers(Arrived)
          /\ fromMod' \in Seq(Frame) /\ Datagrams(fromMod', Before)
      BY <1>a, <1>7, <2>1, <2>2 DEF Asked
    <3>2. ~Replied' /\ UNCHANGED stray
      BY <1>6, <3>1 DEF Replied
    <3>3. ~Answers(cmd)'
      BY <1>1, <1>2, <1>10, <3>1 DEF Answers
    <3>4. Matches(Before)' /\ Datagrams(fromMod, Before)'
      BY <1>1, <1>b, <2>2, <3>1 DEF Matches, Datagrams
    <3>5. (Sending \/ ToModule \/ Nowhere)'
      BY <1>1, <1>4, <1>5, <2>2 DEF Sending, ToModule, Nowhere
    <3>6. Called'
      BY <3>3, <3>4, <3>5 DEF Called
    <3> QED BY <1>1, <1>8, <1>10, <2>1, <3>1, <3>2, <3>6 DEF Sync
  <2>3. ASSUME Nowhere, ready, NEW ok \in BOOLEAN, NEW k \in 1 .. Len(fromMod),
               AnswerAt(fromMod, k, req, ok, Before, Then(ok)), Matches(Then(ok))
        PROVE  Sync'
    <3>1. UNCHANGED <<Before, req, ready>> /\ Nowhere' /\ Matches(Then(ok))'
      <4>1. UNCHANGED <<Before, req, ready>> /\ Nowhere'
        BY <1>1, <1>4, <1>5, <1>b, <2>3 DEF Nowhere
      <4> QED BY <1>1, <1>b, <2>3, <4>1 DEF Matches
    <3>2. CASE k = 1
      <4>1. /\ fromMod' \in Seq(Frame) /\ Datagrams(fromMod', Then(ok))
            /\ Arrived = Reply(req, ok)
        BY <1>1, <2>3, <3>2, AnswerTaken DEF Arrived, Sync
      <4>2. ~Failed /\ Arrived.ch = Ctrl
        BY <2>3, <4>1, WhoAnswers DEF Failed, Sync
      <4>3. Replied' /\ UNCHANGED stray
        BY <1>6, <4>2 DEF Replied
      <4>4. cmd' = Arrived
        BY <1>1, <1>2, <1>10
      <4>5. Got'
        <5>1. Datagrams(fromMod, Then(ok))' /\ (cmd = Reply(req, ok))'
          BY <1>b, <3>1, <4>1, <4>4 DEF Datagrams, Reply
        <5> QED BY <3>1, <5>1 DEF Got
      <4> QED BY <1>1, <1>8, <1>10, <2>1, <4>1, <4>3, <4>5 DEF Sync
    <3>3. CASE k # 1
      <4>1. /\ fromMod' \in Seq(Frame) /\ k - 1 \in 1 .. Len(fromMod')
            /\ AnswerAt(fromMod', k - 1, req, ok, Before, Then(ok))
            /\ \E ch \in Before : Arrived = Data(ch)
        BY <1>1, <2>3, <3>3, AnswerNearer DEF Arrived, Sync
      <4>2. ~Failed /\ Arrived.ch # Ctrl /\ Arrived.re = NoRequest
        BY <1>a, <4>1, WhoAnswers DEF Failed, On
      <4>3. ~Replied' /\ UNCHANGED stray
        BY <1>6, <4>2 DEF Replied
      <4>4. ~Answers(cmd)'
        BY <1>1, <1>2, <1>10, <2>1, <4>2, ChannelFacts DEF Answers, Asked
      <4>5. AnswerAt(fromMod', k - 1, req', ok, Before', Then(ok)')
        BY <1>b, <3>1, <4>1
      <4>6. Called'
        BY <2>3, <3>1, <4>1, <4>4, <4>5 DEF Called
      <4> QED BY <1>1, <1>8, <1>10, <2>1, <4>1, <4>3, <4>6 DEF Sync
    <3> QED BY <3>2, <3>3
  <2> QED BY <2>1, <2>2, <2>3 DEF Called
<1> QED BY <1>2, <1>9, <1>10

LEMMA SyncSent ==
    ASSUME TxType, Sync, Sent, UNCHANGED apiVars
    PROVE  Sync'
<1>1. /\ tx.busy /\ LoopRuns /\ tx' = [tx EXCEPT !.busy = FALSE]
      /\ asked' = IF tx.req = NoRequest THEN asked ELSE Append(asked, tx.req)
      /\ IF tx.cb THEN Post(OK) ELSE UNCHANGED <<post, stray>>
      /\ UNCHANGED <<ready, call, req, err, md, rx, chOn, cmd, fromMod, opened, fun>>
  BY DEF Sent, apiVars
<1>2. CASE call = "command"
  <2>1. Asked /\ Called /\ ~Replied /\ Sending
    BY <1>1, <1>2 DEF Sync, Got, Called, Nowhere, ToModule
  <2>2. ~tx.cb /\ tx.req = req /\ req # NoRequest /\ asked = <<>> /\ ready
    BY <2>1, ChannelFacts DEF Sending, Asked
  <2>3. ~tx'.busy
    BY <1>1 DEF TxType
  <2>4. asked' = <<req>> /\ UNCHANGED <<post, stray>>
    BY <1>1, <2>2
  <2>5. ToModule'
    BY <1>1, <2>2, <2>3, <2>4 DEF ToModule
  <2>6. Called'
    BY <1>1, <2>1, <2>5 DEF Called, Sending, Nowhere, On, Before, Matches, Answers
  <2>7. Asked' /\ ~Replied' /\ Shape'
    BY <1>1, <2>1, <2>4 DEF Asked, Replied, Shape, Sync
  <2> QED BY <1>1, <1>2, <2>4, <2>6, <2>7 DEF Sync
<1>3. CASE call # "command"
  <2>1. call = "send" /\ post = NoPost /\ tx.cb /\ tx.req = NoRequest
    BY <1>1, <1>3 DEF Sync, AtRest
  <2>2. post' = OK /\ UNCHANGED <<stray, asked>>
    BY <1>1, <2>1 DEF Post, Pending, Waits
  <2>3. ~tx'.busy
    BY <1>1 DEF TxType
  <2>4. Shape' /\ err' \in BOOLEAN
    <3>1. rx.cb = "none"
      BY <2>1 DEF Sync, Shape
    <3> QED BY <1>1, <2>1, <2>2, <3>1 DEF Shape, Sync
  <2> QED BY <1>1, <1>3, <2>2, <2>3, <2>4, SyncRest
<1> QED BY <1>2, <1>3

\* Only the answer to the request is ever sent, and only once.
LEMMA SyncModule ==
    ASSUME Sync, Module, UNCHANGED apiVars
    PROVE  Sync'
<1>1. /\ UNCHANGED <<ready, call, req, post, err, md, stray, tx, rx, chOn, cmd, fun>>
  BY DEF Module, Answer, Ignore, Datagram, callVars, linkVars, apiVars
<1>2. Shape' /\ UNCHANGED <<On, Before, Rest>> /\ \A ok : Then(ok)' = Then(ok)
  BY <1>1 DEF Sync, Shape, On, Before, Rest, Then
<1>3. CASE Answer \/ Ignore
  <2>1. asked # <<>> /\ asked' = Tail(asked)
    BY <1>3 DEF Answer, Ignore, Takes
  <2>2. call = "command" /\ Asked /\ Called /\ ~Replied /\ ToModule
    BY <2>1 DEF Sync, AtRest, Got, Nowhere, Called, Sending
  <2>3. /\ asked = <<req>> /\ asked' = <<>> /\ Head(asked) = req /\ ready /\ ~tx.busy
        /\ Matches(Before) /\ Datagrams(fromMod, Before) /\ ~Answers(cmd)
    BY <2>1, <2>2 DEF ToModule, Called, Nowhere
  <2>4. Nowhere' /\ ready' /\ ~Answers(cmd)' /\ ~Replied' /\ Asked'
    BY <1>1, <1>2, <2>2, <2>3 DEF Nowhere, Answers, Replied, Asked
  <2>5. CASE Ignore
    <3>1. UNCHANGED <<fromMod, opened>>
      BY <2>5 DEF Ignore
    <3>2. Called'
      BY <1>1, <1>2, <2>3, <2>4, <3>1 DEF Called, Matches, Datagrams
    <3> QED BY <1>1, <1>2, <2>2, <2>4, <3>1, <3>2 DEF Sync
  <2>6. CASE Answer
    <3>1. PICK ok \in BOOLEAN :
             /\ req.cmd = "cert_set" /\ req.ch \in opened => ~ok
             /\ fromMod' = Append(fromMod, Reply(req, ok))
             /\ opened' = Opened(req, ok)
      BY <2>3, <2>6 DEF Answer
    <3>2. /\ fromMod' \in Seq(Frame) /\ Len(fromMod) + 1 \in 1 .. Len(fromMod')
          /\ AnswerAt(fromMod', Len(fromMod) + 1, req, ok, Before, Then(ok))
      <4>1. req \in Request /\ fromMod \in Seq(Frame)
        BY <2>2 DEF Asked, Sync
      <4> QED BY <2>3, <3>1, <4>1, AnswerSent
    <3>3. opened' \subseteq Then(ok) /\ Then(ok) \subseteq opened' \cup {Http}
      <4>1. req.cmd = "cert_set" => req.ch = Http
        BY <2>2 DEF Asked
      <4> QED BY <2>3, <3>1, <4>1 DEF Opened, Then, After, Matches
    <3>4. opened' \subseteq Sockets
      BY <2>2, <3>1 DEF Opened, Asked, Sync
    <3>5. Matches(Then(ok))'
      BY <1>2, <3>3 DEF Matches
    <3>6. \E k \in 1 .. Len(fromMod)' : AnswerAt(fromMod', k, req', ok, Before', Then(ok)')
      BY <1>1, <1>2, <3>2
    <3>7. Called'
      BY <2>4, <3>5, <3>6 DEF Called
    <3> QED BY <1>1, <1>2, <2>2, <2>4, <3>2, <3>4, <3>7 DEF Sync
  <2> QED BY <1>3, <2>5, <2>6
<1>4. CASE Datagram
  <2>1. PICK ch \in opened : fromMod' = Append(fromMod, Data(ch))
    BY <1>4 DEF Datagram
  <2>2. UNCHANGED <<asked, opened>> /\ ch \in Channels
    BY <1>4, ChannelFacts DEF Datagram, Sync
  <2>3. ASSUME NEW C, Matches(C), Datagrams(fromMod, C)
        PROVE  Matches(C)' /\ fromMod' \in Seq(Frame) /\ Datagrams(fromMod', C)
    <3>1. ch \in C
      BY <2>3 DEF Matches
    <3> QED BY <2>1, <2>2, <2>3, <3>1, DatagramsAppend DEF Sync, Matches
  <2>4. UNCHANGED <<Sending, ToModule, Nowhere, Asked, Replied>>
    BY <1>1, <2>2 DEF Sending, ToModule, Nowhere, Asked, Replied
  <2>5. CASE call # "command"
    <3>1. AtRest /\ Matches(Rest) /\ Datagrams(fromMod, Rest)
      BY <2>5 DEF Sync, AtRest
    <3>2. Matches(Rest)' /\ fromMod' \in Seq(Frame) /\ Datagrams(fromMod, Rest)'
      BY <1>2, <2>3, <3>1 DEF Matches
    <3>3. AtRest'
      BY <1>1, <2>2, <3>1, <3>2 DEF AtRest
    <3> QED BY <1>1, <1>2, <2>2, <2>5, <3>2, <3>3 DEF Sync
  <2>6. CASE call = "command" /\ Replied
    <3>1. PICK ok \in BOOLEAN : /\ Nowhere /\ cmd = Reply(req, ok)
                               /\ Matches(Then(ok)) /\ Datagrams(fromMod, Then(ok))
      BY <2>6 DEF Sync, Got
    <3>2. /\ Matches(Then(ok))' /\ fromMod' \in Seq(Frame)
          /\ Datagrams(fromMod, Then(ok))'
      BY <1>2, <2>3, <3>1 DEF Matches
    <3>3. Got'
      BY <1>1, <2>4, <3>1, <3>2 DEF Got, Reply
    <3> QED BY <1>1, <1>2, <2>2, <2>4, <2>6, <3>2, <3>3 DEF Sync
  <2>7. CASE call = "command" /\ ~Replied
    <3>1. Called /\ ~Answers(cmd)'
      BY <1>1, <2>7 DEF Sync, Called, Answers
    <3>2. CASE /\ Sending \/ ToModule \/ Nowhere
               /\ Matches(Before) /\ Datagrams(fromMod, Before)
      <4>1. /\ Matches(Before)' /\ fromMod' \in Seq(Frame)
            /\ Datagrams(fromMod, Before)'
        BY <1>2, <2>3, <3>2 DEF Matches
      <4>2. Called'
        BY <2>4, <3>1, <3>2, <4>1 DEF Called
      <4> QED BY <1>1, <1>2, <2>2, <2>4, <2>7, <4>1, <4>2 DEF Sync
    <3>3. ASSUME Nowhere, ready, NEW ok \in BOOLEAN, NEW k \in 1 .. Len(fromMod),
                 AnswerAt(fromMod, k, req, ok, Before, Then(ok)), Matches(Then(ok))
          PROVE  Sync'
      <4>1. /\ fromMod' \in Seq(Frame) /\ k \in 1 .. Len(fromMod')
            /\ AnswerAt(fromMod', k, req, ok, Before, Then(ok))
        <5>1. fromMod \in Seq(Frame) /\ ch \in Then(ok)
          BY <3>3 DEF Sync, Matches
        <5> QED BY <2>1, <2>2, <3>3, <5>1, AnswerFollowed
      <4>2. Matches(Then(ok))'
        BY <1>2, <2>2, <3>3 DEF Matches
      <4>3. \E j \in 1 .. Len(fromMod)' : AnswerAt(fromMod', j, req', ok, Before', Then(ok)')
        BY <1>1, <1>2, <4>1
      <4>4. Called'
        BY <1>1, <2>4, <3>1, <3>3, <4>2, <4>3 DEF Called
      <4> QED BY <1>1, <1>2, <2>2, <2>4, <2>7, <4>1, <4>4 DEF Sync
    <3> QED BY <3>1, <3>2, <3>3 DEF Called
  <2> QED BY <2>5, <2>6, <2>7
<1> QED BY <1>3, <1>4 DEF Module

\* An HTTP request that is over leaves its channel enabled.
LEMMA SyncBodyEnds ==
    ASSUME Sync, BodyEnds
    PROVE  Sync'
<1>1. /\ UNCHANGED <<ready, call, req, post, err, md, stray, tx, rx, chOn, cmd, fun,
                     asked, fromMod>>
      /\ opened' = opened \ {Http}
  BY DEF BodyEnds, callVars, linkVars, apiVars
<1>2. Shape' /\ UNCHANGED <<On, Before, Rest>> /\ \A ok : Then(ok)' = Then(ok)
  BY <1>1 DEF Sync, Shape, On, Before, Rest, Then
<1>3. ASSUME NEW C, Matches(C)
      PROVE  opened' \subseteq C /\ C \subseteq opened' \cup {Http}
  BY <1>1, <1>3 DEF Matches
<1>4. UNCHANGED <<Sending, ToModule, Nowhere, Asked, Replied>> /\ Answers(cmd)' = Answers(cmd)
  BY <1>1 DEF Sending, ToModule, Nowhere, Asked, Replied, Answers
<1>5. Matches(Before) => Matches(Before)'
  BY <1>2, <1>3 DEF Matches
<1>6. \A ok : Matches(Then(ok)) => Matches(Then(ok))'
  BY <1>2, <1>3 DEF Matches
<1>7. CASE call # "command"
  <2>1. AtRest'
    <3>1. AtRest /\ Matches(Rest)
      BY <1>7 DEF Sync, AtRest
    <3>2. Matches(Rest)'
      BY <1>2, <1>3, <3>1 DEF Matches
    <3> QED BY <1>1, <1>2, <3>1, <3>2 DEF AtRest, Datagrams
  <2> QED BY <1>1, <1>2, <1>7, <2>1 DEF Sync
<1>8. CASE call = "command" /\ Replied
  <2>1. Got'
    BY <1>1, <1>2, <1>4, <1>6, <1>8 DEF Sync, Got, Datagrams, Reply
  <2> QED BY <1>1, <1>2, <1>4, <1>8, <2>1 DEF Sync
<1>9. CASE call = "command" /\ ~Replied
  <2>1. Called'
    <3>1. Called
      BY <1>9 DEF Sync
    <3>2. CASE /\ Sending \/ ToModule \/ Nowhere
               /\ Matches(Before) /\ Datagrams(fromMod, Before)
      BY <1>1, <1>2, <1>4, <1>5, <3>1, <3>2 DEF Called, Datagrams
    <3>3. ASSUME Nowhere, ready, NEW ok \in BOOLEAN, NEW k \in 1 .. Len(fromMod),
                 AnswerAt(fromMod, k, req, ok, Before, Then(ok)), Matches(Then(ok))
          PROVE  Called'
      <4>1. /\ Matches(Then(ok))' /\ k \in 1 .. Len(fromMod)'
            /\ AnswerAt(fromMod', k, req', ok, Before', Then(ok)')
        BY <1>1, <1>2, <1>6, <3>3
      <4> QED BY <1>1, <1>4, <3>1, <3>3, <4>1 DEF Called
    <3> QED BY <3>1, <3>2, <3>3 DEF Called
  <2> QED BY <1>1, <1>2, <1>4, <1>9, <2>1 DEF Sync
<1> QED BY <1>7, <1>8, <1>9

\* A time limit is over: only mw_sleep() waits for that.
LEMMA SyncTimeout ==
    ASSUME Sync, CmdTout, UNCHANGED apiVars, ~Lost'
    PROVE  Sync'
<1>1. /\ call = "sleep" /\ LoopRuns
      /\ UNCHANGED <<ready, call, err, tx, rx, chOn, asked, fromMod, opened, fun>>
      /\ Post(Timeout)
  BY DEF CmdTout, Due, linkVars, modVars, apiVars, Lost
<1>2. UNCHANGED stray
  BY <1>1 DEF Post, LoopRuns
<1>3. rx.cb = "none" /\ fun = "none" /\ ~tx.busy /\ err \in BOOLEAN
  BY <1>1 DEF Sync, Shape, AtRest
<1>4. Shape'
  BY <1>1, <1>3 DEF Shape
<1> QED BY <1>1, <1>2, <1>3, <1>4, SyncRest

\* A function that has given up has done so for good, and so has a request that
\* was cleaned up too early.
LEMMA TimedOutStays ==
    timedOut \in BOOLEAN /\ [Next]_vars
        => timedOut' \in BOOLEAN /\ (timedOut => timedOut')
  BY DEF Next, Program, Call, Ask, Refuse, Scribble, PowerOff, SleepCall, Sleep,
     RecvCall, RecvSync, SendCall, SendSync, Leave, Continue, SleepDone,
     CommandData, DataDone, CommandReturns, CommandDone, SendPart, SendReturns,
     CertSend, CertReturns, CleanupReturns, Timers, Frames, CmdTout, CmdRecv, Sent,
     Module, Answer, Ignore, Datagram, BodyEnds, vars, mwVars, callVars

LEMMA CleanedStays ==
    cleaned \in BOOLEAN /\ [Next]_vars
        => cleaned' \in BOOLEAN /\ (cleaned => cleaned')
<1> SUFFICES ASSUME cleaned \in BOOLEAN, [Next]_vars
             PROVE  cleaned' \in BOOLEAN /\ (cleaned => cleaned')
  OBVIOUS
<1>1. ASSUME NEW f \in Functions, Call(f)
      PROVE  cleaned' \in BOOLEAN /\ (cleaned => cleaned')
  <2>1. cleaned' = (cleaned \/ (f.gives = "cleanup" /\ Unfinished))
    BY <1>1, Zenon DEF Call
  <2> QED BY <2>1
<1>2. CASE ~\E f \in Functions : Call(f)
  <2>1. cleaned' = cleaned
    BY <1>2, Zenon DEF Next, Program, PowerOff, SleepCall, RecvCall, SendCall, Leave,
       Continue, CommandReturns, SendPart, SendReturns, CertSend, CertReturns,
       CleanupReturns, Timers, Frames, BodyEnds, apiVars, vars
  <2> QED BY <2>1
<1> QED BY <1>1, <1>2

LEMMA LostStays ==
    /\ timedOut \in BOOLEAN /\ cleaned \in BOOLEAN
    /\ [Next]_vars
    => /\ timedOut' \in BOOLEAN /\ cleaned' \in BOOLEAN
       /\ Lost => Lost'
  BY TimedOutStays, CleanedStays DEF Lost

LEMMA SyncInit == Init => SyncInv
<1> SUFFICES ASSUME Init PROVE SyncInv
  OBVIOUS
<1>1. TxType /\ timedOut \in BOOLEAN /\ cleaned \in BOOLEAN
  BY DEF Init, MwInit, TxType
<1>2. Shape /\ AtRest
  BY ChannelFacts
  DEF Init, MwInit, Shape, AtRest, Idle, Datagrams, On, Rest, Matches
<1>3. Ctrl \in chOn <=> ready
  BY DEF Init, MwInit
<1>4. chOn \subseteq Channels /\ fromMod \in Seq(Frame)
  BY ChannelFacts DEF Init, MwInit
<1> QED BY <1>1, <1>2, <1>3, <1>4 DEF Init, MwInit, SyncInv, Sync

LEMMA SyncStep == SyncInv /\ [Next]_vars => SyncInv'
<1> SUFFICES ASSUME SyncInv, [Next]_vars PROVE SyncInv'
  OBVIOUS
<1>1. TxType' /\ timedOut' \in BOOLEAN /\ cleaned' \in BOOLEAN /\ (Lost => Lost')
  BY TxStep, LostStays DEF SyncInv
<1>2. ASSUME ~Lost' PROVE Sync'
  <2>1. Sync /\ TxType
    BY <1>1, <1>2 DEF SyncInv
  <2>2. CASE UNCHANGED vars
    BY <2>1, <2>2
    DEF vars, mwVars, callVars, linkVars, modVars, apiVars, Sync, Shape, Asked, Got,
        Called, AtRest, Replied, Answers, Sending, ToModule, Nowhere, On, Before, Rest, Then,
        Matches
  <2>3. CASE Timers \/ Frames
    BY <1>2, <2>1, <2>3, SyncTimeout, SyncReceive, SyncSent DEF Timers, Frames
  <2> QED
    BY <1>2, <2>1, <2>2, <2>3, SyncProgram, SyncContinue, SyncModule, SyncBodyEnds
    DEF Next
<1> QED BY <1>1, <1>2 DEF SyncInv

LEMMA SyncInvariant == Spec => []SyncInv
  BY SyncInit, SyncStep, PTL DEF Spec

\* Until a function gives up or an HTTP request is cleaned up too early, the
\* channels that the console has enabled are the sockets open in the module,
\* whenever the program could use them, and that of HTTP is enabled as long as the
\* module may send on it: each of the functions that open or close one does both
\* sides (megawifi.c:686-771, 1204-1309).
THEOREM ChannelsStayEqual == Spec => []ChannelsAgree
<1>1. SyncInv => ChannelsAgree
  <2> SUFFICES ASSUME SyncInv, ~timedOut, ~cleaned, call \in {"idle", "returned", "recv"}
               PROVE  /\ chOn \ {Ctrl, Http} = opened \ {Http}
                      /\ Http \in opened => Http \in chOn
                      /\ ready <=> Ctrl \in chOn
    BY DEF ChannelsAgree
  <2>1. Sync /\ AtRest /\ Matches(Rest)
    BY DEF SyncInv, Lost, Sync, AtRest
  <2> QED BY <2>1, ChannelFacts DEF Sync, Matches, Rest, On
<1> QED BY <1>1, SyncInvariant, PTL

\* As long, no frame of a channel that is not enabled reaches a receiver that is
\* armed, whatever is opened, closed or over (lsd.c:253-271).
THEOREM DataStaysOnOpenChannels == Spec => []DataOnOpenChannel
<1>1. SyncInv => DataOnOpenChannel
  <2> SUFFICES ASSUME SyncInv, ~timedOut, ~cleaned, rx.cb # "none", fromMod # <<>>
               PROVE  Head(fromMod).ch \in chOn
    BY DEF DataOnOpenChannel
  <2>1. Sync /\ call \in {"command", "recv"} /\ post = NoPost
    BY DEF SyncInv, Lost, Sync, Shape
  <2>2. ASSUME NEW C, C \subseteq On, Datagrams(fromMod, C)
        PROVE  Head(fromMod).ch \in chOn
    BY <2>1, <2>2, DatagramsTail, WhoAnswers DEF Sync, On
  <2>3. Before \subseteq On /\ Rest \subseteq On
    BY DEF Before, Rest
  <2>4. CASE ready /\ \E ok \in BOOLEAN, k \in 1 .. Len(fromMod) :
                          AnswerAt(fromMod, k, req, ok, Before, Then(ok))
    <3>1. PICK ok \in BOOLEAN, k \in 1 .. Len(fromMod) :
             AnswerAt(fromMod, k, req, ok, Before, Then(ok))
      BY <2>4
    <3>2. CASE k = 1
      BY <2>1, <2>4, <3>1, <3>2, AnswerTaken, WhoAnswers DEF Sync
    <3>3. CASE k # 1
      <4>1. \E ch \in Before : Head(fromMod) = Data(ch)
        BY <2>1, <3>1, <3>3, AnswerNearer DEF Sync
      <4> QED BY <2>3, <4>1, WhoAnswers DEF On
    <3> QED BY <3>2, <3>3
  <2>5. call = "recv" => Datagrams(fromMod, Rest)
    BY <2>1 DEF Sync, AtRest, Shape
  <2>6. call = "command" => Called
    BY <2>1 DEF Sync, Replied, NoPost, OK
  <2> QED BY <2>1, <2>2, <2>3, <2>4, <2>5, <2>6 DEF Called
<1> QED BY <1>1, SyncInvariant, PTL

-----------------------------------------------------------------------------
(* What the functions promise (module Rpc), step by step.  Where a call is *)
(* in module Rpc is read off the functions: Stage of module MwApi.         *)

Requested == IF fun = "none" THEN NoRequest ELSE req
Good == Stage = "done" /\ Outcome
Bad == Stage = "over" /\ err

Elements(s) == {s[i] : i \in 1 .. Len(s)}

\* The frames that may hold the answer.
Held == {cmd} \cup Elements(fromMod)

LEMMA AnswerHeld ==
    /\ Answered <=> \E f \in Held : Answers(f)
    /\ Outcome <=> \E f \in Held : Answers(f) /\ f.ok
  BY DEF Answered, Outcome, Held, Elements

LEMMA ElementsTail ==
    ASSUME NEW s \in Seq(Frame), s # <<>>
    PROVE  Elements(s) = {Head(s)} \cup Elements(Tail(s))
<1>1. /\ Len(s) \in Nat \ {0} /\ Len(Tail(s)) = Len(s) - 1 /\ Head(s) = s[1]
      /\ \A i \in 1 .. Len(Tail(s)) : Tail(s)[i] = s[i + 1]
  OBVIOUS
<1>2. \A i \in 1 .. Len(s) : i # 1 => /\ i - 1 \in 1 .. Len(Tail(s))
                                      /\ Tail(s)[i - 1] = s[i]
  BY <1>1
<1>3. 1 \in 1 .. Len(s) /\ \A i \in 1 .. Len(Tail(s)) : i + 1 \in 1 .. Len(s)
  BY <1>1
<1>4. ASSUME NEW f \in Elements(s)
      PROVE  f \in {Head(s)} \cup Elements(Tail(s))
  <2>1. PICK i \in 1 .. Len(s) : f = s[i]
    BY DEF Elements
  <2>2. CASE i = 1
    BY <1>1, <2>1, <2>2
  <2>3. CASE i # 1
    BY <1>2, <2>1, <2>3 DEF Elements
  <2> QED BY <2>2, <2>3
<1>5. ASSUME NEW f \in Elements(Tail(s))
      PROVE  f \in Elements(s)
  BY <1>1, <1>3 DEF Elements
<1>6. Head(s) \in Elements(s)
  BY <1>1, <1>3 DEF Elements
<1> QED BY <1>4, <1>5, <1>6

LEMMA ElementsAppend ==
    ASSUME NEW s \in Seq(Frame), NEW a \in Frame
    PROVE  Elements(Append(s, a)) = Elements(s) \cup {a}
<1>1. /\ Len(s) \in Nat /\ Len(Append(s, a)) = Len(s) + 1
      /\ Append(s, a)[Len(s) + 1] = a
      /\ \A i \in 1 .. Len(s) : Append(s, a)[i] = s[i]
  OBVIOUS
<1> QED BY <1>1 DEF Elements

\* Datagrams answer nothing.
LEMMA DatagramsSilent ==
    ASSUME NEW C, Datagrams(fromMod, C), req \in Request
    PROVE  \A f \in Elements(fromMod) : ~Answers(f)
  BY ChannelFacts, WhoAnswers DEF Datagrams, Elements, Answers

\* A step of module Rpc, or none.
PromiseStep == [Service!RpcNext]_(Service!rpcVars)

LEMMA Stutters ==
    ASSUME Stage' = Stage, Requested' = Requested, Good' = Good, Bad' = Bad,
           Lost' = Lost
    PROVE  PromiseStep
  BY DEF PromiseStep, Service!rpcVars, Requested, Good, Bad, Lost

\* Outside of mw_command() the request and the result stay what they are.
LEMMA StuttersOutside ==
    ASSUME call # "command", call' # "command", fun' = "none" <=> fun = "none",
           fun = "none" \/ UNCHANGED <<req, err>>, Lost' = Lost
    PROVE  PromiseStep
<1>1. Stage' = Stage /\ Stage \in {"idle", "over"} /\ (Stage = "idle" <=> fun = "none")
  BY DEF Stage
<1>2. Requested' = Requested /\ Good' = Good
  BY <1>1 DEF Requested, Good
<1>3. Bad' = Bad
  BY <1>1 DEF Bad
<1> QED BY <1>1, <1>2, <1>3, Stutters

\* While mw_command() waits nothing counts but the answer.
LEMMA StuttersWithin ==
    ASSUME call = "command", UNCHANGED <<call, fun, req>>, fun # "none",
           Answered' <=> Answered, Outcome' <=> Outcome, Lost' = Lost
    PROVE  PromiseStep
<1>1. Stage' = Stage /\ Stage \in {"done", "called"}
  BY DEF Stage
<1>2. Requested' = Requested /\ Good' = Good /\ Bad' = Bad
  BY <1>1 DEF Requested, Good, Bad
<1> QED BY <1>1, <1>2, Stutters

LEMMA HeldStays ==
    ASSUME UNCHANGED <<cmd, req, fromMod>>
    PROVE  (Answered' <=> Answered) /\ (Outcome' <=> Outcome)
  BY AnswerHeld DEF Answered, Outcome, Answers

\* The program calls a function that sends a command: Rpc's Call.
LEMMA RefineAsk ==
    ASSUME Sync, Free, NEW r \in Request, Ask(r), fun' # "none", ~Lost,
           Lost' = Lost
    PROVE  PromiseStep
<1>1. /\ call' = "command" /\ req' = r /\ cmd' = r /\ fromMod' = fromMod
      /\ call # "command" /\ Datagrams(fromMod, On)
  BY SyncFree DEF Ask, Wait, modVars
<1>2. r \notin Frame
  <2>1. DOMAIN r = {"cmd", "ch"}
    BY DEF Request
  <2>2. \A g \in Frame : DOMAIN g = {"ch", "re", "ok", "err"}
    BY DEF Frame
  <2> QED BY <2>1, <2>2
<1>3. \A f \in Elements(fromMod) : f.re # r
  BY <1>1, ChannelFacts, WhoAnswers DEF Datagrams, Elements
<1>4. ~Answered'
  BY <1>1, <1>2, <1>3 DEF Answered, Answers, Elements
<1>5. Stage \in {"idle", "over"} /\ Stage' = "called"
  BY <1>1, <1>4 DEF Stage
<1>6. Requested' = r /\ ~Good' /\ ~Bad'
  BY <1>1, <1>5 DEF Requested, Good, Bad
<1>7. Service!Call(r)
  BY <1>5, <1>6 DEF Service!Call, Requested, Good, Bad, Lost
<1> QED BY <1>7 DEF Service!RpcNext, PromiseStep

\* It calls one that sends none: what the last one returned is forgotten.
LEMMA RefineForget ==
    ASSUME call # "command", fun' = "none", Lost' = Lost
    PROVE  PromiseStep
<1>1. Stage' = "idle" /\ Requested' = NoRequest /\ ~Good' /\ ~Bad'
  BY DEF Stage, Requested, Good, Bad
<1>2. CASE fun = "none"
  <2>1. Stage = "idle" /\ Requested = NoRequest /\ ~Good /\ ~Bad
    BY <1>2 DEF Stage, Requested, Good, Bad
  <2>2. Stage' = Stage /\ Requested' = Requested /\ Good' = Good /\ Bad' = Bad
    BY <1>1, <2>1 DEF Good, Bad
  <2> QED BY <2>2, Stutters
<1>3. CASE fun # "none"
  <2>1. Stage = "over"
    BY <1>3 DEF Stage
  <2>2. Service!Forget
    BY <1>1, <2>1 DEF Service!Forget, Requested, Good, Bad, Lost
  <2> QED BY <2>2 DEF Service!RpcNext, PromiseStep
<1> QED BY <1>2, <1>3

LEMMA RefineProgram ==
    ASSUME Sync, Program, ~Lost, ~Lost', Lost' = Lost
    PROVE  PromiseStep
<1>1. Free => call # "command"
  BY SyncFree
<1>2. ASSUME NEW f \in Functions, Call(f)
      PROVE  PromiseStep
  <2>1. Free
    <3>1. Start
      BY <1>2, Zenon DEF Call
    <3> QED BY <3>1 DEF Start
  <2>2. ASSUME NEW ch \in f.on, Ask([cmd |-> f.asks, ch |-> ch]), fun' = f.gives
        PROVE  PromiseStep
    <3>1. [cmd |-> f.asks, ch |-> ch] \in Request /\ f.gives # "none"
      BY FunctionFacts DEF Proper, Request
    <3> QED BY <2>1, <2>2, <3>1, RefineAsk
  <2>3. ASSUME fun' = "none" PROVE PromiseStep
    BY <1>1, <2>1, <2>3, RefineForget
  <2>4. \/ \E ch \in f.on : Ask([cmd |-> f.asks, ch |-> ch]) /\ fun' = f.gives
        \/ fun' = "none"
    BY <1>2, Zenon DEF Call
  <2> QED BY <2>2, <2>3, <2>4
<1>3. CASE PowerOff
  BY <1>3 DEF PowerOff, Lost
<1>4. CASE SleepCall \/ RecvCall \/ SendCall
  <2>1. Free /\ fun' = "none"
    BY <1>4 DEF SleepCall, RecvCall, SendCall, Start
  <2> QED BY <1>1, <2>1, RefineForget
<1>5. CASE Leave
  <2>1. Free /\ call' # "command" /\ UNCHANGED <<fun, req, err>>
    BY <1>5 DEF Leave, apiVars
  <2> QED BY <1>1, <2>1, StuttersOutside
<1> QED BY <1>2, <1>3, <1>4, <1>5 DEF Program

\* The function returns what came of its own command: Rpc's ReturnOutcome.
LEMMA RefineReturns ==
    ASSUME Sync, CommandReturns, Lost' = Lost
    PROVE  PromiseStep
<1>1. CommandDone
  BY DEF CommandReturns
<1>2. PICK ok \in BOOLEAN :
         cmd = Reply(req, ok) /\ (Succeeded <=> ok)
  BY <1>1, SyncAnswered
<1>3. /\ call = "command" /\ req \in Request /\ fun # "none"
      /\ \E C : Datagrams(fromMod, C)
  BY <1>1, SyncAnswered DEF Asked, Got
<1>4. Answers(cmd) /\ (cmd.ok <=> ok)
  BY <1>2, <1>3, ChannelFacts, WhoAnswers DEF Answers
<1>5. Answered /\ (Outcome <=> ok)
  BY <1>3, <1>4, DatagramsSilent, AnswerHeld DEF Held
<1>6. Stage = "done" /\ (Good <=> ok) /\ ~Bad /\ Requested = req
  BY <1>3, <1>5 DEF Stage, Good, Bad, Requested
<1>7. call' = "returned" /\ err' = ~Succeeded /\ req' = req /\ fun' # "none"
  BY <1>1, <1>3 DEF CommandReturns, CommandDone, Return
<1>8. Stage' = "over" /\ ~Good' /\ (Bad' <=> ~ok) /\ Requested' = req
  BY <1>2, <1>7 DEF Stage, Good, Bad, Requested
<1>9. Requested' = Requested /\ ~Good' /\ Bad' = ~Good
  BY <1>6, <1>8 DEF Good, Bad
<1>10. Service!ReturnOutcome
  BY <1>6, <1>8, <1>9 DEF Service!ReturnOutcome, Requested, Good, Bad, Lost
<1> QED BY <1>10 DEF Service!RpcNext, PromiseStep

LEMMA RefineContinue ==
    ASSUME Sync, Sync', Continue, ~Lost, ~Lost', Lost' = Lost
    PROVE  PromiseStep
<1>1. CASE (SleepDone \/ DataDone("recv")) /\ UNCHANGED apiVars
  <2>1. call \in {"sleep", "recv"} /\ call' = "returned" /\ fun' = fun
    BY <1>1 DEF SleepDone, DataDone, Woken, Return, apiVars
  <2>2. fun = "none"
    BY <2>1 DEF Sync, Shape
  <2> QED BY <2>1, <2>2, StuttersOutside
<1>2. CASE CommandData /\ UNCHANGED apiVars
  <2>1. call = "command" /\ UNCHANGED <<call, fun, req, cmd, fromMod>>
    BY <1>2 DEF CommandData, Woken, Wait, modVars, apiVars
  <2>2. fun # "none"
    BY <2>1 DEF Sync, Asked
  <2> QED BY <2>1, <2>2, HeldStays, StuttersWithin
<1>3. CASE CommandReturns
  BY <1>3, RefineReturns
<1>4. CASE SendPart \/ CertSend
  <2>1. call \in {"send", "returned"} /\ call' = "send" /\ UNCHANGED <<fun, req, err>>
    BY <1>4 DEF SendPart, CertSend, InCertSet, Woken, SendSync, Wait, apiVars
  <2> QED BY <2>1, StuttersOutside
<1>5. CASE SendReturns
  <2>1. call = "send" /\ call' = "returned" /\ UNCHANGED <<fun, req>>
    BY <1>5 DEF SendReturns, DataDone, Woken, Return
  <2>2. fun # "none" => ~err /\ ~err'
    BY <2>1 DEF Sync, Shape
  <2>3. fun # "none" => err' = err
    BY <2>2 DEF Sync
  <2> QED BY <2>1, <2>3, StuttersOutside
<1>6. CASE CertReturns
  <2>1. /\ call = "returned" /\ fun = "certificate"
        /\ call' = "returned" /\ fun' = "value" /\ err' = FALSE /\ req' = req
    BY <1>6 DEF CertReturns, InCertSet, Return
  <2>2. err' = err
    BY <2>1 DEF Sync, Shape
  <2> QED BY <2>1, <2>2, StuttersOutside
<1>7. CASE CleanupReturns
  <2>1. /\ call = "returned" /\ fun = "cleanup"
        /\ call' = "returned" /\ fun' = "value" /\ UNCHANGED <<err, req>>
    BY <1>7 DEF CleanupReturns, callVars
  <2> QED BY <2>1, StuttersOutside
<1> QED BY <1>1, <1>2, <1>3, <1>4, <1>5, <1>6, <1>7 DEF Continue

\* A frame that is received answers as much in *d.cmd as on its way.
LEMMA RefineFrames ==
    ASSUME Sync, Timers \/ Frames, ~Lost, ~Lost', Lost' = Lost
    PROVE  PromiseStep
<1>1. UNCHANGED <<call, fun, req, err>>
  BY DEF Timers, Frames, CmdTout, CmdRecv, Sent, apiVars
<1>2. CASE call # "command"
  BY <1>1, <1>2, StuttersOutside
<1>3. CASE call = "command"
  <2>1. fun # "none"
    BY <1>3 DEF Sync, Asked
  <2>2. CASE UNCHANGED <<cmd, fromMod>>
    BY <1>1, <1>3, <2>1, <2>2, HeldStays, StuttersWithin
  <2>3. CASE CmdRecv
    <3>1. /\ rx.cb # "none" /\ fromMod # <<>> /\ fromMod' = Tail(fromMod)
          /\ cmd' = IF rx.cmd THEN Head(fromMod) ELSE cmd
      BY <2>3 DEF CmdRecv, Complete, Arrived
    <3>2. rx.cmd /\ post = NoPost
      BY <1>3, <3>1 DEF Sync, Shape
    <3>3. ~Answers(cmd)
      BY <1>3, <3>2 DEF Sync, Replied, Called, NoPost, OK
    <3>4. Held = {cmd} \cup Held'
      BY <3>1, <3>2, ElementsTail DEF Held, Sync
    <3>5. \A f : Answers(f)' <=> Answers(f)
      BY <1>1 DEF Answers
    <3>6. Answered' <=> \E f \in Held' : Answers(f)
      BY <1>1, AnswerHeld, <3>5 DEF Answered, Held, Elements, Answers
    <3>7. Outcome' <=> \E f \in Held' : Answers(f) /\ f.ok
      BY <1>1 DEF Outcome, Held, Elements, Answers
    <3>8. (Answered' <=> Answered) /\ (Outcome' <=> Outcome)
      BY <3>3, <3>4, <3>6, <3>7, AnswerHeld
    <3> QED BY <1>1, <1>3, <2>1, <3>8, StuttersWithin
  <2>4. CmdRecv \/ UNCHANGED <<cmd, fromMod>>
    BY DEF Timers, Frames, CmdTout, Sent, linkVars, modVars
  <2> QED BY <2>2, <2>3, <2>4
<1> QED BY <1>2, <1>3

\* The module answers: Rpc's Do.  A datagram is no answer.
LEMMA RefineModule ==
    ASSUME Sync, Module, UNCHANGED apiVars, ~Lost, Lost' = Lost
    PROVE  PromiseStep
<1>1. UNCHANGED <<call, fun, req, err, cmd>>
  BY DEF Module, Answer, Ignore, Datagram, callVars, linkVars, apiVars
<1>2. CASE call # "command"
  BY <1>1, <1>2, StuttersOutside
<1>3. CASE call = "command" /\ Ignore
  <2>1. fun # "none" /\ fromMod' = fromMod
    BY <1>3 DEF Sync, Asked, Ignore
  <2> QED BY <1>1, <1>3, <2>1, HeldStays, StuttersWithin
<1>4. CASE call = "command" /\ (Datagram \/ Answer)
  <2>1. req \in Request /\ fun # "none" /\ fromMod \in Seq(Frame)
    BY <1>4 DEF Sync, Asked
  <2>2. ASSUME NEW a \in Frame, fromMod' = Append(fromMod, a)
        PROVE  /\ Answered' <=> Answered \/ a.re = req
               /\ Outcome' <=> Outcome \/ (a.re = req /\ a.ok)
    <3>1. Elements(fromMod)' = Elements(fromMod) \cup {a}
      BY <2>1, <2>2, ElementsAppend DEF Elements
    <3>2. Held' = Held \cup {a}
      BY <1>1, <3>1 DEF Held
    <3>3. Answered' <=> \E f \in Held' : Answers(f)
      BY <1>1 DEF Answered, Held, Elements, Answers
    <3>4. Outcome' <=> \E f \in Held' : Answers(f) /\ f.ok
      BY <1>1 DEF Outcome, Held, Elements, Answers
    <3>5. Answers(a) <=> a.re = req
      BY <2>2 DEF Answers
    <3> QED BY <3>2, <3>3, <3>4, <3>5, AnswerHeld
  <2>3. CASE Datagram
    <3>1. PICK ch \in opened : fromMod' = Append(fromMod, Data(ch))
      BY <2>3 DEF Datagram
    <3>2. Data(ch) \in Frame /\ Data(ch).re # req
      BY <2>1, ChannelFacts, WhoAnswers DEF Sync
    <3>3. (Answered' <=> Answered) /\ (Outcome' <=> Outcome)
      BY <2>2, <3>1, <3>2
    <3> QED BY <1>1, <1>4, <2>1, <3>3, StuttersWithin
  <2>4. CASE Answer
    <3>1. Head(asked) = req /\ Datagrams(fromMod, Before) /\ ~Answers(cmd)
      BY <1>4, <2>4 DEF Answer, Takes, Sync, Got, Called, Nowhere, Sending, ToModule
    <3>2. PICK ok \in BOOLEAN :
             fromMod' = Append(fromMod, Reply(req, ok))
      BY <2>4, <3>1 DEF Answer
    <3>3. ~Answered /\ ~Outcome
      BY <2>1, <3>1, DatagramsSilent, AnswerHeld DEF Held
    <3>4. Answered'
      BY <2>1, <2>2, <3>2, ChannelFacts, WhoAnswers
    <3>5. Stage = "called" /\ Stage' = "done"
      BY <1>1, <1>4, <2>1, <3>3, <3>4 DEF Stage
    <3>6. Requested' = Requested /\ ~Bad /\ ~Bad' /\ Good' \in BOOLEAN
      BY <1>1, <3>5 DEF Requested, Bad, Good
    <3>7. Bad' = Bad
      BY <3>6 DEF Bad
    <3>8. Service!Do
      BY <3>5, <3>6, <3>7 DEF Service!Do, Requested, Good, Bad, Lost
    <3> QED BY <3>8 DEF Service!RpcNext, PromiseStep
  <2> QED BY <1>4, <2>3, <2>4
<1> QED BY <1>2, <1>3, <1>4 DEF Module

LEMMA RefineBodyEnds ==
    ASSUME Sync, BodyEnds, ~Lost, Lost' = Lost
    PROVE  PromiseStep
<1>1. UNCHANGED <<call, fun, req, err, cmd, fromMod>>
  BY DEF BodyEnds, callVars, linkVars, apiVars
<1>2. CASE call # "command"
  BY <1>1, <1>2, StuttersOutside
<1>3. CASE call = "command"
  <2>1. fun # "none"
    BY <1>3 DEF Sync, Asked
  <2> QED BY <1>1, <1>3, <2>1, HeldStays, StuttersWithin
<1> QED BY <1>2, <1>3

LEMMA RefineStep ==
    SyncInv /\ SyncInv' /\ [Next]_vars => PromiseStep
<1> SUFFICES ASSUME SyncInv, SyncInv', [Next]_vars
             PROVE  PromiseStep
  OBVIOUS
<1>1. Lost \in BOOLEAN /\ Lost' \in BOOLEAN /\ (Lost => Lost')
  BY LostStays DEF SyncInv, Lost
<1>2. CASE Lost'
  BY <1>1, <1>2 DEF PromiseStep, Service!RpcNext, Service!GiveUp, Service!Unknown, Lost
<1>3. CASE ~Lost'
  <2>1. ~Lost /\ Lost' = Lost /\ Sync /\ Sync'
    BY <1>1, <1>3 DEF SyncInv
  <2>2. CASE UNCHANGED vars
    <3>1. UNCHANGED <<call, fun, req, err, cmd, fromMod>>
      BY <2>2 DEF vars, mwVars, callVars, linkVars, modVars, apiVars
    <3>2. CASE call # "command"
      BY <2>1, <3>1, <3>2, StuttersOutside
    <3>3. CASE call = "command"
      <4>1. fun # "none"
        BY <2>1, <3>3 DEF Sync, Asked
      <4> QED BY <2>1, <3>1, <3>3, <4>1, HeldStays, StuttersWithin
    <3> QED BY <3>2, <3>3
  <2> QED BY <1>3, <2>1, <2>2, RefineProgram, RefineContinue, RefineFrames, RefineModule,
            RefineBodyEnds DEF Next
<1> QED BY <1>2, <1>3

\* Until one gives up or an HTTP request is cleaned up too early, every function
\* that sends a command does what module Rpc says: the module carries the command out at most once, between the call and
\* the return, and what the function returns is the outcome of that command and
\* of no other, whatever datagrams come between, with one buffer for both
\* directions (megawifi.c:134-170).
THEOREM FunctionsKeepPromise == Spec => KeepsPromise
<1>1. Init => Service!RpcInit
  <2> SUFFICES ASSUME Init PROVE Service!RpcInit
    OBVIOUS
  <2>1. fun = "none" /\ timedOut = FALSE /\ cleaned = FALSE
    BY DEF Init, MwInit
  <2>2. Stage = "idle" /\ Requested = NoRequest /\ ~Good /\ ~Bad /\ ~Lost
    BY <2>1 DEF Stage, Requested, Good, Bad, Lost
  <2> QED BY <2>2 DEF Service!RpcInit, Requested, Good, Bad, Lost
<1>2. SyncInv /\ SyncInv' /\ [Next]_vars => [Service!RpcNext]_(Service!rpcVars)
  BY RefineStep DEF PromiseStep
<1> QED BY <1>1, <1>2, SyncInvariant, PTL DEF Spec, Service!RpcSpec, KeepsPromise
=============================================================================
