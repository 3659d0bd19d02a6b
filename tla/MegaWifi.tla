------------------------------ MODULE MegaWifi ------------------------------
(***************************************************************************)
(* The command layer of src/src/mw/megawifi.c: synchronous functions built *)
(* from an asynchronous data link, one timer and loop_pend().  A function  *)
(* arms the receiver and the timer and waits; whichever callback runs      *)
(* first posts the value that ends the wait.  One buffer, *d.cmd, holds    *)
(* the command that is sent and whatever frame is received.                *)
(*                                                                         *)
(* The data link moves whole frames here, in order and without loss: that  *)
(* is what module LsdLink shows of src/src/mw/lsd.c (a datagram larger     *)
(* than the buffer comes in pieces, which are frames of their own here).   *)
(* Who calls these functions: the program of the repository in module      *)
(* MidiClient, any program at all in module MwApi.                         *)
(*                                                                         *)
(* An operator named X_Bug is X with a plausible mistake in it.  It is not *)
(* part of the specification: it stands for X to see which property fails. *)
(***************************************************************************)
EXTENDS Integers, Sequences, FiniteSets

CONSTANTS
    Sockets,    \* channels of the program's sockets
    PollTout,   \* MW_STAT_POLL_TOUT, frames
    WaitTouts,  \* arguments tout_frames of the functions that poll
    Word,       \* values of an int16_t: 65536
    MaxData     \* bound: datagrams on their way from the module

Ctrl == 0               \* MW_CTRL_CH
Channels == Sockets \cup {Ctrl}

\* What ends a wait: enum cmd_stat and the values that the polls post.
NoPost == 0
OK == 1
Timeout == -1
Proto == -2
Posts == {OK, Timeout, Proto}

ASSUME MegaWifiAssumption ==
    /\ Sockets \subseteq Nat \ {Ctrl}
    /\ PollTout \in Nat \ {0}
    /\ WaitTouts \subseteq Nat
    /\ Word \in Nat \ {0} /\ Word % 2 = 0
    /\ MaxData \in Nat

\* Commands, named for what they are about: those that the program of the
\* repository sends by name, the others by what they do to a channel.
Commands == {"version", "ap_join", "sys_stat", "ip_current", "sock_stat",
             "get", "set", "open", "close", "http_finish", "cert_set",
             "power_off"}
Request == [cmd : Commands, ch : Channels]
NoRequest == [cmd |-> "none", ch |-> Ctrl]

\* A frame as the console sees it: re is the command it answers, err that the
\* data link reports an error instead.
Frame == [ch : Channels, re : Request \cup {NoRequest}, ok : BOOLEAN,
          err : BOOLEAN]

Waits == {"sleep", "command", "assoc", "sock", "recv", "send"}
TimerCbs == {"tout", "assoc", "sock"}
RecvCbs == {"none", "cmd", "assoc", "sock"}

VARIABLES
    ready,    \* d.mw_ready
    call,     \* function that waits in loop_pend(), or "returned" from one,
              \* or "idle": the program is back in its outermost loop()
    req,      \* the request of that function
    post,     \* the value a callback has posted to it
    err,      \* the error it returned
    md,       \* recv_metadata.ch
    cmd,      \* contents of *d.cmd: the last request or frame put there
    timer,    \* d.timer: running, timer_cb and auto_reload
    tout,     \* d.tout_frames
    poll,     \* d.stat_poll
    monitor,  \* d.monitor_ch
    tx,       \* frame under way: its request if it is a command, whether
              \* *d.cmd was written to meanwhile, whether cmd_send_cb runs
    rx,       \* callback that lsd_recv() armed, and whether into *d.cmd
    chOn,     \* channels enabled in the data link
    asked,    \* commands the module has received and not answered
    fromMod,  \* frames on their way from the module
    opened,   \* sockets open in the module
    mixed,    \* history: the module has passed on a datagram
    stray,    \* history: a loop_post() without a loop_pend()
    timedOut  \* history: a command was given up before its reply came

callVars  == <<call, req, post, err, md, stray, timedOut>>
timerVars == <<timer, tout, poll, monitor>>
linkVars  == <<tx, rx, chOn, cmd>>
modVars   == <<asked, fromMod, opened, mixed>>
mwVars    == <<ready, callVars, timerVars, linkVars, modVars>>

\* Storing an int in an int16_t.
Int16(n) == ((n + Word \div 2) % Word) - Word \div 2

\* loop() runs: the outermost one, or that of a loop_pend().
Pending  == call \in Waits /\ post = NoPost
LoopRuns == ~stray /\ (Pending \/ call = "idle")

-----------------------------------------------------------------------------
(* Helpers of the callbacks and of the functions that wait.                *)

\* loop_post(): its guard does not see that nothing is pending.
Post(v) ==
    IF Pending THEN post' = v /\ UNCHANGED stray
               ELSE stray' = TRUE /\ UNCHANGED post

\* mw_cmd_send(d.cmd, NULL, NULL), once request r is in *d.cmd, leaves the
\* transmitter t in one of these states.  A busy one refuses the command, and
\* nobody looks at the result; what it was sending from *d.cmd may be damaged.
\* Without the UART the control channel was never enabled.
CmdSend(t, r) ==
    IF Ctrl \notin chOn THEN {t}
    ELSE IF ~t.busy THEN {[busy |-> TRUE, req |-> r, torn |-> FALSE, cb |-> FALSE]}
    ELSE IF t.req \in {r, NoRequest} THEN {t}
    ELSE {t, [t EXCEPT !.torn = TRUE]}

\* A frame that is received into *d.cmd while a command is sent from there may
\* replace bytes that were still to be sent.
Overwritten(t) ==
    IF rx.cmd /\ t.busy /\ t.req # NoRequest
    THEN {t, [t EXCEPT !.torn = TRUE]} ELSE {t}

Idle == [cb |-> "none", cmd |-> FALSE]
Armed(cb) == [cb |-> cb, cmd |-> TRUE]
TimerOff == [timer EXCEPT !.on = FALSE]
TimerOn  == [timer EXCEPT !.on = TRUE]

Wait(f) == call' = f /\ post' = NoPost

Return(e) == call' = "returned" /\ err' = e /\ post' = NoPost

-----------------------------------------------------------------------------
(* mw_init().                                                              *)

\* Without the UART mw_init() fails, which main() does not look at.
MwInit ==
    /\ ready \in BOOLEAN
    /\ call = "idle"
    /\ req = NoRequest
    /\ post = NoPost
    /\ err = FALSE
    /\ md = Ctrl
    /\ cmd = NoRequest
    /\ timer = [on |-> FALSE, cb |-> "tout", reload |-> FALSE]
    /\ tout = 0
    /\ poll = FALSE
    /\ monitor = Ctrl
    /\ tx = [busy |-> FALSE, req |-> NoRequest, torn |-> FALSE, cb |-> FALSE]
    /\ rx = Idle
    /\ chOn = IF ready THEN {Ctrl} ELSE {}
    /\ asked = <<>>
    /\ fromMod = <<>>
    /\ opened = {}
    /\ mixed = FALSE
    /\ stray = FALSE
    /\ timedOut = FALSE

-----------------------------------------------------------------------------
(* The functions, up to their loop_pend().                                 *)

\* mw_sleep(), and the two waits of mw_detect().
Sleep ==
    /\ Wait("sleep")
    /\ timer' = TimerOn
    /\ UNCHANGED <<ready, req, err, md, stray, timedOut, tout, poll, monitor,
                   linkVars, modVars>>

\* mw_command() does not start the timer.
Command_Bug(r) ==
    /\ ready
    /\ Wait("command")
    /\ req' = r
    /\ cmd' = r
    /\ tx' \in CmdSend(tx, r)
    /\ rx' = Armed("cmd")
    /\ UNCHANGED <<ready, err, md, stray, timedOut, timerVars, chOn, modVars>>

\* The channel in an automatic variable: nobody has written it yet when data
\* that was being sent before ends the wait.
Unwritten == IF tx.busy /\ tx.cb THEN Channels ELSE {md}

\* mw_command() up to its first loop_pend().
Ask(r) ==
    /\ Wait("command")
    /\ req' = r
    /\ cmd' = r
    /\ tx' \in CmdSend(tx, r)
    /\ rx' = Armed("cmd")
    /\ timer' = TimerOn
    /\ md' \in Unwritten
    /\ UNCHANGED <<ready, err, stray, timedOut, tout, poll, monitor, chOn, modVars>>

\* A function returns without having asked anything.
Refuse ==
    /\ Return(TRUE)
    /\ UNCHANGED <<ready, req, md, stray, timedOut, timerVars, linkVars, modVars>>

\* The functions that send a command.
Command(r) == IF ready THEN Ask(r) ELSE Refuse

\* mw_ap_assoc_wait(), mw_sock_conn_wait(): a query, and the command timer
\* turned into a timer that polls for its reply.
PollWait(f, r, t) ==
    /\ Wait(f)
    /\ req' = r
    /\ cmd' = r
    /\ tx' \in CmdSend(tx, r)
    /\ tout' = Int16(t)
    /\ poll' = TRUE
    /\ monitor' = IF f = "sock" THEN r.ch ELSE monitor
    /\ timer' = [on |-> TRUE, cb |-> f, reload |-> TRUE]
    /\ UNCHANGED <<ready, err, md, stray, timedOut, rx, chOn, modVars>>

AssocWait == \E t \in WaitTouts : PollWait("assoc", [cmd |-> "sys_stat", ch |-> Ctrl], t)
SockWait(ch) == \E t \in WaitTouts : PollWait("sock", [cmd |-> "sock_stat", ch |-> ch], t)

\* The frame is received into *d.cmd.
RecvSync_Bug(limited) ==
    /\ Wait("recv")
    /\ rx' = Armed("cmd")
    /\ timer' = IF limited THEN TimerOn ELSE timer
    /\ UNCHANGED <<ready, req, err, md, stray, timedOut, tout, poll, monitor, tx,
                   chOn, cmd, modVars>>

\* mw_recv_sync(), into the caller's buffer.
RecvSync(limited) ==
    /\ Wait("recv")
    /\ rx' = [cb |-> "cmd", cmd |-> FALSE]
    /\ timer' = IF limited THEN TimerOn ELSE timer
    /\ UNCHANGED <<ready, req, err, md, stray, timedOut, tout, poll, monitor, tx,
                   chOn, cmd, modVars>>

\* One round of mw_send_sync(): a packet, or the part of it that fits a frame.
\* A busy transmitter refuses it, and so does a disabled channel, unnoticed.
SendSync(ch, limited) ==
    /\ Wait("send")
    /\ tx' = IF tx.busy \/ ch \notin chOn THEN tx
             ELSE [busy |-> TRUE, req |-> NoRequest, torn |-> FALSE, cb |-> TRUE]
    /\ timer' = IF limited THEN TimerOn ELSE timer
    /\ UNCHANGED <<ready, req, err, md, stray, timedOut, tout, poll, monitor, rx,
                   chOn, cmd, modVars>>

\* uart_reset_fifos(): frames that were being received are lost, the next one
\* may lose its beginning.  A command that was being sent is lost at worst.
Cut(s) == UNION {{SubSeq(s, k, Len(s)),
                  IF k > Len(s) THEN <<>>
                  ELSE [SubSeq(s, k, Len(s)) EXCEPT ![1].err = TRUE]}
                 : k \in 1 .. Len(s) + 1}

ResetFifos ==
    /\ fromMod' \in Cut(fromMod)
    /\ UNCHANGED <<ready, callVars, timerVars, tx, rx, chOn, cmd, asked, opened,
                   mixed>>

-----------------------------------------------------------------------------
(* Callbacks of the receiver, from lsd_process().                          *)

\* The next frame completes in the receiver, whose callback is cb.
Arrived == Head(fromMod)
Failed == Arrived.err \/ Arrived.ch \notin chOn

Complete(cb) ==
    /\ LoopRuns
    /\ rx.cb = cb
    /\ fromMod # <<>>
    /\ fromMod' = Tail(fromMod)
    /\ rx' = Idle

\* cmd_recv_cb().
CmdRecv ==
    /\ Complete("cmd")
    /\ tx' \in Overwritten(tx)
    /\ cmd' = IF rx.cmd THEN Arrived ELSE cmd
    /\ timer' = TimerOff
    /\ IF Failed
       THEN Post(Proto) /\ UNCHANGED md
       ELSE Post(OK) /\ md' = Arrived.ch
    /\ UNCHANGED <<ready, call, req, err, timedOut, tout, poll, monitor, chOn,
                   asked, opened, mixed>>

\* A poll looks at the bytes of any answer, whatever it answers: they may say
\* ready, which ends the wait.
StatReady ==
    /\ ~Failed
    /\ Arrived.ch = Ctrl
    /\ poll
    /\ tx' \in Overwritten(tx)
    /\ cmd' = Arrived
    /\ timer' = TimerOff
    /\ poll' = FALSE
    /\ Post(OK)
    /\ UNCHANGED <<ready, call, req, err, md, timedOut, tout, monitor, chOn,
                   asked, opened, mixed>>

\* An answer that does not, a datagram or an error makes it ask again.
StatAgain(r) ==
    /\ \E t \in Overwritten(tx) : tx' \in CmdSend(t, r)
    /\ cmd' = r
    /\ UNCHANGED <<ready, callVars, timerVars, chOn, asked, opened, mixed>>

\* stat_reply_cb(), sock_stat_reply_cb().
AssocReply ==
    /\ Complete("assoc")
    /\ StatReady \/ StatAgain([cmd |-> "sys_stat", ch |-> Ctrl])

SockReply ==
    /\ Complete("sock")
    /\ StatReady \/ StatAgain([cmd |-> "sock_stat", ch |-> monitor])

\* The timer goes on.
Sent_Bug ==
    /\ LoopRuns
    /\ tx.busy
    /\ tx' = [tx EXCEPT !.busy = FALSE]
    /\ asked' = IF tx.req = NoRequest THEN asked ELSE Append(asked, tx.req)
    /\ IF tx.cb THEN Post(OK) ELSE UNCHANGED <<post, stray>>
    /\ UNCHANGED <<ready, call, req, err, md, timedOut, timerVars, rx, chOn, cmd,
                   fromMod, opened, mixed>>

\* The transmitter is done: cmd_send_cb() for data, nothing for a command.
Sent ==
    /\ LoopRuns
    /\ tx.busy
    /\ tx' = [tx EXCEPT !.busy = FALSE]
    /\ asked' = IF tx.req = NoRequest THEN asked ELSE Append(asked, tx.req)
    /\ IF tx.cb THEN timer' = TimerOff /\ Post(OK)
                ELSE UNCHANGED <<timer, post, stray>>
    /\ UNCHANGED <<ready, call, req, err, md, timedOut, tout, poll, monitor,
                   rx, chOn, cmd, fromMod, opened, mixed>>

-----------------------------------------------------------------------------
(* Callbacks of the timer, from loop().  Frames are counted by the loop    *)
(* (module Loop); here a running timer comes due at any time.              *)

Due(cb) ==
    /\ LoopRuns
    /\ timer.on
    /\ timer.cb = cb

\* cmd_tout_cb().
CmdTout ==
    /\ Due("tout")
    /\ timer' = IF timer.reload THEN timer ELSE TimerOff
    /\ timedOut' = (timedOut \/ call # "sleep")
    /\ Post(Timeout)
    /\ UNCHANGED <<ready, call, req, err, md, tout, poll, monitor, linkVars,
                   modVars>>

\* The flag that a wait is under way stays set.
PollOver_Bug ==
    /\ tout # 0
    /\ Int16(tout - PollTout) <= 0
    /\ tout' = Int16(tout - PollTout)
    /\ timer' = TimerOff
    /\ Post(Timeout)
    /\ UNCHANGED <<poll, rx>>

\* The time is up.  The receiver stays armed.
PollOver ==
    /\ tout # 0
    /\ Int16(tout - PollTout) <= 0
    /\ tout' = Int16(tout - PollTout)
    /\ poll' = FALSE
    /\ timer' = TimerOff
    /\ Post(Timeout)
    /\ UNCHANGED rx

\* The receiver is armed for the next reply.
PollAgain(cb) ==
    /\ tout = 0 \/ Int16(tout - PollTout) > 0
    /\ tout' = IF tout = 0 THEN 0 ELSE Int16(tout - PollTout)
    /\ rx' = Armed(cb)
    /\ UNCHANGED <<poll, timer, post, stray>>

\* The timer asks again instead of the reply, and both callbacks ask the same.
PollDue_Bug(cb) ==
    /\ Due(cb)
    /\ PollOver \/ PollAgain(cb)
    /\ cmd' = [cmd |-> "sys_stat", ch |-> Ctrl]
    /\ tx' \in CmdSend(tx, cmd')
    /\ UNCHANGED <<ready, call, req, err, md, timedOut, monitor, chOn, modVars>>

\* assoc_poll_timer_cb(), sock_poll_timer_cb().
PollDue(cb) ==
    /\ Due(cb)
    /\ PollOver \/ PollAgain(cb)
    /\ UNCHANGED <<ready, call, req, err, md, timedOut, monitor, tx, chOn, cmd,
                   modVars>>

-----------------------------------------------------------------------------
(* The functions, from the return of loop_pend() on.                       *)

Woken(f) == ~stray /\ call = f /\ post # NoPost

SleepDone ==
    /\ Woken("sleep")
    /\ Return(FALSE)
    /\ UNCHANGED <<ready, req, md, stray, timedOut, timerVars, linkVars, modVars>>

\* What *d.cmd holds is taken for the answer: only a frame can say that all is
\* well.  A callback of data that was sent late may end the wait of a command,
\* which then looks at its own request.
SaysOk == cmd \in Frame /\ cmd.ok

\* mw_command(): a reply, an error or a timeout.
Succeeded == post = OK /\ md = Ctrl /\ SaysOk

\* mw_http_cert_set() does not enable its channel.
Enables_Bug(r) == r.cmd = "open"

\* What a function then does to its channel.
Enables(r) == r.cmd \in {"open", "cert_set"}
Disables(r) == r.cmd = "close"

\* The result of mw_close() is not looked at.
ChannelsAfter_Bug(good) ==
    CASE Disables(req)        -> chOn \ {req.ch}
      [] Enables(req) /\ good -> chOn \cup {req.ch}
      [] OTHER                -> chOn

ChannelsAfter(good) ==
    CASE Enables(req) /\ good  -> chOn \cup {req.ch}
      [] Disables(req) /\ good -> chOn \ {req.ch}
      [] OTHER                 -> chOn

\* The channel is not looked at.
CommandDone_Bug ==
    /\ Woken("command")
    /\ LET good == post = OK /\ SaysOk
       IN  /\ Return(~good)
           /\ chOn' = ChannelsAfter(good)
    /\ UNCHANGED <<ready, req, md, stray, timedOut, timerVars, tx, rx, cmd, modVars>>

\* The channel of the socket is left disabled.
CommandDone_Bug2 ==
    /\ Woken("command")
    /\ post = OK => md = Ctrl
    /\ Return(~Succeeded)
    /\ UNCHANGED <<ready, req, md, stray, timedOut, timerVars, linkVars, modVars>>

CommandDone ==
    /\ Woken("command")
    /\ post = OK => md = Ctrl
    /\ Return(~Succeeded)
    /\ chOn' = ChannelsAfter(Succeeded)
    /\ UNCHANGED <<ready, req, md, stray, timedOut, timerVars, tx, rx, cmd, modVars>>

\* mw_command(): data came while waiting for a reply.  No cmd_data_cb is set:
\* the data is dropped and the wait starts over.
CommandData ==
    /\ Woken("command")
    /\ post = OK
    /\ md # Ctrl
    /\ Wait("command")
    /\ rx' = Armed("cmd")
    /\ timer' = TimerOn
    /\ UNCHANGED <<ready, req, err, md, stray, timedOut, tout, poll, monitor, tx,
                   chOn, cmd, modVars>>

\* The timer keeps the callback that polls.
PollDone_Bug(f) ==
    /\ Woken(f)
    /\ Return(post < 0)
    /\ UNCHANGED <<ready, req, md, stray, timedOut, timerVars, linkVars, modVars>>

\* mw_ap_assoc_wait(), mw_sock_conn_wait() restore the timer and return.
PollDone(f) ==
    /\ Woken(f)
    /\ Return(post < 0)
    /\ timer' = [timer EXCEPT !.cb = "tout", !.reload = FALSE]
    /\ UNCHANGED <<ready, req, md, stray, timedOut, tout, poll, monitor,
                   linkVars, modVars>>

\* mw_recv_sync(), mw_send_sync().
DataDone(f) ==
    /\ Woken(f)
    /\ Return(post # OK)
    /\ UNCHANGED <<ready, req, md, stray, timedOut, timerVars, linkVars, modVars>>

-----------------------------------------------------------------------------
(* The WiFi module, which is not part of the repository.  It takes         *)
(* commands in order, answers them or not, and whenever it pleases; it     *)
(* takes a damaged command like any other, to refuse or to ignore it too.  *)
(* A command to sleep is the last that it takes.                           *)

Reply(r, ok) == [ch |-> Ctrl, re |-> r, ok |-> ok, err |-> FALSE]
Data(ch) == [ch |-> ch, re |-> NoRequest, ok |-> TRUE, err |-> FALSE]

Awake == asked # <<>> => Head(asked).cmd # "power_off"
Takes == Awake /\ asked # <<>> /\ asked' = Tail(asked)

\* The commands that open and close a socket do so there if it agrees.
Opened(r, ok) ==
    CASE r.cmd = "open" /\ ok  -> opened \cup {r.ch}
      [] r.cmd = "close" /\ ok -> opened \ {r.ch}
      [] OTHER                 -> opened

\* It takes no certificate while an HTTP request is open; whatever else it is
\* asked, it may refuse.
Answer ==
    /\ Takes
    /\ LET r == Head(asked)
       IN  \E ok \in BOOLEAN :
              /\ r.cmd = "cert_set" /\ r.ch \in opened => ~ok
              /\ fromMod' = Append(fromMod, Reply(r, ok))
              /\ opened' = Opened(r, ok)
    /\ UNCHANGED <<ready, callVars, timerVars, linkVars, mixed>>

Ignore ==
    /\ Takes
    /\ UNCHANGED <<ready, callVars, timerVars, linkVars, fromMod, opened, mixed>>

Datagram ==
    /\ Awake
    /\ Cardinality({i \in 1 .. Len(fromMod) : fromMod[i].re = NoRequest}) < MaxData
    /\ mixed' = TRUE
    /\ \E ch \in opened : fromMod' = Append(fromMod, Data(ch))
    /\ UNCHANGED <<ready, callVars, timerVars, linkVars, asked, opened>>

Module == Answer \/ Ignore \/ Datagram

-----------------------------------------------------------------------------

Callbacks ==
    \/ CmdRecv \/ AssocReply \/ SockReply \/ Sent
    \/ CmdTout \/ PollDue("assoc") \/ PollDue("sock")

Returns ==
    \/ SleepDone \/ CommandDone \/ CommandData
    \/ PollDone("assoc") \/ PollDone("sock")
    \/ DataDone("recv") \/ DataDone("send")

MwNext == Callbacks \/ Returns \/ Module
=============================================================================
