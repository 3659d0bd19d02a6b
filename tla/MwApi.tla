-------------------------------- MODULE MwApi --------------------------------
(***************************************************************************)
(* The functions of src/src/mw/megawifi.h in the hands of any program: it  *)
(* calls them in any order, with any time limits, as long as it keeps to   *)
(* what their comments ask: it sends on a channel it has opened, uses the  *)
(* HTTP channel for nothing else, and makes one synchronous call at once.  *)
(* The two functions that poll are left to module MidiClient.              *)
(*                                                                         *)
(* Most functions have one form: check that the module is there, check the *)
(* arguments, put a command into *d.cmd, run mw_command(), read the answer *)
(* out of *d.cmd.  What tells them apart is a record of set Functions.     *)
(***************************************************************************)
EXTENDS MegaWifi

CONSTANTS
    Http,       \* MW_HTTP_CH
    MaxCalls,   \* bound: functions called in a behaviour
    MaxParts    \* bound: frames that a packet of mw_send_sync() is sent in

ASSUME MwApiAssumption ==
    /\ Http \in Sockets
    /\ MaxCalls \in Nat
    /\ MaxParts \in Nat \ {0}

VARIABLES
    fun,     \* what the function called last gives its caller, "none" if no
             \* command was sent for it
    out,     \* mw_send_sync(): channel, frames left, and whether with a limit
    view,    \* history: the reply that the program holds a pointer into
    cleaned, \* history: an HTTP request was cleaned up before it was over
    calls    \* functions called so far

apiVars == <<fun, out, view, cleaned, calls>>
vars == <<mwVars, apiVars>>

NoView == NoRequest
NoPacket == [ch |-> Ctrl, left |-> 0, limited |-> FALSE]

-----------------------------------------------------------------------------
(* The functions.  asks: the command, named for what it does to a channel; *)
(* on: the channels it may be about; checked: it may refuse its arguments; *)
(* early: it has written to *d.cmd by then; gives: a status or a value, a  *)
(* pointer into *d.cmd, or the leave to send a certificate or to clean up. *)

Fn(name, asks, checked, gives) ==
    [name |-> name, asks |-> asks, on |-> {Ctrl}, ready |-> TRUE,
     checked |-> checked, early |-> FALSE, gives |-> gives]
OnSocket(name, asks, checked) ==
    [Fn(name, asks, checked, "value") EXCEPT !.on = Sockets \ {Http}]
OnHttp(name, asks, checked, gives) ==
    [Fn(name, asks, checked, gives) EXCEPT !.on = {Http}]
Early(f) == [f EXCEPT !.early = TRUE]
Unready(f) == [f EXCEPT !.ready = FALSE]

VersionFunctions ==
    {Fn("mw_version_get", "get", FALSE, "pointer"),
     Fn("mw_echo", "get", TRUE, "pointer"),
     Fn("mw_default_cfg_set", "set", FALSE, "value")}

ApCfgFunctions ==
    {Fn("mw_ap_cfg_set", "set", TRUE, "value"),
     Fn("mw_ap_cfg_get", "get", TRUE, "pointer")}

IpFunctions ==
    {Fn("mw_ip_cfg_set", "set", TRUE, "value"),
     Fn("mw_ip_cfg_get", "get", FALSE, "pointer"),
     Fn("mw_ip_current", "get", FALSE, "pointer"),
     Fn("mw_ap_scan", "get", FALSE, "pointer")}

AssocFunctions == {Fn("mw_ap_assoc", "set", FALSE, "value")}

\* mw_def_ap_cfg_get() does not look whether the module is there.
DefaultApFunctions ==
    {Fn("mw_ap_disassoc", "set", FALSE, "value"),
     Fn("mw_def_ap_cfg", "set", FALSE, "value"),
     Unready(Fn("mw_def_ap_cfg_get", "get", FALSE, "value"))}

SocketFunctions ==
    {OnSocket("mw_tcp_connect", "open", TRUE),
     OnSocket("mw_close", "close", FALSE),
     OnSocket("mw_tcp_bind", "open", FALSE),
     OnSocket("mw_udp_set", "open", TRUE)}

StatusFunctions ==
    {Fn("mw_sys_stat_get", "get", FALSE, "pointer"),
     Fn("mw_sock_stat_get", "get", FALSE, "value")}

TimeFunctions ==
    {Fn("mw_sntp_cfg_set", "set", FALSE, "value"),
     Fn("mw_sntp_cfg_get", "get", FALSE, "pointer"),
     Fn("mw_date_time_get", "get", FALSE, "pointer")}

FlashFunctions ==
    {Fn("mw_flash_id_get", "get", FALSE, "value"),
     Fn("mw_flash_sector_erase", "set", FALSE, "value"),
     Fn("mw_flash_write", "set", FALSE, "value"),
     Fn("mw_flash_read", "get", TRUE, "pointer")}

IdentityFunctions ==
    {Fn("mw_hrng_get", "get", FALSE, "pointer"),
     Fn("mw_bssid_get", "get", TRUE, "pointer"),
     Fn("mw_gamertag_set", "set", FALSE, "value"),
     Fn("mw_gamertag_get", "get", FALSE, "pointer")}

HttpSetFunctions ==
    {Fn(f, "set", TRUE, "value") :
        f \in {"mw_http_url_set", "mw_http_method_set", "mw_http_header_add",
               "mw_http_header_del"}}

\* mw_http_cleanup() sends the command of mw_http_finish().
HttpFunctions ==
    {OnHttp("mw_http_open", "open", FALSE, "value"),
     OnHttp("mw_http_finish", "http_finish", TRUE, "value"),
     Fn("mw_http_cert_query", "get", FALSE, "value"),
     OnHttp("mw_http_cert_set", "cert_set", TRUE, "certificate"),
     OnHttp("mw_http_cleanup", "http_finish", FALSE, "cleanup")}

ServerFunctions ==
    {Fn("mw_def_server_get", "get", FALSE, "pointer"),
     Fn("mw_def_server_set", "set", TRUE, "value"),
     Fn("mw_log", "set", TRUE, "value"),
     Fn("mw_factory_settings", "set", FALSE, "value")}

SaveFunctions ==
    {Fn("mw_cfg_save", "set", FALSE, "value"),
     Fn("mw_wifi_adv_cfg_get", "get", FALSE, "pointer"),
     Fn("mw_wifi_adv_cfg_set", "set", FALSE, "value")}

\* Strings are put together in *d.cmd, until one is too many.
GameFunctions ==
    {Early(Fn("mw_ga_endpoint_set", "set", TRUE, "value")),
     Early(Fn("mw_ga_key_value_add", "set", TRUE, "value")),
     Early(OnHttp("mw_ga_request", "open", TRUE, "value"))}

UpgradeFunctions == {Fn("mw_fw_upgrade", "set", FALSE, "value")}

Functions ==
    UNION {VersionFunctions, ApCfgFunctions, IpFunctions, AssocFunctions,
           DefaultApFunctions, SocketFunctions, StatusFunctions, TimeFunctions,
           FlashFunctions, IdentityFunctions, HttpSetFunctions, HttpFunctions,
           ServerFunctions, SaveFunctions, GameFunctions, UpgradeFunctions}

-----------------------------------------------------------------------------
(* The program calls a function.                                           *)

Init ==
    /\ MwInit
    /\ fun = "none"
    /\ out = NoPacket
    /\ view = NoView
    /\ cleaned = FALSE
    /\ calls = 0

\* The program has the processor, outside of the two functions that go on when
\* mw_command() has returned to them.
Free ==
    /\ call \in {"idle", "returned"}
    /\ ~stray
    /\ fun \notin {"certificate", "cleanup"}

Start ==
    /\ Free
    /\ calls < MaxCalls
    /\ calls' = calls + 1

\* The strings that did fit stay in *d.cmd, where a command may be sent from.
Scribble ==
    /\ Return(TRUE)
    /\ cmd' = NoRequest
    /\ tx' \in IF tx.busy /\ tx.req # NoRequest THEN {tx, [tx EXCEPT !.torn = TRUE]}
               ELSE {tx}
    /\ UNCHANGED <<ready, req, md, stray, timedOut, timerVars, rx, chOn, modVars>>

\* The module may have more to say of the HTTP request.
Unfinished == Http \in opened \/ \E i \in 1 .. Len(fromMod) : fromMod[i].ch = Http

Call(f) ==
    /\ Start
    /\ view' = NoView
    /\ cleaned' = (cleaned \/ (f.gives = "cleanup" /\ Unfinished))
    /\ \/ /\ f.ready => ready
          /\ \E ch \in f.on : Ask([cmd |-> f.asks, ch |-> ch])
          /\ fun' = f.gives
          /\ \E n \in IF f.gives = "certificate" THEN 0 .. MaxParts ELSE {0} :
                out' = [NoPacket EXCEPT !.ch = Http, !.left = n]
       \/ /\ f.checked \/ (f.ready /\ ~ready)
          /\ Refuse
          /\ fun' = "none"
          /\ UNCHANGED out
       \/ /\ f.early /\ ready
          /\ Scribble
          /\ fun' = "none"
          /\ UNCHANGED out

\* mw_power_off() does not wait for an answer, of which there is none.
PowerOff ==
    /\ Start
    /\ cmd' = [cmd |-> "power_off", ch |-> Ctrl]
    /\ tx' \in CmdSend(tx, cmd')
    /\ fun' = "none"
    /\ view' = NoView
    /\ timedOut' = TRUE
    /\ Return(err)
    /\ UNCHANGED <<ready, req, md, stray, timerVars, rx, chOn, modVars, out, cleaned>>

SleepCall == Start /\ Sleep /\ fun' = "none" /\ UNCHANGED <<out, view, cleaned>>

RecvCall ==
    /\ Start
    /\ \E limited \in BOOLEAN : RecvSync(limited)
    /\ fun' = "none"
    /\ UNCHANGED <<out, view, cleaned>>

SendCall ==
    /\ Start
    /\ \E ch \in chOn \ {Ctrl}, n \in 1 .. MaxParts, limited \in BOOLEAN :
          /\ SendSync(ch, limited)
          /\ out' = [ch |-> ch, left |-> n, limited |-> limited]
    /\ fun' = "none"
    /\ UNCHANGED <<view, cleaned>>

\* The callback in which the program runs returns to the outermost loop().
Leave ==
    /\ Free
    /\ call = "returned"
    /\ call' = "idle"
    /\ UNCHANGED <<ready, req, post, err, md, stray, timedOut, timerVars, linkVars,
                   modVars, apiVars>>

Program ==
    \/ \E f \in Functions : Call(f)
    \/ PowerOff \/ SleepCall \/ RecvCall \/ SendCall \/ Leave

-----------------------------------------------------------------------------
(* A function goes on after its wait.                                      *)

\* What the caller is given; a certificate that was refused is not sent.
CommandReturns ==
    /\ CommandDone
    /\ view' = IF Succeeded /\ fun = "pointer" THEN cmd ELSE NoView
    /\ fun' = IF fun = "certificate" /\ ~Succeeded THEN "value" ELSE fun
    /\ UNCHANGED <<out, cleaned, calls>>

\* mw_send_sync(): the next part of the packet, unless one failed.
SendPart ==
    /\ Woken("send")
    /\ post = OK
    /\ out.left > 1
    /\ out' = [out EXCEPT !.left = @ - 1]
    /\ SendSync(out.ch, out.limited)
    /\ UNCHANGED <<fun, view, cleaned, calls>>

SendReturns ==
    /\ post = OK => out.left <= 1
    /\ DataDone("send")
    /\ out' = NoPacket
    /\ UNCHANGED <<fun, view, cleaned, calls>>

\* mw_http_cert_set() sends the certificate, and disables the channel whatever
\* came of it.
InCertSet == call = "returned" /\ ~stray /\ fun = "certificate"

CertSend ==
    /\ InCertSet
    /\ out.left > 0
    /\ SendSync(Http, FALSE)
    /\ UNCHANGED apiVars

CertReturns ==
    /\ InCertSet
    /\ out.left = 0
    /\ chOn' = chOn \ {Http}
    /\ fun' = "value"
    /\ Return(FALSE)
    /\ UNCHANGED <<ready, req, md, stray, timedOut, timerVars, tx, rx, cmd, modVars,
                   out, view, cleaned, calls>>

\* mw_http_cleanup() disables the channel before it looks at the result.
CleanupReturns ==
    /\ call = "returned"
    /\ ~stray
    /\ fun = "cleanup"
    /\ chOn' = chOn \ {Http}
    /\ fun' = "value"
    /\ UNCHANGED <<ready, callVars, timerVars, tx, rx, cmd, modVars,
                   out, view, cleaned, calls>>

Continue ==
    \/ (SleepDone \/ CommandData \/ DataDone("recv")) /\ UNCHANGED apiVars
    \/ CommandReturns \/ SendPart \/ SendReturns \/ CertSend \/ CertReturns
    \/ CleanupReturns

\* In the module, an HTTP request is over: it has passed on the whole body, or
\* the server is gone.
BodyEnds ==
    /\ Http \in opened
    /\ opened' = opened \ {Http}
    /\ UNCHANGED <<ready, callVars, timerVars, linkVars, asked, fromMod, mixed, apiVars>>

Timers == CmdTout /\ UNCHANGED apiVars
Frames == (CmdRecv \/ Sent) /\ UNCHANGED apiVars

Next ==
    \/ Program \/ Continue \/ Timers \/ Frames
    \/ Module /\ UNCHANGED apiVars
    \/ BodyEnds

Spec == Init /\ [][Next]_vars

\* A function that can go on does, a running timer comes due, and the module
\* takes the bytes it is sent.  The program need not call anything.
FairSpec ==
    /\ Spec
    /\ WF_vars(Continue)
    /\ WF_vars(Timers)
    /\ WF_vars(Sent /\ UNCHANGED apiVars)

-----------------------------------------------------------------------------
(* Properties.                                                             *)

\* The answer to the command under way, where it has come to so far.
Answers(f) == f \in Frame /\ f.re = req
Answered == Answers(cmd) \/ \E i \in 1 .. Len(fromMod) : Answers(fromMod[i])
Outcome == \E f \in {cmd} \cup {fromMod[i] : i \in 1 .. Len(fromMod)} :
              Answers(f) /\ f.ok

Stage == IF fun = "none" THEN "idle"
         ELSE IF call # "command" THEN "over"
         ELSE IF Answered THEN "done" ELSE "called"

Service == INSTANCE Rpc WITH
    Requests <- Request,
    stage <- Stage,
    req <- IF fun = "none" THEN NoRequest ELSE req,
    good <- Stage = "done" /\ Outcome,
    failed <- Stage = "over" /\ err,
    lost <- timedOut \/ cleaned

\* Until one gives up, or an HTTP request is cleaned up too early, every function
\* that sends a command does what module Rpc says: datagrams that come between,
\* answers to earlier commands and the single buffer for both directions do not
\* mix up calls.
KeepsPromise == Service!RpcSpec

\* Until a function gives up, or an HTTP request is cleaned up too early, the
\* channels the console has enabled are those of the sockets that are open in
\* the module, whenever the program could use them; that of HTTP is enabled as
\* long as the module may send on it.
ChannelsAgree ==
    ~timedOut /\ ~cleaned /\ call \in {"idle", "returned", "recv"} =>
        /\ chOn \ {Ctrl, Http} = opened \ {Http}
        /\ Http \in opened => Http \in chOn
        /\ ready <=> Ctrl \in chOn

\* No frame of a channel that the console has not enabled reaches a receiver
\* that is armed (the data link would lose its place), although sockets are
\* opened and closed by one side before the other.
DataOnOpenChannel ==
    ~timedOut /\ ~cleaned /\ LoopRuns /\ rx.cb # "none" /\ fromMod # <<>> =>
        Head(fromMod).ch \in chOn

\* A pointer that a function returned into *d.cmd shows the same reply until the
\* program sends another command, even when functions had given up before.
PointerStays == view # NoView => cmd = view

\* No time limit outlives the function that set it.
LimitOwned == timer.on => Pending

\* A packet that is sent without a limit is sent, whatever its channel: until a
\* function gives up, lsd_send() never refuses a frame behind the back of
\* mw_send_sync(), which would wait for its callback for ever.
SendEnds == call = "send" ~> call # "send" \/ timedOut
=============================================================================
