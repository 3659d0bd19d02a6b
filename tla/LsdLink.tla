------------------------------- MODULE LsdLink -------------------------------
(***************************************************************************)
(* A data link from its sender to its receiver.  Both ends run the same    *)
(* protocol, and within an end the two directions share only lsd_process() *)
(* and the channel table, so one end whose transmit line is wired to its   *)
(* own receive line stands for the two: every frame sent is received.      *)
(*                                                                         *)
(* The UART drives RTS/CTS by itself (uart_init(), 16c550.c:13-19): a byte *)
(* waits at the sender while the receive FIFO is full, and none is lost.   *)
(***************************************************************************)
EXTENDS Lsd

CONSTANTS MaxFrames,   \* bound: frames sent in a behaviour
          Error        \* report of an error to the receive callback

ASSUME LinkAssumption == MaxFrames \in Nat

VARIABLES sent,    \* history: the frames lsd_send() accepted
          recvd    \* history: what the receive callback was given

history == <<sent, recvd>>
vars == <<lsdVars, history>>

Init ==
    /\ LsdInit
    /\ sent = <<>>
    /\ recvd = <<>>

-----------------------------------------------------------------------------

AppSend ==
    /\ Len(sent) < MaxFrames
    /\ \E f \in Frames, cb \in BOOLEAN :
          /\ Send(f, cb)
          /\ sent' = Append(sent, f)
    /\ UNCHANGED recvd

AppRecv ==
    /\ \E n \in BufLens, same \in BOOLEAN : Recv(n, same)
    /\ UNCHANGED history

AppEnable ==
    /\ \E ch \in Channel : ChEnable(ch)
    /\ UNCHANGED history

AppDisable ==
    /\ \E ch \in ChOff : ChDisable(ch)
    /\ UNCHANGED history

Quiet ==
    /\ \/ RecvStx \/ RecvFlagAgain \/ RecvHeader
       \/ RecvLen \/ RecvLastByte \/ RecvByte
       \/ Process
    /\ UNCHANGED history

Receive ==
    /\ Received
    /\ recvd' = Append(recvd, [ch |-> rx.ch, data |-> rx'.data,
                               last |-> rx'.stat = "idle"])
    /\ UNCHANGED sent

Fail ==
    /\ RecvBadChannel \/ RecvBadEtx
    /\ recvd' = Append(recvd, Error)
    /\ UNCHANGED sent

Callback ==
    /\ CallbackReturn \/ CallbackJump
    /\ UNCHANGED history

Line ==
    /\ txf # <<>>
    /\ Len(rxf) < FifoLen
    /\ rxf' = Append(rxf, Head(txf))
    /\ txf' = Tail(txf)
    /\ UNCHANGED <<tx, rx, chOn, proc, history>>

Next ==
    \/ AppSend \/ AppRecv \/ AppEnable \/ AppDisable
    \/ Quiet \/ Receive \/ Fail \/ Callback \/ Line

Spec == Init /\ [][Next]_vars

\* The program calls lsd_process() again and again, its callbacks end, it asks
\* for the next frame when it is given one, and the line moves.
Listen == rx.stat \notin RxBusy /\ AppRecv

FairSpec ==
    /\ Spec
    /\ WF_vars(Quiet \/ Receive \/ Fail)
    /\ WF_vars(Callback)
    /\ WF_vars(Line)
    /\ SF_vars(Listen)

-----------------------------------------------------------------------------
(* Properties.                                                             *)

\* The frame that is due and how much of it was delivered, from the reports.
Start == [frame |-> 1, off |-> 0]

Report(a, r) ==
    IF r = Error THEN [frame |-> a.frame + 1, off |-> 0]
    ELSE IF r.last THEN [frame |-> a.frame + 1, off |-> 0]
    ELSE [a EXCEPT !.off = @ + Len(r.data)]

Reported(s) == FoldLeft(Report, Start, s)

at == Reported(recvd)

Queue == INSTANCE FrameQueue

\* The link is a queue of frames: in order, whole, once each, in pieces when
\* the receiver's buffers are short, whatever is interleaved with the bytes.
LinkIsQueue == Queue!QueueSpec

\* A burst fits the transmit FIFO, though a callback may start a new frame in
\* the middle of it or leave lsd_process() with the FIFO half full.
TxFifoFits == Len(txf) <= FifoLen

\* No byte is stored past the end of the receiver's buffer: reception stops
\* when "the available buffer space" is filled (lsd.c:113-118).
StoreInBuffer == rx.stat = "data" => Len(rx.data) < rx.max

\* An accepted frame is reported to the receiver.
EveryFrameReported ==
    \A k \in 1 .. MaxFrames :
       Len(sent) >= k ~> at.frame > k

=============================================================================
