--------------------------------- MODULE Lsd ---------------------------------
(***************************************************************************)
(* One end of the Local Symmetric Data-link (src/src/mw/lsd.c) and the     *)
(* FIFOs of its UART (src/src/mw/16c550.h).  A frame on the line is        *)
(*     Flag, channel and high length, low length, payload, Flag            *)
(* with no escaping.  lsd_process() drains the receive FIFO, then fills    *)
(* the transmit FIFO, until there is nothing to do; the callbacks run in   *)
(* the middle of it, may call the API and may leave it by a longjmp.       *)
(*                                                                         *)
(* The line between the FIFOs belongs to the module that composes the ends.*)
(* An operator named X_Bug is X with a plausible mistake in it; it is not  *)
(* part of the specification.                                              *)
(***************************************************************************)
EXTENDS Integers, Sequences, SequencesExt

CONSTANTS
    Flag,      \* LSD_STX_ETX
    Sync,      \* the byte lsd_line_sync() sends
    LowBase,   \* values of the low length byte: 256
    HighBase,  \* values of the high length bits: 16
    MaxCh,     \* LSD_MAX_CH
    FifoLen,   \* UART_TX_FIFO_LEN and the depth of the receive FIFO
    Stray,     \* bytes that may follow an empty payload in memory
    Junk,      \* contents of a buffer nothing was received into
    Frames,    \* frames the program sends: [ch, data]
    BufLens,   \* sizes of the buffers given to lsd_recv()
    Rearm,     \* lsd_recv() in the middle of a frame: TRUE with the buffer in
               \* use, FALSE with another one
    ChOff      \* channels lsd_ch_disable() is called on

MaxLen == HighBase * LowBase - 1     \* LSD_MAX_LEN
Channel == 0 .. MaxCh - 1

ASSUME LsdAssumption ==
    /\ LowBase \in Nat \ {0}
    /\ HighBase \in Nat \ {0}
    /\ MaxCh \in Nat \ {0}
    /\ FifoLen \in Nat \ {0}
    /\ Flag \in Nat
    /\ Flag \div HighBase >= MaxCh     \* no header of a channel is a Flag
    /\ Sync \in Nat \ {Flag}
    /\ Stray \subseteq Nat
    /\ Junk \in Nat
    /\ BufLens \subseteq Nat \ {0}
    /\ Rearm \subseteq BOOLEAN
    /\ Frames \subseteq [ch : Channel, data : Seq(Nat)]
    /\ ChOff \subseteq Channel

VARIABLES
    tx,    \* d.tx: the send state machine
    rx,    \* d.rx: the receive state machine
    chOn,  \* the channels enabled in d.ch_enable
    txf,   \* transmit FIFO
    rxf,   \* receive FIFO
    proc   \* where lsd_process() is, and its locals

lsdVars == <<tx, rx, chOn, txf, rxf, proc>>

RxBusy == {"stx", "ch_lenh", "len", "data", "etx"}    \* > LSD_RECV_IDLE
TxBusy == {"stx", "ch_lenh", "len", "data", "etx"}    \* > LSD_SEND_IDLE
ProcAt == {"out", "rx", "tx", "rx_cb", "tx_cb"}

\* d.rx.buf up to d.rx.pos is data; d.rx.ch keeps its value between frames.
RxIdle == [stat |-> "idle", ch |-> 0, len |-> 0, max |-> 0, data |-> <<>>]
TxIdle == [stat |-> "idle", ch |-> 0, data |-> <<>>, pos |-> 0, cb |-> FALSE]

Outside == [pc |-> "out", i |-> 0, active |-> FALSE]

\* lsd_init(), up to and including lsd_line_sync(), whose last byte may still
\* be in the transmit FIFO.
LsdInit ==
    /\ tx = TxIdle
    /\ rx = RxIdle
    /\ chOn = {}
    /\ txf \in {<<>>, <<Sync>>}
    /\ rxf = <<>>
    /\ proc = Outside

-----------------------------------------------------------------------------
(* The API, called outside lsd_process() or from a callback in it.         *)

Calling == proc.pc \in {"out", "rx_cb", "tx_cb"}

ChEnable(ch) ==
    /\ Calling
    /\ chOn' = chOn \cup {ch}
    /\ UNCHANGED <<tx, rx, txf, rxf, proc>>

ChDisable(ch) ==
    /\ Calling
    /\ chOn' = chOn \ {ch}
    /\ UNCHANGED <<tx, rx, txf, rxf, proc>>

Send(f, cb) ==
    /\ Calling
    /\ tx.stat \notin TxBusy           \* else LSD_STAT_ERR_IN_PROGRESS
    /\ f.ch \in chOn                   \* else LSD_STAT_ERR_INVALID_CH
    /\ Len(f.data) <= MaxLen           \* else LSD_STAT_ERR_FRAME_TOO_LONG
    /\ tx' = [stat |-> "stx", ch |-> f.ch, data |-> f.data, pos |-> 0, cb |-> cb]
    /\ UNCHANGED <<rx, chOn, txf, rxf, proc>>

\* lsd_recv() in the middle of a frame changes the buffer but not the state,
\* nor d.rx.pos: what was received so far stays in the buffer before.
Recv(n, same) ==
    /\ Calling
    /\ n <= MaxLen
    /\ \/ /\ rx.stat = "idle"
          /\ rx' = [rx EXCEPT !.stat = "stx", !.max = n]
       \/ /\ rx.stat = "partial"
          /\ rx' = [rx EXCEPT !.stat = "data", !.max = n, !.data = <<>>]
       \/ /\ rx.stat \in RxBusy
          /\ same \in Rearm
          /\ IF same THEN n = rx.max /\ UNCHANGED rx
             ELSE rx' = [rx EXCEPT !.max = n,
                                   !.data = [k \in DOMAIN @ |-> Junk]]
    /\ UNCHANGED <<tx, chOn, txf, rxf, proc>>

-----------------------------------------------------------------------------
(* process_recv(): one byte of the receive FIFO.                           *)

Byte == Head(rxf)

\* lsd_process() takes the next byte in state st; pc is where it goes on:
\* "rx" when no callback runs, "rx_cb" inside d.rx.cb().
Take(st, pc) ==
    /\ proc.pc = "rx"
    /\ rx.stat = st
    /\ rxf # <<>>
    /\ rxf' = Tail(rxf)
    /\ proc' = [proc EXCEPT !.pc = pc, !.active = TRUE]
    /\ UNCHANGED <<tx, chOn, txf>>

RecvStx ==
    /\ Take("stx", "rx")
    /\ rx' = IF Byte = Flag THEN [rx EXCEPT !.stat = "ch_lenh"] ELSE rx

HeaderCh == Byte \div HighBase

\* A second Flag is a header like any other: that of no channel.
RecvFlagAgain_Bug ==
    /\ Take("ch_lenh", "rx_cb")
    /\ Byte = Flag
    /\ rx' = [rx EXCEPT !.stat = "idle"]

\* The Flag that is met here was the STX, and the one before it an ETX.
RecvFlagAgain ==
    /\ Take("ch_lenh", "rx")
    /\ Byte = Flag
    /\ UNCHANGED rx

RecvHeader ==
    /\ Take("ch_lenh", "rx")
    /\ Byte # Flag
    /\ HeaderCh \in Channel \cap chOn
    /\ rx' = [rx EXCEPT !.stat = "len", !.ch = HeaderCh,
                        !.len = (Byte % HighBase) * LowBase]

\* recv_error(LSD_STAT_ERR_INVALID_CH)
RecvBadChannel ==
    /\ Take("ch_lenh", "rx_cb")
    /\ Byte # Flag
    /\ HeaderCh \notin Channel \cap chOn
    /\ rx' = [rx EXCEPT !.stat = "idle", !.ch = HeaderCh,
                        !.len = (Byte % HighBase) * LowBase]

\* The low byte replaces the high bits.
RecvLen_Bug ==
    /\ Take("len", "rx")
    /\ rx' = [rx EXCEPT !.stat = IF Byte > 0 THEN "data" ELSE "etx",
                        !.len = Byte, !.data = <<>>]

RecvLen ==
    /\ Take("len", "rx")
    /\ LET n == rx.len + Byte
       IN  rx' = [rx EXCEPT !.stat = IF n > 0 THEN "data" ELSE "etx",
                            !.len = n, !.data = <<>>]

\* recv_add(): the byte that ends the payload.
RecvLastByte ==
    /\ Take("data", "rx")
    /\ Len(rx.data) + 1 >= rx.len
    /\ rx' = [rx EXCEPT !.stat = "etx", !.data = Append(@, Byte)]

\* The buffer counts as full one byte too late.
RecvByte_Bug ==
    /\ Take("data", "rx")
    /\ Len(rx.data) + 1 < rx.len
    /\ Len(rx.data) < rx.max
    /\ rx' = [rx EXCEPT !.data = Append(@, Byte)]

RecvByte ==
    /\ Take("data", "rx")
    /\ Len(rx.data) + 1 < rx.len
    /\ Len(rx.data) + 1 < rx.max
    /\ rx' = [rx EXCEPT !.data = Append(@, Byte)]

\* The buffer is full first: what is left of the frame is owed to the next
\* lsd_recv(), and recv_complete() reports what there is.
RecvPartial ==
    /\ Take("data", "rx_cb")
    /\ Len(rx.data) + 1 < rx.len
    /\ Len(rx.data) + 1 >= rx.max
    /\ rx' = [rx EXCEPT !.stat = "partial", !.data = Append(@, Byte),
                        !.len = @ - (Len(rx.data) + 1)]

RecvEtx ==
    /\ Take("etx", "rx_cb")
    /\ Byte = Flag
    /\ rx' = [rx EXCEPT !.stat = "idle"]

\* recv_error(LSD_STAT_ERR_FRAMING)
RecvBadEtx ==
    /\ Take("etx", "rx_cb")
    /\ Byte # Flag
    /\ rx' = [rx EXCEPT !.stat = "idle"]

Received == RecvEtx \/ RecvPartial      \* recv_complete()

-----------------------------------------------------------------------------
(* process_send(): one byte into the transmit FIFO.                        *)

Put(st, byte, pc) ==
    /\ proc.pc = "tx"
    /\ proc.i < FifoLen
    /\ tx.stat = st
    /\ txf' = Append(txf, byte)
    /\ proc' = [proc EXCEPT !.pc = pc, !.i = @ + 1]
    /\ UNCHANGED <<rx, chOn, rxf>>

SendStx ==
    /\ Put("stx", Flag, "tx")
    /\ tx' = [tx EXCEPT !.stat = "ch_lenh"]

SendHeader ==
    /\ Put("ch_lenh", tx.ch * HighBase + Len(tx.data) \div LowBase, "tx")
    /\ tx' = [tx EXCEPT !.stat = "len"]

\* The state that follows is DATA, whatever the length.
SendLen ==
    /\ Put("len", Len(tx.data) % LowBase, "tx")
    /\ tx' = [tx EXCEPT !.stat = "data"]

SendByte ==
    /\ \E b \in IF tx.pos < Len(tx.data) THEN {tx.data[tx.pos + 1]} ELSE Stray :
          Put("data", b, "tx")
    /\ tx' = [tx EXCEPT !.pos = @ + 1,
                        !.stat = IF tx.pos + 1 >= Len(tx.data) THEN "etx" ELSE @]

\* send_complete()
SendEtx ==
    /\ Put("etx", Flag, IF tx.cb THEN "tx_cb" ELSE "tx")
    /\ tx' = [tx EXCEPT !.stat = "idle"]

-----------------------------------------------------------------------------
(* lsd_process().                                                          *)

ProcStart ==
    /\ proc.pc = "out"
    /\ proc' = [pc |-> "rx", i |-> 0, active |-> FALSE]
    /\ UNCHANGED <<tx, rx, chOn, txf, rxf>>

RxDone == proc.pc = "rx" /\ (rx.stat \notin RxBusy \/ rxf = <<>>)

\* The transmitter counts as ready whether or not its FIFO has been emptied.
TxReady_Bug == TRUE

\* uart_tx_ready(): the transmit FIFO is empty.
TxReady == txf = <<>>

ProcTx ==
    /\ RxDone
    /\ tx.stat \in TxBusy
    /\ TxReady
    /\ proc' = [pc |-> "tx", i |-> 0, active |-> TRUE]
    /\ UNCHANGED <<tx, rx, chOn, txf, rxf>>

\* Neither direction was active in this round: return; else go round again.
ProcRound ==
    /\ RxDone
    /\ tx.stat \notin TxBusy \/ ~TxReady
    /\ proc' = IF proc.active THEN [proc EXCEPT !.active = FALSE] ELSE Outside
    /\ UNCHANGED <<tx, rx, chOn, txf, rxf>>

TxDone ==
    /\ proc.pc = "tx"
    /\ proc.i >= FifoLen \/ tx.stat \notin TxBusy
    /\ proc' = [pc |-> "rx", i |-> 0, active |-> FALSE]
    /\ UNCHANGED <<tx, rx, chOn, txf, rxf>>

CallbackReturn ==
    /\ proc.pc \in {"rx_cb", "tx_cb"}
    /\ proc' = [proc EXCEPT !.pc = IF @ = "rx_cb" THEN "rx" ELSE "tx"]
    /\ UNCHANGED <<tx, rx, chOn, txf, rxf>>

\* loop_post() in a callback never comes back to lsd_process().
CallbackJump ==
    /\ proc.pc \in {"rx_cb", "tx_cb"}
    /\ proc' = Outside
    /\ UNCHANGED <<tx, rx, chOn, txf, rxf>>

Process ==
    \/ ProcStart \/ ProcTx \/ ProcRound \/ TxDone
    \/ SendStx \/ SendHeader \/ SendLen \/ SendByte \/ SendEtx

=============================================================================
