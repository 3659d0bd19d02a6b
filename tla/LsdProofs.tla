------------------------------ MODULE LsdProofs ------------------------------
(***************************************************************************)
(* The data link overruns neither its transmit FIFO nor its receive buffer:*)
(* for all frames, FIFO depths and buffer lengths, and whatever bytes come *)
(* in, also when the receiver has lost its place in them.  It is a queue   *)
(* of frames, when it is used so that the receiver does not lose it.       *)
(***************************************************************************)
EXTENDS LsdLink, SequenceLemmas, TLAPS

TypeInv ==
    /\ tx \in [stat : TxBusy \cup {"idle"}, ch : Channel, data : Seq(Nat),
               pos : Nat, cb : BOOLEAN]
    /\ rx \in [stat : RxBusy \cup {"idle", "partial"}, ch : Int, len : Int,
               max : Nat, data : Seq(Int)]
    /\ txf \in Seq(Int)
    /\ rxf \in Seq(Int)
    /\ proc \in [pc : ProcAt, i : 0 .. FifoLen, active : BOOLEAN]

\* A burst starts on an empty FIFO, and counts what it puts there; a callback
\* in it may begin the next frame or leave, but puts nothing there itself.
BurstInv ==
    /\ proc.pc \in {"tx", "tx_cb"} => Len(txf) <= proc.i
    /\ Len(txf) <= FifoLen

LinkInv == TypeInv /\ BurstInv

\* The receiver has a buffer as long as it is armed, and room in it for the
\* next byte of a payload.
RoomInv ==
    /\ rx.stat \in RxBusy => rx.max > 0
    /\ StoreInBuffer

-----------------------------------------------------------------------------
(* The operations of the interface.                                        *)

LEMMA Depth == FifoLen \in Nat /\ FifoLen > 0 /\ 0 \in 0 .. FifoLen
  BY LsdAssumption

LEMMA InitInv == Init => LinkInv /\ RoomInv
<1> SUFFICES ASSUME Init PROVE LinkInv /\ RoomInv
  OBVIOUS
<1>1. 0 \in Channel /\ Sync \in Int
  BY LsdAssumption DEF Channel
<1>2. txf \in Seq(Int) /\ Len(txf) <= 1
  <2>1. CASE txf = <<>>
    BY <2>1
  <2>2. CASE txf = <<Sync>>
    BY <1>1, <2>2
  <2> QED BY <2>1, <2>2 DEF Init, LsdInit
<1>3. TypeInv
  BY <1>1, <1>2, Depth
  DEF Init, LsdInit, TypeInv, TxIdle, RxIdle, Outside, TxBusy, RxBusy, ProcAt
<1>4. BurstInv
  BY <1>2, Depth DEF Init, LsdInit, BurstInv, Outside
<1>5. RoomInv
  BY DEF Init, LsdInit, RoomInv, StoreInBuffer, RxIdle, RxBusy
<1> QED BY <1>3, <1>4, <1>5 DEF LinkInv

\* lsd_send(): nothing is put into the FIFO yet.
LEMMA SendKeeps ==
  ASSUME LinkInv, AppSend
  PROVE  LinkInv' /\ UNCHANGED rx
<1>1. PICK f \in Frames, cb \in BOOLEAN : Send(f, cb)
  BY DEF AppSend
<1>2. tx' \in [stat : TxBusy \cup {"idle"}, ch : Channel, data : Seq(Nat),
               pos : Nat, cb : BOOLEAN]
  BY <1>1, LsdAssumption DEF Send, TxBusy
<1> QED BY <1>1, <1>2 DEF Send, LinkInv, TypeInv, BurstInv

\* lsd_recv(): a new buffer, its position kept in the middle of a frame.
LEMMA RecvKeeps ==
  ASSUME LinkInv, AppRecv
  PROVE  LinkInv'
<1>1. PICK n \in BufLens, same \in BOOLEAN : Recv(n, same)
  BY DEF AppRecv
<1>2. n \in Nat /\ n > 0
  BY LsdAssumption
<1>3. [k \in DOMAIN rx.data |-> Junk] \in Seq(Int)
  <2>1. DOMAIN rx.data = 1 .. Len(rx.data) /\ Len(rx.data) \in Nat
    BY DEF LinkInv, TypeInv
  <2>2. Junk \in Int
    BY LsdAssumption
  <2> QED BY <2>1, <2>2
<1>4. rx' \in [stat : RxBusy \cup {"idle", "partial"}, ch : Int, len : Int,
               max : Nat, data : Seq(Int)]
  <2>1. CASE rx.stat \in {"idle", "partial"}
    <3> DEFINE empty == <<>>
    <3>1. empty \in Seq(Int)
      OBVIOUS
    <3>2. \/ rx' = [rx EXCEPT !.stat = "stx", !.max = n]
          \/ rx' = [rx EXCEPT !.stat = "data", !.max = n, !.data = empty]
      BY <1>1, <2>1 DEF Recv, RxBusy
    <3> HIDE DEF empty
    <3> QED BY <1>2, <3>1, <3>2 DEF LinkInv, TypeInv, RxBusy
  <2>2. CASE rx.stat \in RxBusy
    <3>1. rx' = rx \/ rx' = [rx EXCEPT !.max = n, !.data = [k \in DOMAIN rx.data |-> Junk]]
      BY <1>1, <2>2 DEF Recv, RxBusy
    <3> QED BY <3>1, <1>2, <1>3 DEF LinkInv, TypeInv
  <2> QED BY <2>1, <2>2 DEF LinkInv, TypeInv
<1> QED BY <1>1, <1>4 DEF Recv, LinkInv, TypeInv, BurstInv

LEMMA RecvRoom ==
  ASSUME LinkInv, RoomInv, AppRecv, Rearm \subseteq {TRUE}
  PROVE  RoomInv'
<1>1. PICK n \in BufLens, same \in BOOLEAN : Recv(n, same)
  BY DEF AppRecv
<1>2. n \in Nat /\ n > 0
  BY LsdAssumption
<1>3. CASE rx.stat = "idle"
  BY <1>1, <1>2, <1>3 DEF Recv, LinkInv, TypeInv, RoomInv, StoreInBuffer, RxBusy
<1>4. CASE rx.stat = "partial"
  BY <1>1, <1>2, <1>4 DEF Recv, LinkInv, TypeInv, RoomInv, StoreInBuffer, RxBusy
<1>5. CASE rx.stat \in RxBusy
  <2>1. same \in Rearm
    BY <1>1, <1>5 DEF Recv, RxBusy
  <2>2. same = TRUE
    BY <2>1
  <2>3. UNCHANGED rx
    BY <1>1, <1>5, <2>2 DEF Recv, RxBusy
  <2> QED BY <2>3 DEF RoomInv, StoreInBuffer
<1> QED BY <1>3, <1>4, <1>5 DEF LinkInv, TypeInv

-----------------------------------------------------------------------------
(* process_recv(): each byte moves the receiver and leaves the FIFO that   *)
(* is sent from alone.                                                     *)

LEMMA TakeKeeps ==
  ASSUME LinkInv, NEW st, NEW pc \in {"rx", "rx_cb"}, Take(st, pc),
         rx' \in [stat : RxBusy \cup {"idle", "partial"}, ch : Int, len : Int,
                  max : Nat, data : Seq(Int)]
  PROVE  LinkInv'
<1>1. rxf' \in Seq(Int)
  BY DEF Take, LinkInv, TypeInv
<1>2. proc' \in [pc : ProcAt, i : 0 .. FifoLen, active : BOOLEAN]
  BY DEF Take, LinkInv, TypeInv, ProcAt
<1>3. proc'.pc = pc
  BY DEF Take, LinkInv, TypeInv
<1> QED BY <1>1, <1>2, <1>3 DEF Take, LinkInv, TypeInv, BurstInv

Bytes ==
    \/ RecvStx \/ RecvFlagAgain \/ RecvHeader \/ RecvBadChannel \/ RecvLen
    \/ RecvLastByte \/ RecvByte \/ RecvPartial \/ RecvEtx \/ RecvBadEtx

\* The position that is stored at is left, or one behind it with room to spare.
LEMMA BytesKeep ==
  ASSUME LinkInv, Bytes
  PROVE  LinkInv' /\ (RoomInv => RoomInv')
<1> DEFINE Rx == [stat : RxBusy \cup {"idle", "partial"}, ch : Int, len : Int,
                  max : Nat, data : Seq(Int)]
<1> USE DEF LinkInv, TypeInv, RoomInv, StoreInBuffer, RxBusy
<1>1. CASE RecvStx
  <2>1. rx' \in Rx /\ (RoomInv => RoomInv')
    BY <1>1 DEF RecvStx, Take
  <2> QED BY <1>1, <2>1, TakeKeeps DEF RecvStx
<1>2. CASE RecvFlagAgain
  <2>1. rx' \in Rx /\ (RoomInv => RoomInv')
    BY <1>2 DEF RecvFlagAgain, Take
  <2> QED BY <1>2, <2>1, TakeKeeps DEF RecvFlagAgain
<1>3. rxf # <<>> => Byte \in Int /\ HeaderCh \in Int /\ (Byte % HighBase) * LowBase \in Int
<2>1. LowBase \in Nat \ {0} /\ HighBase \in Nat \ {0}
  BY LsdAssumption
<2>2. rxf # <<>> => Byte \in Int
  BY DEF Byte
<2> QED BY <2>1, <2>2 DEF HeaderCh
<1>4. CASE RecvHeader
  <2>1. rx' \in Rx /\ (RoomInv => RoomInv')
    BY <1>3, <1>4 DEF RecvHeader, Take
  <2> QED BY <1>4, <2>1, TakeKeeps DEF RecvHeader
<1>5. CASE RecvBadChannel
  <2>1. rx' \in Rx /\ (RoomInv => RoomInv')
    BY <1>3, <1>5 DEF RecvBadChannel, Take
  <2> QED BY <1>5, <2>1, TakeKeeps DEF RecvBadChannel
<1>6. CASE RecvLen
  <2>1. PICK n \in Int : rx' = [rx EXCEPT !.stat = IF n > 0 THEN "data" ELSE "etx",
                                          !.len = n, !.data = <<>>]
    <3>1. rx.len + Byte \in Int
      BY <1>3, <1>6 DEF RecvLen, Take
    <3> QED BY <1>6, <3>1 DEF RecvLen
  <2>2. rx.stat = "len"
    BY <1>6 DEF RecvLen, Take
  <2>3. \/ rx' = [rx EXCEPT !.stat = "data", !.len = n, !.data = <<>>]
        \/ rx' = [rx EXCEPT !.stat = "etx", !.len = n, !.data = <<>>]
    BY <2>1
  <2>4. rx' \in Rx /\ (RoomInv => RoomInv')
    <3> DEFINE empty == <<>>
    <3>1. empty \in Seq(Int) /\ Len(empty) = 0
      OBVIOUS
    <3>2. \/ rx' = [rx EXCEPT !.stat = "data", !.len = n, !.data = empty]
          \/ rx' = [rx EXCEPT !.stat = "etx", !.len = n, !.data = empty]
      BY <2>3
    <3> HIDE DEF empty
    <3> QED BY <2>2, <3>1, <3>2
  <2> QED BY <1>6, <2>4, TakeKeeps DEF RecvLen
<1>7. rxf # <<>> => /\ Append(rx.data, Byte) \in Seq(Int)
                    /\ Len(Append(rx.data, Byte)) = Len(rx.data) + 1
  BY <1>3
<1>8. CASE RecvLastByte
  <2>1. rx' \in Rx /\ (RoomInv => RoomInv')
    BY <1>7, <1>8 DEF RecvLastByte, Take
  <2> QED BY <1>8, <2>1, TakeKeeps DEF RecvLastByte
<1>9. CASE RecvByte
  <2>1. rx' \in Rx /\ (RoomInv => RoomInv')
    BY <1>7, <1>9 DEF RecvByte, Take
  <2> QED BY <1>9, <2>1, TakeKeeps DEF RecvByte
<1>10. CASE RecvPartial
  <2>1. rx' = [rx EXCEPT !.stat = "partial", !.data = Append(rx.data, Byte),
                         !.len = rx.len - (Len(rx.data) + 1)]
    BY <1>10 DEF RecvPartial
  <2>2. rx.len - (Len(rx.data) + 1) \in Int
    OBVIOUS
  <2>3. rxf # <<>>
    BY <1>10 DEF RecvPartial, Take
  <2>4. rx' \in Rx /\ (RoomInv => RoomInv')
    BY <1>7, <2>1, <2>2, <2>3
  <2> QED BY <1>10, <2>4, TakeKeeps DEF RecvPartial
<1>11. CASE RecvEtx
  <2>1. rx' \in Rx /\ (RoomInv => RoomInv')
    BY <1>11 DEF RecvEtx, Take
  <2> QED BY <1>11, <2>1, TakeKeeps DEF RecvEtx
<1>12. CASE RecvBadEtx
  <2>1. rx' \in Rx /\ (RoomInv => RoomInv')
    BY <1>12 DEF RecvBadEtx, Take
  <2> QED BY <1>12, <2>1, TakeKeeps DEF RecvBadEtx
<1> QED BY <1>1, <1>2, <1>4, <1>5, <1>6, <1>8, <1>9, <1>10, <1>11, <1>12 DEF Bytes

-----------------------------------------------------------------------------
(* lsd_process() and process_send(): a burst.                              *)

LEMMA PutKeeps ==
  ASSUME LinkInv, NEW st, NEW byte \in Int, NEW pc \in {"tx", "tx_cb"},
         Put(st, byte, pc),
         tx' \in [stat : TxBusy \cup {"idle"}, ch : Channel, data : Seq(Nat),
                  pos : Nat, cb : BOOLEAN]
  PROVE  LinkInv'
<1>1. txf' \in Seq(Int) /\ Len(txf') = Len(txf) + 1
  BY DEF Put, LinkInv, TypeInv
<1>2. /\ proc' \in [pc : ProcAt, i : 0 .. FifoLen, active : BOOLEAN]
      /\ proc'.i = proc.i + 1
  <2>1. proc' = [proc EXCEPT !.pc = pc, !.i = @ + 1] /\ proc.i < FifoLen
    BY DEF Put
  <2>2. proc.i + 1 \in 0 .. FifoLen /\ pc \in ProcAt
    BY <2>1, Depth DEF LinkInv, TypeInv, ProcAt
  <2> QED BY <2>1, <2>2 DEF LinkInv, TypeInv
<1>3. Len(txf) <= proc.i /\ proc.i < FifoLen
  BY DEF Put, LinkInv, BurstInv
<1>4. Len(txf) \in Nat /\ FifoLen \in Nat /\ proc.i \in Nat
  BY Depth DEF LinkInv, TypeInv
<1> QED BY <1>1, <1>2, <1>3, <1>4 DEF Put, LinkInv, TypeInv, BurstInv

LEMMA ProcessKeeps ==
  ASSUME LinkInv, Process
  PROVE  LinkInv' /\ UNCHANGED rx
<1> DEFINE Tx == [stat : TxBusy \cup {"idle"}, ch : Channel, data : Seq(Nat),
                  pos : Nat, cb : BOOLEAN]
<1>1. CASE ProcStart
  BY <1>1, Depth DEF ProcStart, LinkInv, TypeInv, BurstInv, ProcAt
<1>2. CASE ProcTx
  <2>1. Len(txf) = 0
    BY <1>2 DEF ProcTx, TxReady
  <2> QED BY <1>2, <2>1, Depth
          DEF ProcTx, LinkInv, TypeInv, BurstInv, ProcAt
<1>3. CASE ProcRound
  <2>1. proc' = [proc EXCEPT !.active = FALSE] \/ proc' = Outside
    BY <1>3 DEF ProcRound
  <2>2. proc.pc = "rx"
    BY <1>3 DEF ProcRound, RxDone
  <2>3. /\ proc' \in [pc : ProcAt, i : 0 .. FifoLen, active : BOOLEAN]
        /\ proc'.pc \notin {"tx", "tx_cb"}
    <3>1. CASE proc' = Outside
      BY <3>1, Depth DEF Outside, ProcAt
    <3>2. CASE proc' = [proc EXCEPT !.active = FALSE]
      BY <2>2, <3>2 DEF LinkInv, TypeInv
    <3> QED BY <2>1, <3>1, <3>2
  <2> QED BY <1>3, <2>3 DEF ProcRound, LinkInv, TypeInv, BurstInv
<1>4. CASE TxDone
  BY <1>4, Depth DEF TxDone, LinkInv, TypeInv, BurstInv, ProcAt
<1>5. CASE SendStx
  <2>1. tx' \in Tx
    BY <1>5 DEF SendStx, LinkInv, TypeInv, TxBusy
  <2>2. Flag \in Int
    BY LsdAssumption
  <2> QED BY <1>5, <2>1, <2>2, PutKeeps DEF SendStx, Put
<1>6. CASE SendHeader
  <2>1. tx' \in Tx
    BY <1>6 DEF SendHeader, LinkInv, TypeInv, TxBusy
  <2>2. tx.ch * HighBase + Len(tx.data) \div LowBase \in Int
    BY LsdAssumption DEF LinkInv, TypeInv, Channel
  <2> QED BY <1>6, <2>1, <2>2, PutKeeps DEF SendHeader, Put
<1>7. CASE SendLen
  <2>1. tx' \in Tx
    BY <1>7 DEF SendLen, LinkInv, TypeInv, TxBusy
  <2>2. Len(tx.data) % LowBase \in Int
    BY LsdAssumption DEF LinkInv, TypeInv
  <2> QED BY <1>7, <2>1, <2>2, PutKeeps DEF SendLen, Put
<1>8. CASE SendByte
  <2>1. tx' \in Tx
    <3>1. /\ tx' = [tx EXCEPT !.pos = @ + 1,
                    !.stat = IF tx.pos + 1 >= Len(tx.data) THEN "etx" ELSE @]
      BY <1>8 DEF SendByte
    <3>2. tx.pos + 1 \in Nat
      BY DEF LinkInv, TypeInv
    <3>3. tx' = [tx EXCEPT !.pos = tx.pos + 1, !.stat = "etx"]
          \/ tx' = [tx EXCEPT !.pos = tx.pos + 1]
      BY <3>1 DEF LinkInv, TypeInv
    <3> QED BY <3>2, <3>3 DEF LinkInv, TypeInv, TxBusy
  <2>2. PICK b \in IF tx.pos < Len(tx.data) THEN {tx.data[tx.pos + 1]} ELSE Stray :
           Put("data", b, "tx")
    BY <1>8 DEF SendByte
  <2>3. b \in Int
    <3>1. CASE tx.pos < Len(tx.data)
      <4>1. tx.pos + 1 \in 1 .. Len(tx.data)
        BY <3>1 DEF LinkInv, TypeInv
      <4>2. tx.data[tx.pos + 1] \in Nat
        BY <4>1 DEF LinkInv, TypeInv
      <4> QED BY <2>2, <3>1, <4>2
    <3>2. CASE ~(tx.pos < Len(tx.data))
      <4>1. Stray \subseteq Int
        BY LsdAssumption
      <4> QED BY <2>2, <3>2, <4>1
    <3> QED BY <3>1, <3>2
  <2> QED BY <2>1, <2>2, <2>3, PutKeeps DEF Put
<1>9. CASE SendEtx
  <2>1. tx' \in Tx
    BY <1>9 DEF SendEtx, LinkInv, TypeInv, TxBusy
  <2>2. Flag \in Int
    BY LsdAssumption
  <2> QED BY <1>9, <2>1, <2>2, PutKeeps DEF SendEtx, Put
<1> QED BY <1>1, <1>2, <1>3, <1>4, <1>5, <1>6, <1>7, <1>8, <1>9 DEF Process

-----------------------------------------------------------------------------
(* Every step.                                                             *)

LEMMA NextKeeps ==
  ASSUME LinkInv, [Next]_vars
  PROVE  LinkInv' /\ (Rearm \subseteq {TRUE} /\ RoomInv => RoomInv')
<1> USE DEF RoomInv, StoreInBuffer
<1>1. CASE AppSend
  BY <1>1, SendKeeps
<1>2. CASE AppRecv
  BY <1>2, RecvKeeps, RecvRoom
<1>3. CASE AppEnable \/ AppDisable
  BY <1>3 DEF AppEnable, ChEnable, AppDisable, ChDisable, LinkInv, TypeInv, BurstInv
<1>4. CASE Quiet
  BY <1>4, BytesKeep, ProcessKeeps DEF Quiet, Bytes
<1>5. CASE Receive \/ Fail
  BY <1>5, BytesKeep DEF Receive, Received, Fail, Bytes
<1>6. CASE Callback
  <2>1. CASE CallbackReturn
    BY <1>6, <2>1 DEF Callback, CallbackReturn, LinkInv, TypeInv, BurstInv, ProcAt
  <2>2. CASE CallbackJump
    BY <1>6, <2>2, Depth
    DEF Callback, CallbackJump, Outside, LinkInv, TypeInv, BurstInv, ProcAt
  <2> QED BY <1>6, <2>1, <2>2 DEF Callback
<1>7. CASE Line
  <2>1. /\ rxf' \in Seq(Int) /\ txf' \in Seq(Int)
        /\ Len(txf') = Len(txf) - 1 /\ Len(txf) \in Nat
    BY <1>7 DEF Line, LinkInv, TypeInv
  <2>2. TypeInv'
    BY <1>7, <2>1 DEF Line, LinkInv, TypeInv
  <2>3. BurstInv'
    <3>1. proc.i \in Nat /\ UNCHANGED proc
      BY <1>7, Depth DEF Line, LinkInv, TypeInv
    <3> QED BY <2>1, <3>1, Depth DEF LinkInv, BurstInv
  <2> QED BY <1>7, <2>2, <2>3 DEF Line, LinkInv
<1>8. CASE UNCHANGED vars
  BY <1>8 DEF vars, lsdVars, LinkInv, TypeInv, BurstInv
<1> QED BY <1>1, <1>2, <1>3, <1>4, <1>5, <1>6, <1>7, <1>8 DEF Next

\* Whatever a callback starts or leaves in the middle of a burst
\* (lsd_process(), lsd.c:223-243), the transmit FIFO is not overrun.
THEOREM FifoFits == Spec => []TxFifoFits
<1>1. LinkInv => TxFifoFits
  BY DEF LinkInv, BurstInv, TxFifoFits
<1> QED BY <1>1, InitInv, NextKeeps, PTL DEF Spec

\* Whatever bytes come in, lost place or not, none is stored behind the receive
\* buffer (recv_add(), lsd.c:108-120), as long as a program that calls lsd_recv()
\* in the middle of a frame gives it the buffer in use.
THEOREM BufferHolds ==
  ASSUME Rearm \subseteq {TRUE}
  PROVE  Spec => []StoreInBuffer
<1> DEFINE Inv == LinkInv /\ RoomInv
<1>1. Init => Inv
  BY InitInv
<1>2. Inv /\ [Next]_vars => Inv'
  BY NextKeeps
<1>3. Inv => StoreInBuffer
  BY DEF RoomInv
<1> QED BY <1>1, <1>2, <1>3, PTL DEF Spec

-----------------------------------------------------------------------------
(* What is on its way.                                                     *)

\* A frame on the line, from its Flag, its header, its low length or the n-th
\* octet of its payload on (process_send(), lsd.c:189-221).
Payload(f, n) == SubSeq(f.data, n + 1, Len(f.data)) \o <<Flag>>
Sized(f) == <<Len(f.data) % LowBase>> \o Payload(f, 0)
Headed(f) == <<f.ch * HighBase + Len(f.data) \div LowBase>> \o Sized(f)
Wire(f) == <<Flag>> \o Headed(f)

\* What lsd_send() has left in d.tx, and what is behind it on the line.
Current == [ch |-> tx.ch, data |-> tx.data]
Unsent ==
    CASE tx.stat = "stx"     -> Wire(Current)
      [] tx.stat = "ch_lenh" -> Headed(Current)
      [] tx.stat = "len"     -> Sized(Current)
      [] tx.stat = "data"    -> Payload(Current, tx.pos)
      [] tx.stat = "etx"     -> <<Flag>>
      [] OTHER               -> <<>>

Flight == rxf \o (txf \o Unsent)

Wires(s) == [k \in 1 .. Len(s) |-> Wire(s[k])]

\* The frames behind the n-th.
Behind(n) == Left(Wires(sent), n)

Due == sent[at.frame]

-----------------------------------------------------------------------------
(* Where the receiver is in what is on its way.                            *)

\* What is left of a frame the receiver refused: its only Flag is its last.
Noise(n) == \A i \in 1 .. Len(n) : n[i] = Flag => i = Len(n)

Comes(x) == at.frame <= Len(sent) /\ Flight = x \o Behind(at.frame)

BetweenInv ==
    rx.stat \in {"idle", "stx"} =>
      /\ at.off = 0
      /\ \E n \in Seq(Int) : Noise(n) /\ Flight = n \o Behind(at.frame - 1)

HeaderInv ==
    rx.stat = "ch_lenh" =>
      /\ at.off = 0
      /\ Flight = Behind(at.frame - 1) \/ Comes(Headed(Due))

SizeInv ==
    rx.stat = "len" =>
      /\ at.off = 0
      /\ rx.ch = Due.ch
      /\ rx.len = (Len(Due.data) \div LowBase) * LowBase
      /\ Comes(Sized(Due))

DataInv ==
    rx.stat = "data" =>
      /\ rx.ch = Due.ch
      /\ rx.len = Len(Due.data) - at.off
      /\ Len(rx.data) < rx.len
      /\ rx.data = SubSeq(Due.data, at.off + 1, at.off + Len(rx.data))
      /\ Comes(Payload(Due, at.off + Len(rx.data)))

PartialInv ==
    rx.stat = "partial" =>
      /\ rx.ch = Due.ch
      /\ rx.len = Len(Due.data) - at.off
      /\ 0 < rx.len
      /\ Comes(Payload(Due, at.off))

EtxInv ==
    rx.stat = "etx" =>
      /\ rx.ch = Due.ch
      /\ at.off <= Len(Due.data)
      /\ rx.data = SubSeq(Due.data, at.off + 1, Len(Due.data))
      /\ Comes(<<Flag>>)

PlaceInv ==
    BetweenInv /\ HeaderInv /\ SizeInv /\ DataInv /\ PartialInv /\ EtxInv

\* A frame that is being sent has a payload, and part of it left in DATA.
SenderInv ==
    /\ tx.stat \in TxBusy => Len(tx.data) > 0
    /\ tx.stat \in {"stx", "ch_lenh", "len"} => tx.pos = 0
    /\ tx.stat = "data" => tx.pos < Len(tx.data)

\* A frame was sent on a channel that was open, and that the receiver may have
\* closed since.
SentInv ==
    /\ sent \in Seq(Frames)
    /\ \A k \in 1 .. Len(sent) : Len(sent[k].data) <= MaxLen
                                 /\ sent[k].ch \in chOn \cup ChOff

Reports == [ch : Int, data : Seq(Int), last : BOOLEAN] \cup {Error}

ReportInv ==
    /\ recvd \in Seq(Reports)
    /\ at \in [frame : 1 .. Len(sent) + 1, off : Nat]

QueueInv == LinkInv /\ SenderInv /\ SentInv /\ ReportInv /\ PlaceInv

\* What the program must keep to: it gives lsd_recv() another buffer only
\* between frames, sends no empty frame, and has a Flag neither in the payload
\* nor in the length of a frame of a channel that the receiver may close.  An
\* error is no frame.
FaithfulUse ==
    /\ Rearm \subseteq {TRUE}
    /\ \A f \in Frames : Len(f.data) > 0
    /\ \A f \in Frames : f.ch \in ChOff => Noise(Sized(f))
    /\ Error \notin [ch : Int, data : Seq(Int), last : BOOLEAN]

-----------------------------------------------------------------------------
(* The two digits of a header and of a length.                             *)

LEMMA Digits ==
    ASSUME NEW b \in Nat \ {0}, NEW q \in Nat, NEW r \in 0 .. b - 1
    PROVE  (q * b + r) \div b = q /\ (q * b + r) % b = r
  OBVIOUS

LEMMA DigitsOf ==
    ASSUME NEW b \in Nat \ {0}, NEW n \in Nat
    PROVE  /\ n \div b \in Nat /\ n % b \in 0 .. b - 1
           /\ n = (n \div b) * b + (n % b)
  OBVIOUS

LEMMA HighDigit ==
    ASSUME NEW b \in Nat \ {0}, NEW h \in Nat \ {0}, NEW n \in Nat, n <= h * b - 1
    PROVE  n \div b \in 0 .. h - 1
  OBVIOUS

-----------------------------------------------------------------------------
(* The parts of a frame.                                                   *)

Frame == [ch : Channel, data : Seq(Nat)]

LEMMA FrameBytes ==
    ASSUME NEW f \in Frame
    PROVE  /\ Len(f.data) \in Nat
           /\ Len(f.data) % LowBase \in Int
           /\ f.ch * HighBase + Len(f.data) \div LowBase \in Int
<1>1. f.ch \in Int /\ HighBase \in Int /\ LowBase \in Nat \ {0} /\ Len(f.data) \in Nat
  BY LsdAssumption DEF Frame, Channel
<1>2. Len(f.data) \div LowBase \in Nat /\ Len(f.data) % LowBase \in 0 .. LowBase - 1
  BY <1>1, DigitsOf
<1>3. Len(f.data) % LowBase \in Int
  BY <1>1, <1>2
<1>4. PICK q \in Int : q = Len(f.data) \div LowBase
  BY <1>2
<1>5. f.ch * HighBase + q \in Int
  BY <1>1
<1> QED
  BY <1>1, <1>3, <1>4, <1>5

LEMMA PayloadType ==
    ASSUME NEW f \in Frame, NEW n \in Nat
    PROVE  Payload(f, n) \in Seq(Int)
<1>1. f.data \in Seq(Int) /\ <<Flag>> \in Seq(Int) /\ Len(f.data) \in Nat
  BY LsdAssumption DEF Frame
<1>2. \A k \in n + 1 .. Len(f.data) : f.data[k] \in Int
  BY <1>1
<1>3. SubSeq(f.data, n + 1, Len(f.data)) \in Seq(Int)
  BY <1>1, <1>2, SubSeqProperties
<1> QED
  BY <1>1, <1>3 DEF Payload

LEMMA WireType ==
    ASSUME NEW f \in Frame
    PROVE  Sized(f) \in Seq(Int) /\ Headed(f) \in Seq(Int) /\ Wire(f) \in Seq(Int)
<1>1. Flag \in Int
  BY LsdAssumption
<1>2. Payload(f, 0) \in Seq(Int)
  BY PayloadType
<1>3. Sized(f) \in Seq(Int)
  BY <1>2, FrameBytes DEF Sized
<1>4. Headed(f) \in Seq(Int)
  BY <1>3, FrameBytes DEF Headed
<1> QED
  BY <1>1, <1>3, <1>4 DEF Wire

LEMMA PayloadEnd ==
    ASSUME NEW f \in Frame
    PROVE  Payload(f, Len(f.data)) = <<Flag>>
<1>1. <<Flag>> \in Seq(Int)
  BY LsdAssumption
<1>2. SubSeq(f.data, Len(f.data) + 1, Len(f.data)) = <<>>
  BY DEF Frame
<1> QED
  BY <1>1, <1>2, ConcatNone DEF Payload

LEMMA IntConcat ==
    \A a, b, c \in Seq(Int) : (a \o b) \o c = a \o (b \o c)
<1>1. Associative(Seq(Int))
  BY AllAssociate
<1> QED
  BY <1>1 DEF Associative

LEMMA PayloadStep ==
    ASSUME NEW f \in Frame, NEW n \in Nat, n < Len(f.data)
    PROVE  /\ f.data[n + 1] \in Int
           /\ Payload(f, n) = <<f.data[n + 1]>> \o Payload(f, n + 1)
<1>1. f.data \in Seq(Int) /\ <<Flag>> \in Seq(Int) /\ Len(f.data) \in Nat
  BY LsdAssumption DEF Frame
<1>2. PICK d \in Seq(Int) : d = f.data
  BY <1>1
<1>3. PICK m \in Nat : m = Len(d) /\ n < m
  BY <1>1, <1>2
<1>4. d[n + 1] \in Int
  BY <1>3
<1>5. SubSeq(d, n + 1, m) = <<d[n + 1]>> \o SubSeq(d, n + 2, m)
  BY <1>3, <1>4
<1>6. SubSeq(d, n + 2, m) \in Seq(Int) /\ <<d[n + 1]>> \in Seq(Int)
  <2>1. \A k \in n + 2 .. m : d[k] \in Int
    BY <1>3
  <2> QED
    BY <1>3, <1>4, <2>1, SubSeqProperties
<1>7. (<<d[n + 1]>> \o SubSeq(d, n + 2, m)) \o <<Flag>>
      = <<d[n + 1]>> \o (SubSeq(d, n + 2, m) \o <<Flag>>)
  <2>1. PICK x \in Seq(Int) : x = <<d[n + 1]>>
    BY <1>6
  <2>2. PICK y \in Seq(Int) : y = SubSeq(d, n + 2, m)
    BY <1>6
  <2>3. PICK z \in Seq(Int) : z = <<Flag>>
    BY <1>1
  <2>4. (x \o y) \o z = x \o (y \o z)
    BY IntConcat, Zenon
  <2> QED
    BY <2>1, <2>2, <2>3, <2>4
<1>8. (n + 1) + 1 = n + 2
  OBVIOUS
<1> QED
  BY <1>2, <1>3, <1>4, <1>5, <1>7, <1>8 DEF Payload

\* The header says channel and length.
LEMMA HeaderSays ==
    ASSUME NEW f \in Frame, Len(f.data) <= MaxLen
    PROVE  LET b == f.ch * HighBase + Len(f.data) \div LowBase
           IN  /\ b # Flag
               /\ b \div HighBase = f.ch
               /\ b % HighBase = Len(f.data) \div LowBase
<1> DEFINE n == Len(f.data)
           q == n \div LowBase
<1>1. /\ n \in Nat /\ LowBase \in Nat \ {0} /\ HighBase \in Nat \ {0}
      /\ n <= HighBase * LowBase - 1 /\ f.ch \in Nat
  BY LsdAssumption DEF Frame, Channel, MaxLen
<1>2. q \in 0 .. HighBase - 1
  BY <1>1, HighDigit
<1> HIDE DEF q
<1>3. (f.ch * HighBase + q) \div HighBase = f.ch /\ (f.ch * HighBase + q) % HighBase = q
  BY <1>1, <1>2, Digits
<1>4. f.ch # Flag \div HighBase
  <2>1. f.ch \in Int /\ f.ch < MaxCh /\ Flag \div HighBase >= MaxCh /\ MaxCh \in Int
    BY LsdAssumption DEF Frame, Channel
  <2>2. Flag \div HighBase \in Int
    BY LsdAssumption
  <2> QED
    BY <2>1, <2>2
<1> QED
  BY <1>3, <1>4 DEF q

-----------------------------------------------------------------------------
(* The frames behind the one that is due.                                  *)

LEMMA WiresType ==
    ASSUME SentInv
    PROVE  /\ Wires(sent) \in Seq(Seq(Int)) /\ Len(Wires(sent)) = Len(sent)
           /\ Len(sent) \in Nat
           /\ \A k \in 1 .. Len(sent) : /\ sent[k] \in Frame /\ sent[k] \in Frames
                                        /\ Wires(sent)[k] = Wire(sent[k])
<1>1. sent \in Seq(Frames) /\ Len(sent) \in Nat
  BY DEF SentInv
<1>2. \A k \in 1 .. Len(sent) : sent[k] \in Frames /\ sent[k] \in Frame
  BY <1>1, LsdAssumption DEF Frame
<1>3. \A k \in 1 .. Len(sent) : Wire(sent[k]) \in Seq(Int)
  BY <1>2, WireType
<1>4. Wires(sent) \in [1 .. Len(sent) -> Seq(Int)]
  BY <1>3 DEF Wires
<1>5. Wires(sent) \in Seq(Seq(Int)) /\ Len(Wires(sent)) = Len(sent)
  BY <1>1, <1>4
<1> QED
  BY <1>1, <1>2, <1>5 DEF Wires

LEMMA BehindType ==
    ASSUME SentInv, NEW n \in 0 .. Len(sent)
    PROVE  Behind(n) \in Seq(Int)
<1>1. n \in 0 .. Len(Wires(sent)) /\ Wires(sent) \in Seq(Seq(Int))
  BY WiresType
<1> QED
  BY <1>1, LeftIs DEF Behind

LEMMA BehindFirst ==
    ASSUME SentInv, NEW n \in 1 .. Len(sent)
    PROVE  Behind(n - 1) = Wire(sent[n]) \o Behind(n)
<1>1. n \in 1 .. Len(Wires(sent)) /\ Wires(sent) \in Seq(Seq(Int))
      /\ Wires(sent)[n] = Wire(sent[n])
  BY WiresType
<1>2. Left(Wires(sent), n - 1) = Wires(sent)[n] \o Left(Wires(sent), n)
  BY <1>1, LeftFirst
<1> QED
  BY <1>1, <1>2 DEF Behind

LEMMA BehindNone ==
    ASSUME SentInv
    PROVE  Behind(Len(sent)) = <<>>
  BY WiresType, LeftNone DEF Behind

LEMMA BehindGrows ==
    ASSUME SentInv, NEW f \in Frame, sent' = Append(sent, f), NEW n \in 0 .. Len(sent)
    PROVE  Behind(n)' = Behind(n) \o Wire(f)
<1>1. Wires(sent) \in Seq(Seq(Int)) /\ Len(Wires(sent)) = Len(sent) /\ Len(sent) \in Nat
  BY WiresType
<1>2. Wire(f) \in Seq(Int)
  BY WireType
<1>3. Len(sent') = Len(sent) + 1 /\ sent'[Len(sent) + 1] = f
      /\ \A k \in 1 .. Len(sent) : sent'[k] = sent[k]
  BY DEF SentInv
<1>4. Wires(sent') = Append(Wires(sent), Wire(f))
  <2>1. Append(Wires(sent), Wire(f)) \in Seq(Seq(Int))
        /\ Len(Append(Wires(sent), Wire(f))) = Len(sent) + 1
        /\ Append(Wires(sent), Wire(f))[Len(sent) + 1] = Wire(f)
        /\ \A k \in 1 .. Len(sent) : Append(Wires(sent), Wire(f))[k] = Wires(sent)[k]
    BY <1>1, <1>2
  <2>2. \A k \in 1 .. Len(sent) : Wires(sent)[k] = Wire(sent[k])
    BY DEF Wires
  <2>3. \A k \in 1 .. Len(sent) + 1 : Append(Wires(sent), Wire(f))[k] = Wire(sent'[k])
    BY <1>1, <1>3, <2>1, <2>2
  <2>4. Append(Wires(sent), Wire(f)) = [k \in 1 .. Len(sent) + 1 |-> Append(Wires(sent), Wire(f))[k]]
    <3>1. \A w \in Seq(Seq(Int)) : w = [k \in 1 .. Len(w) |-> w[k]]
      OBVIOUS
    <3> QED
      BY <2>1, <3>1
  <2> QED
    BY <1>3, <2>3, <2>4 DEF Wires
<1>5. Left(Append(Wires(sent), Wire(f)), n) = Left(Wires(sent), n) \o Wire(f)
  BY <1>1, <1>2, LeftGrows
<1> QED
  BY <1>4, <1>5 DEF Behind

-----------------------------------------------------------------------------
(* The fold over the reports.                                              *)

\* FoldLeft is a function of the sets of indices, the largest index last.
Largest(S) == CHOOSE x \in S : \A y \in S : x >= y

FoldStep(g, s, S) ==
    IF S = {} THEN Start ELSE Report(g[S \ {Largest(S)}], s[Largest(S)])

Tracks(g, s, n) == g = [S \in SUBSET (1 .. n) |-> FoldStep(g, s, S)]

LEMMA LargestIs ==
    ASSUME NEW n \in Nat, NEW S \in SUBSET (1 .. n), n \in S
    PROVE  Largest(S) = n
<1>1. \A y \in S : n >= y
  OBVIOUS
<1>2. ASSUME NEW x \in S, \A y \in S : x >= y
      PROVE  x = n
  BY <1>2
<1> QED
  BY <1>1, <1>2 DEF Largest

LEMMA TrackOne ==
    ASSUME NEW s, NEW n \in Nat \ {0}, NEW g, Tracks(g, s, n - 1)
    PROVE  \E h : Tracks(h, s, n)
<1> DEFINE h == [S \in SUBSET (1 .. n) |->
                   IF n \in S THEN Report(g[S \ {n}], s[n]) ELSE g[S]]
<1>1. ASSUME NEW S \in SUBSET (1 .. n)
      PROVE  h[S] = FoldStep(h, s, S)
  <2>1. CASE n \in S
    <3>1. Largest(S) = n
      BY <2>1, LargestIs
    <3>2. S \ {n} \in SUBSET (1 .. n) /\ n \notin S \ {n} /\ S # {}
      BY <2>1
    <3>3. h[S \ {n}] = g[S \ {n}]
      BY <3>2
    <3> QED
      BY <2>1, <3>1, <3>2, <3>3 DEF FoldStep
  <2>2. CASE n \notin S
    <3>1. S \in SUBSET (1 .. n - 1)
      BY <2>2
    <3>2. g[S] = FoldStep(g, s, S)
      BY <3>1 DEF Tracks
    <3>3. \A x : S \ {x} \in SUBSET (1 .. n) /\ n \notin S \ {x}
      BY <2>2
    <3>4. \A x : h[S \ {x}] = g[S \ {x}]
      BY <3>3
    <3>5. h[S] = g[S]
      BY <2>2
    <3> HIDE DEF h
    <3> QED
      BY <3>2, <3>4, <3>5 DEF FoldStep
  <2> QED
    BY <2>1, <2>2
<1>2. h = [S \in SUBSET (1 .. n) |-> h[S]]
  OBVIOUS
<1> HIDE DEF h
<1>3. Tracks(h, s, n)
  BY <1>1, <1>2 DEF Tracks
<1> QED
  BY <1>3

LEMMA TrackExists ==
    ASSUME NEW s, NEW n \in Nat
    PROVE  \E g : Tracks(g, s, n)
<1> DEFINE Partial(k) == \E g : Tracks(g, s, k)
           S == {k \in Nat : Partial(k)}
<1>1. Partial(0)
  <2> DEFINE g == [T \in SUBSET (1 .. 0) |-> Start]
  <2>1. \A T \in SUBSET (1 .. 0) : T = {}
    OBVIOUS
  <2>2. \A T \in SUBSET (1 .. 0) : g[T] = FoldStep(g, s, T)
    BY <2>1 DEF FoldStep
  <2>3. g = [T \in SUBSET (1 .. 0) |-> g[T]]
    OBVIOUS
  <2> HIDE DEF g
  <2>4. Tracks(g, s, 0)
    BY <2>2, <2>3 DEF Tracks
  <2> QED
    BY <2>4
<1>2. ASSUME NEW k \in Nat \ {0}, Partial(k - 1)
      PROVE  Partial(k)
  BY <1>2, TrackOne
<1> HIDE DEF Partial
<1>3. \A k \in Nat \ {0} : k - 1 \in S => k \in S
  BY <1>2
<1>4. 0 \in S /\ S \in SUBSET Nat
  BY <1>1
<1>5. S = Nat
  <2> HIDE DEF S
  <2> QED
    BY <1>3, <1>4, Induction
<1> QED
  BY <1>5 DEF Partial

LEMMA TrackAt ==
    ASSUME NEW s, NEW n \in Nat, NEW g, Tracks(g, s, n), NEW k \in 1 .. n
    PROVE  g[1 .. k] = Report(g[1 .. k - 1], s[k])
<1>1. 1 .. k \in SUBSET (1 .. n) /\ 1 .. k # {} /\ k \in 1 .. k /\ k \in Nat
  OBVIOUS
<1>2. Largest(1 .. k) = k
  <2>1. 1 .. k \in SUBSET (1 .. k)
    OBVIOUS
  <2> QED
    BY <1>1, <2>1, LargestIs
<1>3. (1 .. k) \ {k} = 1 .. k - 1
  OBVIOUS
<1>4. g[1 .. k] = FoldStep(g, s, 1 .. k)
  BY <1>1 DEF Tracks
<1> QED
  BY <1>1, <1>2, <1>3, <1>4 DEF FoldStep

LEMMA TracksAgree ==
    ASSUME NEW s, NEW n \in Nat, NEW g, Tracks(g, s, n),
           NEW r, NEW m \in 0 .. n, NEW h, Tracks(h, r, m),
           \A i \in 1 .. m : r[i] = s[i]
    PROVE  h[1 .. m] = g[1 .. m]
<1> DEFINE S == {k \in Nat : k \in 0 .. m => h[1 .. k] = g[1 .. k]}
<1>1. ASSUME NEW k \in 1 .. m, k - 1 \in S
      PROVE  h[1 .. k] = g[1 .. k]
  <2>1. h[1 .. k] = Report(h[1 .. k - 1], r[k])
    BY TrackAt
  <2>2. k \in 1 .. n /\ k - 1 \in 0 .. m
    OBVIOUS
  <2>3. g[1 .. k] = Report(g[1 .. k - 1], s[k])
    BY <2>2, TrackAt
  <2> QED
    BY <1>1, <2>1, <2>2, <2>3
<1>2. \A k \in Nat \ {0} : k - 1 \in S => k \in S
  BY <1>1
<1>3. 0 \in S /\ S \in SUBSET Nat
  <2>1. 1 .. 0 \in SUBSET (1 .. n) /\ 1 .. 0 \in SUBSET (1 .. m) /\ 1 .. 0 = {}
    OBVIOUS
  <2>2. h[1 .. 0] = Start /\ g[1 .. 0] = Start
    BY <2>1 DEF Tracks, FoldStep
  <2> QED
    BY <2>2
<1>4. S = Nat
  <2> HIDE DEF S
  <2> QED
    BY <1>2, <1>3, Induction
<1>5. m \in 0 .. m /\ m \in S
  BY <1>4
<1> QED
  BY <1>5

LEMMA ReportedIs ==
    ASSUME NEW T, NEW s \in Seq(T)
    PROVE  \E g : Tracks(g, s, Len(s)) /\ Reported(s) = g[1 .. Len(s)]
<1>1. Len(s) \in Nat /\ DOMAIN s = 1 .. Len(s)
  OBVIOUS
<1>2. \E g : Tracks(g, s, Len(s))
  BY <1>1, TrackExists
<1>3. Reported(s) = LET g == CHOOSE g : Tracks(g, s, Len(s)) IN g[1 .. Len(s)]
  BY <1>1 DEF Reported, FoldLeft, MapThenFoldSet, Max, Tracks, FoldStep, Largest
<1> QED
  BY <1>2, <1>3

LEMMA ReportedNone == Reported(<<>>) = Start
<1>1. <<>> \in Seq({}) /\ Len(<<>>) = 0
  OBVIOUS
<1>2. PICK g : Tracks(g, <<>>, 0) /\ Reported(<<>>) = g[1 .. 0]
  BY <1>1, ReportedIs
<1>3. 1 .. 0 \in SUBSET (1 .. 0) /\ 1 .. 0 = {}
  OBVIOUS
<1> QED
  BY <1>2, <1>3 DEF Tracks, FoldStep

\* A report moves on from where those before it were.
LEMMA ReportedGrows ==
    ASSUME NEW T, NEW s \in Seq(T), NEW r \in T
    PROVE  Reported(Append(s, r)) = Report(Reported(s), r)
<1>1. PICK n \in Nat : n = Len(s)
  OBVIOUS
<1>2. PICK t \in Seq(T) : t = Append(s, r)
  <2>1. Append(s, r) \in Seq(T)
    OBVIOUS
  <2> QED
    BY <2>1
<1>3. Len(t) = n + 1 /\ t[n + 1] = r /\ \A i \in 1 .. n : s[i] = t[i]
  BY <1>1, <1>2
<1>4. PICK g : Tracks(g, t, n + 1) /\ Reported(t) = g[1 .. n + 1]
  BY <1>3, ReportedIs
<1>5. PICK h : Tracks(h, s, n) /\ Reported(s) = h[1 .. n]
  BY <1>1, ReportedIs
<1>6. n + 1 \in Nat /\ n + 1 \in 1 .. n + 1 /\ n \in 0 .. n + 1 /\ (n + 1) - 1 = n
  OBVIOUS
<1>7. h[1 .. n] = g[1 .. n]
  BY <1>3, <1>4, <1>5, <1>6, TracksAgree
<1>8. g[1 .. n + 1] = Report(g[1 .. n], t[n + 1])
  BY <1>4, <1>6, TrackAt
<1> QED
  BY <1>2, <1>3, <1>4, <1>5, <1>7, <1>8

-----------------------------------------------------------------------------
(* What is on its way moves: into the FIFO, along the line, out of it.     *)

\* The bytes of the line are integers.
LEMMA IntCons ==
    \A a \in Int, s \in Seq(Int) : Head(<<a>> \o s) = a /\ Tail(<<a>> \o s) = s
  OBVIOUS

LEMMA CurrentType == LinkInv => Current \in Frame
  BY DEF LinkInv, TypeInv, Current, Frame

LEMMA UnsentType == LinkInv => Unsent \in Seq(Int)
<1> SUFFICES ASSUME LinkInv PROVE Unsent \in Seq(Int)
  OBVIOUS
<1>1. /\ Wire(Current) \in Seq(Int) /\ Headed(Current) \in Seq(Int)
      /\ Sized(Current) \in Seq(Int) /\ Payload(Current, tx.pos) \in Seq(Int)
      /\ <<Flag>> \in Seq(Int) /\ <<>> \in Seq(Int)
<2>1. tx.pos \in Nat
  BY DEF LinkInv, TypeInv
<2>2. Current \in Frame
  BY CurrentType
<2>3. Wire(Current) \in Seq(Int) /\ Headed(Current) \in Seq(Int) /\ Sized(Current) \in Seq(Int)
  BY <2>2, WireType
<2>4. Payload(Current, tx.pos) \in Seq(Int)
  BY <2>1, <2>2, PayloadType
<2>5. <<Flag>> \in Seq(Int) /\ <<>> \in Seq(Int)
  BY LsdAssumption
<2> QED BY <2>3, <2>4, <2>5
<1> QED BY <1>1 DEF Unsent

\* An octet that is put into the FIFO is no longer to be sent.
LEMMA PutFlight ==
    ASSUME LinkInv, LinkInv', NEW b \in Int, UNCHANGED rxf, txf' = Append(txf, b),
           Unsent = <<b>> \o Unsent'
    PROVE  UNCHANGED Flight
<1>1. txf \in Seq(Int) /\ Unsent' \in Seq(Int) /\ <<b>> \in Seq(Int)
<2>1. Unsent' \in Seq(Int)
  BY UnsentType
<2> QED BY <2>1 DEF LinkInv, TypeInv
<1>2. txf' = txf \o <<b>>
BY <1>1
<1>3. (txf \o <<b>>) \o Unsent' = txf \o (<<b>> \o Unsent')
BY <1>1, IntConcat, Zenon
<1> QED BY <1>2, <1>3 DEF Flight

LEMMA LineFlight ==
    ASSUME LinkInv, Line
    PROVE  UNCHANGED Flight
<1>1. txf \in Seq(Int) /\ rxf \in Seq(Int) /\ Unsent \in Seq(Int) /\ txf # <<>>
  BY UnsentType DEF LinkInv, TypeInv, Line
<1>2. UNCHANGED Unsent
  BY DEF Line, Unsent, Current
<1>3. PICK b \in Int, t \in Seq(Int) : b = Head(txf) /\ t = Tail(txf) /\ txf = <<b>> \o t
  BY <1>1, ConsHead
<1>4. <<b>> \in Seq(Int) /\ t \o Unsent \in Seq(Int)
  BY <1>1
<1>5. (<<b>> \o t) \o Unsent = <<b>> \o (t \o Unsent)
<2>1. PICK x \in Seq(Int) : x = <<b>>
  BY <1>4
<2>2. (x \o t) \o Unsent = x \o (t \o Unsent)
  BY <1>1, IntConcat, Zenon
<2> QED BY <2>1, <2>2
<1>6. (rxf \o <<b>>) \o (t \o Unsent) = rxf \o (<<b>> \o (t \o Unsent))
<2>1. PICK u \in Seq(Int) : u = t \o Unsent
  BY <1>4
<2>2. (rxf \o <<b>>) \o u = rxf \o (<<b>> \o u)
  <3>1. PICK x \in Seq(Int) : x = <<b>>
    BY <1>4
  <3>2. rxf \in Seq(Int)
    BY <1>1
  <3>3. (rxf \o x) \o u = rxf \o (x \o u)
    BY <3>2, IntConcat, Zenon
  <3> QED BY <3>1, <3>3
<2> QED BY <2>1, <2>2
<1>7. rxf' = rxf \o <<b>> /\ txf' = t
BY <1>1, <1>3 DEF Line
<1> QED BY <1>2, <1>3, <1>5, <1>6, <1>7 DEF Flight

LEMMA TakeFlight ==
    ASSUME LinkInv, NEW st, NEW pc, Take(st, pc)
    PROVE  /\ Byte \in Int /\ Flight' \in Seq(Int)
           /\ Flight = <<Byte>> \o Flight'
<1>1. txf \in Seq(Int) /\ rxf \in Seq(Int) /\ Unsent \in Seq(Int) /\ rxf # <<>>
  BY UnsentType DEF LinkInv, TypeInv, Take
<1>2. UNCHANGED <<Unsent, txf>>
  BY DEF Take, Unsent, Current
<1>3. PICK b \in Int, t \in Seq(Int) : b = Head(rxf) /\ t = Tail(rxf) /\ rxf = <<b>> \o t
  BY <1>1, ConsHead
<1>4. <<b>> \in Seq(Int) /\ txf \o Unsent \in Seq(Int)
  BY <1>1
<1>5. (<<b>> \o t) \o (txf \o Unsent) = <<b>> \o (t \o (txf \o Unsent))
  BY <1>3, <1>4, IntConcat, Zenon
<1>6. rxf' = t /\ Byte = b
  BY <1>3 DEF Take, Byte
<1>7. t \o (txf \o Unsent) \in Seq(Int)
  BY <1>3, <1>4
<1>8. Flight' = t \o (txf \o Unsent)
  BY <1>2, <1>6 DEF Flight
<1>9. Flight = (<<b>> \o t) \o (txf \o Unsent)
  BY <1>3 DEF Flight
<1> QED BY <1>5, <1>6, <1>7, <1>8, <1>9

LEMMA NextByte ==
    ASSUME LinkInv, NEW st, NEW pc, Take(st, pc),
           NEW b \in Int, NEW x \in Seq(Int), NEW w \in Seq(Int),
           Flight = (<<b>> \o x) \o w
    PROVE  Byte = b /\ Flight' = x \o w
<1>1. <<b>> \in Seq(Int) /\ x \o w \in Seq(Int)
  OBVIOUS
<1>2. (<<b>> \o x) \o w = <<b>> \o (x \o w)
  BY <1>1, IntConcat, Zenon
<1>3. PICK a \in Int, s \in Seq(Int) : a = Byte /\ s = Flight' /\ Flight = <<a>> \o s
  BY TakeFlight
<1>4. PICK t \in Seq(Int) : t = x \o w
  BY <1>1
<1>5. <<a>> \o s = <<b>> \o t
  BY <1>2, <1>3, <1>4
<1>6. Head(<<a>> \o s) = a /\ Tail(<<a>> \o s) = s
  BY <1>3, IntCons
<1>7. Head(<<b>> \o t) = b /\ Tail(<<b>> \o t) = t
  BY <1>4, IntCons
<1> QED BY <1>3, <1>4, <1>5, <1>6, <1>7, Zenon

\* lsd_send(): the frame is behind everything.
LEMMA SendFlight ==
    ASSUME LinkInv, NEW f \in Frame, NEW cb, Send(f, cb)
    PROVE  Flight' = Flight \o Wire(f)
<1>1. Unsent = <<>>
  BY DEF Send, Unsent, TxBusy
<1>2. Unsent' = Wire(f)
<2>1. tx'.stat = "stx" /\ Current' = f
  BY DEF Send, Current, Frame
<2> QED BY <2>1 DEF Unsent
<1>3. txf \in Seq(Int) /\ rxf \in Seq(Int) /\ Wire(f) \in Seq(Int)
BY WireType DEF LinkInv, TypeInv
<1>4. Flight = rxf \o txf
BY <1>1, <1>3, ConcatNone DEF Flight
<1>5. (rxf \o txf) \o Wire(f) = rxf \o (txf \o Wire(f))
BY <1>3, IntConcat, Zenon
<1>6. UNCHANGED <<rxf, txf>>
BY DEF Send
<1> QED BY <1>2, <1>4, <1>5, <1>6 DEF Flight

\* lsd_process(), its sending half: the frame goes out octet by octet.
LEMMA ProcessFlight ==
    ASSUME LinkInv, SenderInv, Process
    PROVE  SenderInv' /\ UNCHANGED Flight
<1>1. LinkInv'
  BY ProcessKeeps
<1>2. Current \in Frame /\ Current.data = tx.data /\ Current.ch = tx.ch
  BY CurrentType DEF Current
<1>3. Flag \in Int /\ Len(tx.data) \in Nat /\ tx.pos \in Nat
  BY LsdAssumption DEF LinkInv, TypeInv
<1>4. CASE UNCHANGED <<tx, txf, rxf>>
  BY <1>4 DEF SenderInv, Flight, Unsent, Current
<1>5. CASE SendStx
<2>1. tx' = [tx EXCEPT !.stat = "ch_lenh"] /\ tx.stat = "stx"
  BY <1>5 DEF SendStx, Put
<2>2. tx'.stat = "ch_lenh" /\ tx'.data = tx.data /\ tx'.pos = tx.pos /\ tx'.ch = tx.ch
  BY <2>1 DEF LinkInv, TypeInv
<2>3. Unsent = <<Flag>> \o Unsent'
  <3>1. Current' = Current
    BY <2>2 DEF Current
  <3>2. Unsent = Wire(Current) /\ Unsent' = Headed(Current)
    BY <2>1, <2>2, <3>1 DEF Unsent
  <3> QED BY <3>2 DEF Wire
<2>4. UNCHANGED Flight
  BY <1>1, <1>3, <1>5, <2>3, PutFlight DEF SendStx, Put
<2> QED BY <2>1, <2>2, <2>4 DEF SenderInv, TxBusy
<1>6. CASE SendHeader
<2>1. tx' = [tx EXCEPT !.stat = "len"] /\ tx.stat = "ch_lenh"
  BY <1>6 DEF SendHeader, Put
<2>2. tx'.stat = "len" /\ tx'.data = tx.data /\ tx'.pos = tx.pos /\ tx'.ch = tx.ch
  BY <2>1 DEF LinkInv, TypeInv
<2> DEFINE b == tx.ch * HighBase + Len(tx.data) \div LowBase
<2>3. Unsent = <<b>> \o Unsent' /\ b \in Int
  <3>1. Current' = Current
    BY <2>2 DEF Current
  <3>2. Unsent = Headed(Current) /\ Unsent' = Sized(Current)
    BY <2>1, <2>2, <3>1 DEF Unsent
  <3>3. b \in Int
    BY <1>2, FrameBytes
  <3> QED BY <1>2, <3>2, <3>3 DEF Headed
<2>4. txf' = Append(txf, b) /\ UNCHANGED rxf
  BY <1>6 DEF SendHeader, Put
<2> HIDE DEF b
<2>5. UNCHANGED Flight
  BY <1>1, <2>3, <2>4, PutFlight
<2> QED BY <2>1, <2>2, <2>5 DEF SenderInv, TxBusy
<1>7. CASE SendLen
<2>1. tx' = [tx EXCEPT !.stat = "data"] /\ tx.stat = "len"
  BY <1>7 DEF SendLen, Put
<2>2. tx'.stat = "data" /\ tx'.data = tx.data /\ tx'.pos = tx.pos /\ tx'.ch = tx.ch
  BY <2>1 DEF LinkInv, TypeInv
<2>3. tx.pos = 0 /\ Len(tx.data) > 0
  BY <2>1 DEF SenderInv, TxBusy
<2> DEFINE b == Len(tx.data) % LowBase
<2>4. Unsent = <<b>> \o Unsent' /\ b \in Int
  <3>1. Current' = Current
    BY <2>2 DEF Current
  <3>2. Unsent = Sized(Current) /\ Unsent' = Payload(Current, 0)
    BY <2>1, <2>2, <2>3, <3>1 DEF Unsent
  <3>3. b \in Int
    BY <1>2, FrameBytes
  <3> QED BY <1>2, <3>2, <3>3 DEF Sized
<2>5. txf' = Append(txf, b) /\ UNCHANGED rxf
  BY <1>7 DEF SendLen, Put
<2> HIDE DEF b
<2>6. UNCHANGED Flight
  BY <1>1, <2>4, <2>5, PutFlight
<2> QED BY <2>1, <2>2, <2>3, <2>6 DEF SenderInv, TxBusy
<1>8. CASE SendByte
<2>1. tx.stat = "data"
  BY <1>8 DEF SendByte, Put
<2>2. tx.pos < Len(tx.data)
  BY <2>1 DEF SenderInv
<2> DEFINE b == tx.data[tx.pos + 1]
<2>3. txf' = Append(txf, b) /\ UNCHANGED rxf
  BY <1>8, <2>2 DEF SendByte, Put
<2>4. /\ tx'.pos = tx.pos + 1 /\ tx'.data = tx.data /\ tx'.ch = tx.ch
      /\ tx'.stat = IF tx.pos + 1 >= Len(tx.data) THEN "etx" ELSE "data"
  BY <1>8, <2>1 DEF SendByte, LinkInv, TypeInv
<2>5. Current' = Current
  BY <2>4 DEF Current
<2>6. b \in Int /\ Payload(Current, tx.pos) = <<b>> \o Payload(Current, tx.pos + 1)
  BY <1>2, <1>3, <2>2, PayloadStep
<2>7. Unsent = Payload(Current, tx.pos)
  BY <2>1 DEF Unsent
<2>8. Unsent' = Payload(Current, tx.pos + 1)
  <3>1. CASE tx.pos + 1 >= Len(tx.data)
    <4>1. tx.pos + 1 = Len(Current.data) /\ tx'.stat = "etx"
      BY <1>2, <1>3, <2>2, <2>4, <3>1
    <4>2. Unsent' = <<Flag>>
      BY <4>1 DEF Unsent
    <4> QED BY <1>2, <4>1, <4>2, PayloadEnd
  <3>2. CASE ~(tx.pos + 1 >= Len(tx.data))
    BY <2>4, <2>5, <3>2 DEF Unsent
  <3> QED BY <3>1, <3>2
<2> HIDE DEF b
<2>9. UNCHANGED Flight
  BY <1>1, <2>3, <2>6, <2>7, <2>8, PutFlight
<2>10. SenderInv'
  BY <1>3, <2>2, <2>4 DEF SenderInv, TxBusy
<2> QED BY <2>9, <2>10
<1>9. CASE SendEtx
<2>1. tx' = [tx EXCEPT !.stat = "idle"] /\ tx.stat = "etx"
  BY <1>9 DEF SendEtx, Put
<2>2. tx'.stat = "idle"
  BY <2>1 DEF LinkInv, TypeInv
<2>3. Unsent = <<Flag>> \o Unsent'
  <3>1. Unsent = <<Flag>> /\ Unsent' = <<>> /\ <<Flag>> \in Seq(Int)
    BY <1>3, <2>1, <2>2 DEF Unsent
  <3> QED BY <3>1, ConcatNone
<2>4. UNCHANGED Flight
  BY <1>1, <1>3, <1>9, <2>3, PutFlight DEF SendEtx, Put
<2> QED BY <2>2, <2>4 DEF SenderInv, TxBusy
<1> QED BY <1>4, <1>5, <1>6, <1>7, <1>8, <1>9
  DEF Process, ProcStart, ProcTx, ProcRound, TxDone

-----------------------------------------------------------------------------
(* The receiver, while nothing is reported.                                *)

LEMMA HistoryKept ==
    ASSUME UNCHANGED history
    PROVE  /\ UNCHANGED <<sent, recvd, at, Due>>
           /\ \A n : Behind(n)' = Behind(n)
  BY DEF history, at, Due, Behind

LEMMA DueType ==
    ASSUME QueueInv
    PROVE  /\ at.frame \in Nat /\ at.frame - 1 \in 0 .. Len(sent) /\ at.off \in Nat
           /\ Len(sent) \in Nat
           /\ Behind(at.frame - 1) \in Seq(Int)
           /\ at.frame <= Len(sent) =>
                 /\ at.frame \in 1 .. Len(sent)
                 /\ Due \in Frame /\ Due \in Frames
                 /\ Len(Due.data) <= MaxLen /\ Due.ch \in chOn \cup ChOff
                 /\ Behind(at.frame) \in Seq(Int)
                 /\ Behind(at.frame - 1) = Wire(Due) \o Behind(at.frame)
<1>1. at.frame \in 1 .. Len(sent) + 1 /\ at.off \in Nat /\ Len(sent) \in Nat
  BY DEF QueueInv, ReportInv, SentInv
<1>2. at.frame - 1 \in 0 .. Len(sent)
  BY <1>1
<1>3. Behind(at.frame - 1) \in Seq(Int)
  BY <1>2, BehindType DEF QueueInv
<1>4. ASSUME at.frame <= Len(sent)
      PROVE  /\ at.frame \in 1 .. Len(sent)
             /\ Due \in Frame /\ Due \in Frames
             /\ Len(Due.data) <= MaxLen /\ Due.ch \in chOn \cup ChOff
             /\ Behind(at.frame) \in Seq(Int)
             /\ Behind(at.frame - 1) = Wire(Due) \o Behind(at.frame)
<2>1. at.frame \in 1 .. Len(sent) /\ at.frame \in 0 .. Len(sent)
  BY <1>1, <1>4
<2>2. Due \in Frame /\ Due \in Frames
  BY <2>1, WiresType DEF QueueInv, Due
<2>3. Len(Due.data) <= MaxLen /\ Due.ch \in chOn \cup ChOff
  BY <2>1 DEF QueueInv, SentInv, Due
<2>4. Behind(at.frame) \in Seq(Int)
  BY <2>1, BehindType DEF QueueInv
<2>5. Behind(at.frame - 1) = Wire(Due) \o Behind(at.frame)
  BY <2>1, BehindFirst DEF QueueInv, Due
<2> QED BY <2>1, <2>2, <2>3, <2>4, <2>5
<1> QED BY <1>1, <1>2, <1>3, <1>4

\* When nothing but the frames behind is on its way, a Flag comes next.
LEMMA FlagFirst ==
    ASSUME QueueInv, NEW st, NEW pc, Take(st, pc), Flight = Behind(at.frame - 1)
    PROVE  /\ at.frame <= Len(sent)
           /\ Byte = Flag
           /\ Flight' = Headed(Due) \o Behind(at.frame)
<1>1. at.frame <= Len(sent)
<2> SUFFICES ASSUME ~(at.frame <= Len(sent)) PROVE FALSE
  OBVIOUS
<2>1. at.frame - 1 = Len(sent)
  BY DueType
<2>2. Flight = <<>>
  BY <2>1, BehindNone DEF QueueInv
<2>3. PICK b \in Int, s \in Seq(Int) : Flight = <<b>> \o s
  BY TakeFlight DEF QueueInv
<2>4. <<b>> \o s # <<>>
  BY <2>3
<2> QED BY <2>2, <2>3, <2>4
<1>2. /\ Headed(Due) \in Seq(Int) /\ Flag \in Int /\ Behind(at.frame) \in Seq(Int)
    /\ Flight = (<<Flag>> \o Headed(Due)) \o Behind(at.frame)
<2>1. Due \in Frame /\ Behind(at.frame) \in Seq(Int)
      /\ Flight = Wire(Due) \o Behind(at.frame)
  BY <1>1, DueType
<2> QED BY <2>1, WireType, LsdAssumption DEF Wire
<1>3. Byte = Flag /\ Flight' = Headed(Due) \o Behind(at.frame)
BY <1>2, NextByte DEF QueueInv
<1> QED BY <1>1, <1>3

LEMMA NoiseNext ==
    ASSUME NEW n \in Seq(Int), n # <<>>, Noise(n)
    PROVE  /\ Noise(Tail(n))
           /\ Head(n) = Flag => Tail(n) = <<>>
<1>1. PICK m \in Nat : /\ Len(n) = m + 1 /\ Len(Tail(n)) = m /\ Head(n) = n[1]
                       /\ Tail(n) \in Seq(Int)
<2>1. Len(n) - 1 \in Nat /\ Len(n) = (Len(n) - 1) + 1 /\ Len(Tail(n)) = Len(n) - 1
      /\ Head(n) = n[1] /\ Tail(n) \in Seq(Int)
  OBVIOUS
<2> QED BY <2>1
<1>2. \A i \in 1 .. Len(Tail(n)) : Tail(n)[i] = n[i + 1]
OBVIOUS
<1>3. Noise(Tail(n))
<2> SUFFICES ASSUME NEW i \in 1 .. Len(Tail(n)), Tail(n)[i] = Flag
             PROVE  i = Len(Tail(n))
  BY DEF Noise
<2>1. i + 1 \in 1 .. Len(n) /\ n[i + 1] = Flag
  BY <1>1, <1>2
<2>2. i + 1 = m + 1
  BY <1>1, <2>1 DEF Noise
<2>3. i \in 1 .. m
  BY <1>1
<2> QED BY <1>1, <2>2, <2>3
<1>4. Head(n) = Flag => Len(Tail(n)) = 0
<2> SUFFICES ASSUME n[1] = Flag PROVE m = 0
  BY <1>1
<2>1. 1 \in 1 .. Len(n)
  BY <1>1
<2>2. 1 = m + 1
  BY <1>1, <2>1 DEF Noise
<2> QED BY <1>1, <2>2
<1> QED BY <1>1, <1>3, <1>4

LEMMA StxPlace ==
    ASSUME QueueInv, RecvStx, UNCHANGED history
    PROVE  PlaceInv'
<1>1. rx.stat = "stx" /\ Take("stx", "rx")
  BY DEF RecvStx, Take
<1>2. at.off = 0 /\ \E n \in Seq(Int) : Noise(n) /\ Flight = n \o Behind(at.frame - 1)
  BY <1>1 DEF QueueInv, PlaceInv, BetweenInv
<1>3. PICK n \in Seq(Int) : Noise(n) /\ Flight = n \o Behind(at.frame - 1)
  BY <1>2
<1>4. Behind(at.frame - 1) \in Seq(Int)
  BY DueType
<1>5. CASE n = <<>>
<2>1. Flight = Behind(at.frame - 1)
  BY <1>3, <1>4, <1>5, ConcatNone
<2>2. at.frame <= Len(sent) /\ Byte = Flag /\ Flight' = Headed(Due) \o Behind(at.frame)
  BY <1>1, <2>1, FlagFirst
<2>3. rx'.stat = "ch_lenh"
  BY <2>2 DEF RecvStx, QueueInv, LinkInv, TypeInv
<2>4. HeaderInv'
  BY <1>2, <2>2, HistoryKept DEF HeaderInv, Comes
<2> QED BY <2>3, <2>4
        DEF PlaceInv, BetweenInv, SizeInv, DataInv, PartialInv, EtxInv
<1>6. CASE n # <<>>
<2>1. n = <<Head(n)>> \o Tail(n) /\ Head(n) \in Int /\ Tail(n) \in Seq(Int)
  BY <1>6, ConsHead
<2>2. Noise(Tail(n)) /\ (Head(n) = Flag => Tail(n) = <<>>)
  BY <1>3, <1>6, NoiseNext
<2>3. PICK b \in Int, t \in Seq(Int) : b = Head(n) /\ t = Tail(n) /\ n = <<b>> \o t
  BY <2>1
<2>4. Flight = (<<b>> \o t) \o Behind(at.frame - 1)
  BY <1>3, <2>3
<2>5. Byte = b /\ Flight' = t \o Behind(at.frame - 1)
  BY <1>1, <1>4, <2>3, <2>4, NextByte DEF QueueInv
<2>6. CASE Byte = Flag
  <3>1. rx'.stat = "ch_lenh"
    BY <2>6 DEF RecvStx, QueueInv, LinkInv, TypeInv
  <3>2. Flight' = Behind(at.frame - 1)
    BY <1>4, <2>2, <2>3, <2>5, <2>6, ConcatNone
  <3>3. HeaderInv'
    BY <1>2, <3>2, HistoryKept DEF HeaderInv
  <3> QED BY <3>1, <3>3
          DEF PlaceInv, BetweenInv, SizeInv, DataInv, PartialInv, EtxInv
<2>7. CASE Byte # Flag
  <3>1. rx'.stat = "stx"
    BY <1>1, <2>7 DEF RecvStx
  <3>2. BetweenInv'
    BY <1>2, <2>2, <2>3, <2>5, HistoryKept DEF BetweenInv
  <3> QED BY <3>1, <3>2
          DEF PlaceInv, HeaderInv, SizeInv, DataInv, PartialInv, EtxInv
<2> QED BY <2>6, <2>7
<1> QED BY <1>5, <1>6

\* The header of the frame that is due is what it says.
LEMMA HeaderByte ==
    ASSUME QueueInv, NEW pc, Take("ch_lenh", pc), Byte # Flag
    PROVE  /\ at.frame <= Len(sent) /\ at.off = 0
           /\ HeaderCh = Due.ch
           /\ Byte % HighBase = Len(Due.data) \div LowBase
           /\ Flight' = Sized(Due) \o Behind(at.frame)
<1>1. at.off = 0 /\ (Flight = Behind(at.frame - 1) \/ Comes(Headed(Due)))
  BY DEF Take, QueueInv, PlaceInv, HeaderInv
<1>2. Comes(Headed(Due))
  BY <1>1, FlagFirst
<1> DEFINE b == Due.ch * HighBase + Len(Due.data) \div LowBase
<1>3. /\ at.frame <= Len(sent) /\ Due \in Frame /\ Len(Due.data) <= MaxLen
      /\ Behind(at.frame) \in Seq(Int)
      /\ Flight = (<<b>> \o Sized(Due)) \o Behind(at.frame)
  BY <1>2, DueType DEF Comes, Headed
<1>4. b \in Int /\ Sized(Due) \in Seq(Int)
  BY <1>3, FrameBytes, WireType
<1>5. b \div HighBase = Due.ch /\ b % HighBase = Len(Due.data) \div LowBase
  BY <1>3, HeaderSays
<1> HIDE DEF b
<1>6. Byte = b /\ Flight' = Sized(Due) \o Behind(at.frame)
  BY <1>3, <1>4, NextByte DEF QueueInv
<1> QED BY <1>1, <1>3, <1>5, <1>6 DEF HeaderCh

LEMMA FlagAgainPlace ==
    ASSUME QueueInv, RecvFlagAgain, UNCHANGED history
    PROVE  PlaceInv'
<1>1. rx.stat = "ch_lenh" /\ Take("ch_lenh", "rx") /\ Byte = Flag /\ rx' = rx
  BY DEF RecvFlagAgain, Take
<1>2. at.off = 0 /\ (Flight = Behind(at.frame - 1) \/ Comes(Headed(Due)))
  BY <1>1 DEF QueueInv, PlaceInv, HeaderInv
<1>3. Flight = Behind(at.frame - 1)
<2> SUFFICES ASSUME Comes(Headed(Due)) PROVE FALSE
  BY <1>2
<2> DEFINE b == Due.ch * HighBase + Len(Due.data) \div LowBase
<2>1. /\ Due \in Frame /\ Len(Due.data) <= MaxLen /\ Behind(at.frame) \in Seq(Int)
      /\ Flight = (<<b>> \o Sized(Due)) \o Behind(at.frame)
  BY DueType DEF Comes, Headed
<2>2. b \in Int /\ Sized(Due) \in Seq(Int)
  BY <2>1, FrameBytes, WireType
<2>3. b # Flag
  BY <2>1, HeaderSays
<2> HIDE DEF b
<2>4. Byte = b
  BY <1>1, <2>1, <2>2, NextByte DEF QueueInv
<2> QED BY <1>1, <2>3, <2>4
<1>4. at.frame <= Len(sent) /\ Flight' = Headed(Due) \o Behind(at.frame)
BY <1>1, <1>3, FlagFirst
<1>5. HeaderInv'
BY <1>2, <1>4, HistoryKept DEF HeaderInv, Comes
<1> QED BY <1>1, <1>5 DEF PlaceInv, BetweenInv, SizeInv, DataInv, PartialInv, EtxInv

LEMMA HeaderPlace ==
    ASSUME QueueInv, RecvHeader, UNCHANGED history
    PROVE  PlaceInv'
<1>1. Take("ch_lenh", "rx") /\ Byte # Flag
  BY DEF RecvHeader
<1>2. rx'.stat = "len" /\ rx'.ch = HeaderCh /\ rx'.len = (Byte % HighBase) * LowBase
  BY DEF RecvHeader, QueueInv, LinkInv, TypeInv
<1>3. SizeInv'
  BY <1>1, <1>2, HeaderByte, HistoryKept DEF SizeInv, Comes
<1> QED BY <1>2, <1>3
        DEF PlaceInv, BetweenInv, HeaderInv, DataInv, PartialInv, EtxInv

LEMMA LenPlace ==
    ASSUME QueueInv, FaithfulUse, RecvLen, UNCHANGED history
    PROVE  PlaceInv'
<1>1. Take("len", "rx") /\ rx.stat = "len"
  BY DEF RecvLen, Take
<1>2. /\ at.off = 0 /\ rx.ch = Due.ch
      /\ rx.len = (Len(Due.data) \div LowBase) * LowBase
      /\ at.frame <= Len(sent)
      /\ Flight = Sized(Due) \o Behind(at.frame)
  BY <1>1 DEF QueueInv, PlaceInv, SizeInv, Comes
<1>3. Due \in Frame /\ Due \in Frames /\ Behind(at.frame) \in Seq(Int)
  BY <1>2, DueType
<1> DEFINE b == Len(Due.data) % LowBase
<1>4. /\ b \in Int /\ Payload(Due, 0) \in Seq(Int)
      /\ Flight = (<<b>> \o Payload(Due, 0)) \o Behind(at.frame)
  BY <1>2, <1>3, FrameBytes, PayloadType DEF Sized
<1>5. rx.len + b = Len(Due.data) /\ Len(Due.data) \in Nat
<2>1. Len(Due.data) \in Nat /\ LowBase \in Nat \ {0}
  BY <1>3, FrameBytes, LsdAssumption
<2> QED BY <1>2, <2>1, DigitsOf
<1> HIDE DEF b
<1>6. Byte = b /\ Flight' = Payload(Due, 0) \o Behind(at.frame)
BY <1>1, <1>3, <1>4, NextByte DEF QueueInv
<1>7. Len(Due.data) > 0
BY <1>3 DEF FaithfulUse
<1>8. rx'.stat = "data" /\ rx'.ch = rx.ch /\ rx'.len = Len(Due.data) /\ rx'.data = <<>>
<2>1. rx' = [rx EXCEPT !.stat = "data", !.len = Len(Due.data), !.data = <<>>]
  BY <1>5, <1>6, <1>7 DEF RecvLen
<2> QED BY <2>1 DEF QueueInv, LinkInv, TypeInv
<1>9. rx'.len = Len(Due.data) - at.off /\ Len(rx'.data) < rx'.len
    /\ at.off + Len(rx'.data) = 0
BY <1>2, <1>5, <1>7, <1>8
<1>10. SubSeq(Due.data, at.off + 1, at.off + Len(rx'.data)) = <<>>
BY <1>2, <1>3, <1>9 DEF Frame
<1>11. DataInv'
BY <1>2, <1>6, <1>8, <1>9, <1>10, HistoryKept DEF DataInv, Comes
<1> QED BY <1>8, <1>11
      DEF PlaceInv, BetweenInv, HeaderInv, SizeInv, PartialInv, EtxInv

\* The next octet of the payload that is due.
LEMMA DataByte ==
    ASSUME QueueInv, NEW pc, Take("data", pc)
    PROVE  /\ at.frame <= Len(sent) /\ Due \in Frame /\ at.off \in Nat
           /\ Len(rx.data) \in Nat /\ Len(Due.data) \in Nat
           /\ rx.ch = Due.ch
           /\ rx.len = Len(Due.data) - at.off /\ Len(rx.data) < rx.len
           /\ Append(rx.data, Byte)
              = SubSeq(Due.data, at.off + 1, at.off + Len(rx.data) + 1)
           /\ Len(Append(rx.data, Byte)) = Len(rx.data) + 1
           /\ Flight' = Payload(Due, at.off + Len(rx.data) + 1) \o Behind(at.frame)
<1>1. /\ rx.ch = Due.ch
      /\ rx.len = Len(Due.data) - at.off
      /\ Len(rx.data) < rx.len
      /\ rx.data = SubSeq(Due.data, at.off + 1, at.off + Len(rx.data))
      /\ at.frame <= Len(sent)
      /\ Flight = Payload(Due, at.off + Len(rx.data)) \o Behind(at.frame)
  BY DEF Take, QueueInv, PlaceInv, DataInv, Comes
<1>2. /\ Due \in Frame /\ at.off \in Nat /\ Len(rx.data) \in Nat /\ Len(Due.data) \in Nat
      /\ Behind(at.frame) \in Seq(Int)
  BY <1>1, DueType, FrameBytes DEF QueueInv, LinkInv, TypeInv
<1> DEFINE n == at.off + Len(rx.data)
           b == Due.data[n + 1]
<1>3. n \in Nat /\ n < Len(Due.data)
  BY <1>1, <1>2
<1> HIDE DEF n
<1>4. b \in Int /\ Payload(Due, n) = <<b>> \o Payload(Due, n + 1)
      /\ Payload(Due, n + 1) \in Seq(Int)
<2>1. Payload(Due, n + 1) \in Seq(Int)
  BY <1>2, <1>3, PayloadType
<2> QED BY <1>2, <1>3, <2>1, PayloadStep
<1>5. Flight = (<<b>> \o Payload(Due, n + 1)) \o Behind(at.frame)
BY <1>1, <1>4 DEF n
<1>6. Byte = b /\ Flight' = Payload(Due, n + 1) \o Behind(at.frame)
<2> HIDE DEF b
<2> QED BY <1>2, <1>4, <1>5, NextByte DEF QueueInv
<1>7. Append(SubSeq(Due.data, at.off + 1, n), b) = SubSeq(Due.data, at.off + 1, n + 1)
<2>1. Due.data \in Seq(Nat) /\ n + 1 \in 1 .. Len(Due.data) /\ at.off + 1 \in 1 .. n + 1
  BY <1>2, <1>3 DEF Frame, n
<2>2. \A d \in Seq(Nat) : \A j \in 1 .. Len(d) : \A i \in 1 .. j :
         SubSeq(d, i, j) = Append(SubSeq(d, i, j - 1), d[j])
  OBVIOUS
<2>3. (n + 1) - 1 = n
  BY <1>3
<2> QED BY <2>1, <2>2, <2>3
<1>8. Len(Append(rx.data, Byte)) = Len(rx.data) + 1
BY <1>4, <1>6 DEF QueueInv, LinkInv, TypeInv
<1> QED BY <1>1, <1>2, <1>6, <1>7, <1>8 DEF n

LEMMA BytePlace ==
    ASSUME QueueInv, RecvByte, UNCHANGED history
    PROVE  PlaceInv'
<1>1. /\ Take("data", "rx") /\ rx.stat = "data" /\ Len(rx.data) + 1 < rx.len
  BY DEF RecvByte, Take
<1>2. /\ rx'.stat = "data" /\ rx'.ch = rx.ch /\ rx'.len = rx.len
      /\ rx'.data = Append(rx.data, Byte)
  BY <1>1 DEF RecvByte, QueueInv, LinkInv, TypeInv
<1>3. Len(rx'.data) = Len(rx.data) + 1
  BY <1>1, <1>2, DataByte
<1>4. at.off + Len(rx'.data) = at.off + Len(rx.data) + 1
  BY <1>1, <1>3, DataByte
<1>5. DataInv'
  BY <1>1, <1>2, <1>3, <1>4, DataByte, HistoryKept DEF DataInv, Comes
<1> QED BY <1>2, <1>5
        DEF PlaceInv, BetweenInv, HeaderInv, SizeInv, PartialInv, EtxInv

LEMMA LastBytePlace ==
    ASSUME QueueInv, RecvLastByte, UNCHANGED history
    PROVE  PlaceInv'
<1>1. Take("data", "rx") /\ Len(rx.data) + 1 >= rx.len
  BY DEF RecvLastByte
<1>2. /\ rx'.stat = "etx" /\ rx'.ch = rx.ch /\ rx'.data = Append(rx.data, Byte)
  BY DEF RecvLastByte, QueueInv, LinkInv, TypeInv
<1>3. at.off + Len(rx.data) + 1 = Len(Due.data) /\ at.off <= Len(Due.data)
<2>1. /\ at.off \in Nat /\ Len(rx.data) \in Nat /\ Len(Due.data) \in Nat
      /\ rx.len = Len(Due.data) - at.off /\ Len(rx.data) < rx.len
  BY <1>1, DataByte
<2> QED BY <1>1, <2>1
<1>4. Payload(Due, at.off + Len(rx.data) + 1) = <<Flag>>
BY <1>1, <1>3, DataByte, PayloadEnd
<1>5. EtxInv'
BY <1>1, <1>2, <1>3, <1>4, DataByte, HistoryKept DEF EtxInv, Comes
<1> QED BY <1>2, <1>5
      DEF PlaceInv, BetweenInv, HeaderInv, SizeInv, DataInv, PartialInv

-----------------------------------------------------------------------------
(* The reports, which are the steps of the queue.                          *)

LEMMA ReportStep ==
    ASSUME ReportInv, NEW r \in Reports, recvd' = Append(recvd, r)
    PROVE  recvd' \in Seq(Reports) /\ at' = Report(at, r)
<1>1. recvd \in Seq(Reports)
  BY DEF ReportInv
<1>2. Reported(Append(recvd, r)) = Report(Reported(recvd), r)
  BY <1>1, ReportedGrows
<1> QED BY <1>1, <1>2 DEF at

\* The frame due is done with.
LEMMA NextDue ==
    ASSUME QueueInv, at.frame <= Len(sent), UNCHANGED sent,
           recvd' \in Seq(Reports), at' = [frame |-> at.frame + 1, off |-> 0]
    PROVE  ReportInv' /\ at'.off = 0 /\ at'.frame - 1 = at.frame
           /\ Behind(at.frame - 1)' = Behind(at.frame)
<1>1. at.frame \in Nat /\ Len(sent) \in Nat
  BY DueType
<1>2. at'.off = 0 /\ at'.frame = at.frame + 1
  OBVIOUS
<1>3. at' \in [frame : 1 .. Len(sent) + 1, off : Nat]
  BY <1>1
<1>4. at'.frame - 1 = at.frame
  BY <1>1, <1>2
<1> QED BY <1>2, <1>3, <1>4 DEF ReportInv, Behind

LEMMA BadChannelReports ==
    ASSUME QueueInv, FaithfulUse, RecvBadChannel,
           recvd' = Append(recvd, Error), UNCHANGED sent
    PROVE  PlaceInv' /\ ReportInv' /\ Queue!QueueNext
<1>1. Take("ch_lenh", "rx_cb") /\ Byte # Flag /\ HeaderCh \notin Channel \cap chOn
  BY DEF RecvBadChannel
<1>2. at.frame <= Len(sent) /\ at.off = 0 /\ HeaderCh = Due.ch
      /\ Flight' = Sized(Due) \o Behind(at.frame)
  BY <1>1, HeaderByte
<1>3. Due \in Frame /\ Due \in Frames /\ Due.ch \in chOn \cup ChOff
  BY <1>2, DueType
<1>4. Due.ch \in ChOff
  BY <1>1, <1>2, <1>3 DEF Frame
<1>5. recvd' \in Seq(Reports) /\ at' = [frame |-> at.frame + 1, off |-> 0]
  BY ReportStep DEF Reports, QueueInv, Report
<1>6. ReportInv' /\ at'.off = 0 /\ at'.frame - 1 = at.frame
      /\ Behind(at.frame - 1)' = Behind(at.frame)
  BY <1>2, <1>5, NextDue
<1>7. BetweenInv'
<2>1. Sized(Due) \in Seq(Int) /\ Noise(Sized(Due))
  BY <1>3, <1>4, WireType DEF FaithfulUse
<2> QED BY <1>2, <1>6, <2>1 DEF BetweenInv
<1>8. rx'.stat = "idle"
BY DEF RecvBadChannel, QueueInv, LinkInv, TypeInv
<1>9. PlaceInv'
BY <1>7, <1>8 DEF PlaceInv, HeaderInv, SizeInv, DataInv, PartialInv, EtxInv
<1>10. Queue!QueueNext
BY <1>2, <1>4, <1>5
DEF Queue!QueueNext, Queue!Drop, Queue!Due, Queue!NextFrame, Due
<1> QED BY <1>6, <1>9, <1>10

\* A Flag follows the payload of a frame.
LEMMA EtxFlag ==
    ASSUME QueueInv, NEW pc, Take("etx", pc)
    PROVE  /\ rx.ch = Due.ch /\ at.frame <= Len(sent) /\ at.off <= Len(Due.data)
           /\ Due \in Frame /\ at.off \in Nat
           /\ rx.data = SubSeq(Due.data, at.off + 1, Len(Due.data))
           /\ Byte = Flag /\ Flight' = Behind(at.frame)
<1>1. /\ rx.ch = Due.ch /\ at.off <= Len(Due.data)
      /\ rx.data = SubSeq(Due.data, at.off + 1, Len(Due.data))
      /\ at.frame <= Len(sent)
      /\ Flight = <<Flag>> \o Behind(at.frame)
  BY DEF Take, QueueInv, PlaceInv, EtxInv, Comes
<1>2. Due \in Frame /\ at.off \in Nat /\ Behind(at.frame) \in Seq(Int)
  BY <1>1, DueType
<1>3. PICK x \in Seq(Int) : x = <<>>
<2>1. <<>> \in Seq(Int)
  OBVIOUS
<2> QED BY <2>1
<1>4. Flag \in Int /\ <<Flag>> = <<Flag>> \o x
<2>1. Flag \in Int /\ <<Flag>> \in Seq(Int)
  BY LsdAssumption
<2> QED BY <1>3, <2>1, ConcatNone
<1>5. Flight = (<<Flag>> \o x) \o Behind(at.frame)
BY <1>1, <1>4
<1>6. Byte = Flag /\ Flight' = x \o Behind(at.frame)
BY <1>2, <1>3, <1>4, <1>5, NextByte DEF QueueInv
<1>7. x \o Behind(at.frame) = Behind(at.frame)
BY <1>2, <1>3, ConcatNone
<1> QED BY <1>1, <1>2, <1>6, <1>7

LEMMA EtxReports ==
    ASSUME QueueInv, FaithfulUse, RecvEtx, UNCHANGED sent,
           recvd' = Append(recvd, [ch |-> rx.ch, data |-> rx'.data,
                                   last |-> rx'.stat = "idle"])
    PROVE  PlaceInv' /\ ReportInv' /\ Queue!QueueNext
<1> DEFINE r == [ch |-> rx.ch, data |-> rx.data, last |-> TRUE]
<1>1. Take("etx", "rx_cb") /\ rx.stat = "etx"
  BY DEF RecvEtx, Take
<1>2. rx'.stat = "idle" /\ rx'.data = rx.data
  BY DEF RecvEtx, QueueInv, LinkInv, TypeInv
<1>3. r \in [ch : Int, data : Seq(Int), last : BOOLEAN]
  BY DEF QueueInv, LinkInv, TypeInv
<1>4. r \in Reports /\ r # Error /\ r.last = TRUE /\ recvd' = Append(recvd, r)
  BY <1>2, <1>3 DEF Reports, FaithfulUse
<1>5. /\ rx.ch = Due.ch /\ at.frame <= Len(sent) /\ at.off <= Len(Due.data)
      /\ Due \in Frame /\ at.off \in Nat
      /\ rx.data = SubSeq(Due.data, at.off + 1, Len(Due.data))
      /\ Flight' = Behind(at.frame)
  BY <1>1, EtxFlag
<1> HIDE DEF r
<1>6. recvd' \in Seq(Reports) /\ at' = [frame |-> at.frame + 1, off |-> 0]
  BY <1>4, ReportStep DEF QueueInv, Report
<1>7. ReportInv' /\ at'.off = 0 /\ at'.frame - 1 = at.frame
      /\ Behind(at.frame - 1)' = Behind(at.frame)
  BY <1>5, <1>6, NextDue
<1>8. BetweenInv'
<2>1. PICK n \in Seq(Int) : n = <<>>
  <3>1. <<>> \in Seq(Int)
    OBVIOUS
  <3> QED BY <3>1
<2>2. Noise(n)
  BY <2>1 DEF Noise
<2>3. n \o Behind(at.frame) = Behind(at.frame)
  BY <1>5, <2>1, DueType, ConcatNone
<2> QED BY <1>5, <1>7, <2>2, <2>3 DEF BetweenInv
<1>9. PlaceInv'
BY <1>2, <1>8 DEF PlaceInv, HeaderInv, SizeInv, DataInv, PartialInv, EtxInv
<1>10. Queue!QueueNext
<2> DEFINE n == Len(Due.data) - at.off
<2>1. n \in 0 .. n /\ n \in Nat /\ at.off + n = Len(Due.data)
  BY <1>5, FrameBytes
<2>2. n = Queue!Rest(Due, at.off)
  BY DEF Queue!Rest
<2>3. r = Queue!Piece(n)
  BY <1>5, <2>1, <2>2 DEF r, Queue!Piece, Queue!Due, Due, Queue!Rest
<2>4. Queue!Deliver(n)
  BY <1>4, <1>5, <1>6, <2>1, <2>2, <2>3
  DEF Queue!Deliver, Queue!Due, Due, Queue!NextFrame
<2> QED BY <1>5, <2>1, <2>2, <2>4 DEF Queue!QueueNext, Queue!Due, Due
<1> QED BY <1>7, <1>9, <1>10

LEMMA PartialReports ==
    ASSUME QueueInv, FaithfulUse, RecvPartial, UNCHANGED sent,
           recvd' = Append(recvd, [ch |-> rx.ch, data |-> rx'.data,
                                   last |-> rx'.stat = "idle"])
    PROVE  PlaceInv' /\ ReportInv' /\ Queue!QueueNext
<1> DEFINE d == Append(rx.data, Byte)
           r == [ch |-> rx.ch, data |-> d, last |-> FALSE]
           n == Len(rx.data) + 1
<1>1. Take("data", "rx_cb") /\ rx.stat = "data" /\ n < rx.len
  BY DEF RecvPartial, Take
<1>2. /\ rx'.stat = "partial" /\ rx'.ch = rx.ch /\ rx'.data = d
      /\ rx'.len = rx.len - n
  BY DEF RecvPartial, QueueInv, LinkInv, TypeInv
<1>3. /\ at.frame <= Len(sent) /\ Due \in Frame /\ at.off \in Nat
      /\ Len(rx.data) \in Nat /\ Len(Due.data) \in Nat
      /\ rx.ch = Due.ch
      /\ rx.len = Len(Due.data) - at.off
      /\ d = SubSeq(Due.data, at.off + 1, at.off + Len(rx.data) + 1)
      /\ Len(d) = Len(rx.data) + 1
      /\ Flight' = Payload(Due, at.off + Len(rx.data) + 1) \o Behind(at.frame)
  BY <1>1, DataByte
<1>4. /\ n \in Nat /\ at.off + Len(rx.data) + 1 = at.off + n
      /\ n < Len(Due.data) - at.off
      /\ Len(Due.data) - at.off \in Nat /\ rx.len = Len(Due.data) - at.off
      /\ at.off \in Nat /\ Len(Due.data) \in Nat
<2>1. /\ at.off \in Nat /\ Len(rx.data) \in Nat /\ Len(Due.data) \in Nat
      /\ rx.len = Len(Due.data) - at.off
  BY <1>3
<2> QED BY <1>1, <2>1
<1>5. r \in [ch : Int, data : Seq(Int), last : BOOLEAN]
<2>1. Byte \in Int
  BY <1>1, TakeFlight DEF QueueInv
<2> QED BY <2>1 DEF QueueInv, LinkInv, TypeInv
<1>6. r \in Reports /\ r # Error /\ r.last = FALSE /\ r.data = d
    /\ recvd' = Append(recvd, r)
BY <1>2, <1>5 DEF Reports, FaithfulUse
<1> HIDE DEF d, r, n
<1>7. recvd' \in Seq(Reports) /\ at' = [at EXCEPT !.off = @ + n]
BY <1>3, <1>6, ReportStep DEF QueueInv, Report, n
<1>8. at'.frame = at.frame /\ at'.off = at.off + n /\ ReportInv'
<2>1. at \in [frame : 1 .. Len(sent) + 1, off : Nat] /\ at.off + n \in Nat
  BY <1>4 DEF QueueInv, ReportInv
<2> QED BY <1>7, <2>1 DEF ReportInv
<1>9. Due' = Due /\ Behind(at.frame)' = Behind(at.frame)
BY <1>8 DEF Due, Behind
<1>10. PartialInv'
<2>1. rx'.len = Len(Due.data) - (at.off + n) /\ 0 < rx'.len
  BY <1>2, <1>4
<2>2. Comes(Payload(Due, at.off))'
  BY <1>3, <1>4, <1>8, <1>9 DEF Comes
<2> QED BY <1>2, <1>3, <1>8, <1>9, <2>1, <2>2 DEF PartialInv
<1>11. PlaceInv'
BY <1>2, <1>10 DEF PlaceInv, BetweenInv, HeaderInv, SizeInv, DataInv, EtxInv
<1>12. Queue!QueueNext
<2>1. Queue!Due = Due /\ Queue!Rest(Due, at.off) = Len(Due.data) - at.off
  BY DEF Queue!Due, Due, Queue!Rest
<2>2. n \in 0 .. Queue!Rest(Due, at.off) /\ n # Queue!Rest(Due, at.off)
  BY <1>4, <2>1
<2>3. r = Queue!Piece(n)
  BY <1>3, <1>4, <2>1, <2>2 DEF r, Queue!Piece
<2>4. Queue!Deliver(n)
  BY <1>3, <1>6, <1>7, <2>1, <2>2, <2>3 DEF Queue!Deliver
<2> QED BY <1>3, <2>1, <2>2, <2>4 DEF Queue!QueueNext
<1> QED BY <1>8, <1>11, <1>12

-----------------------------------------------------------------------------
(* The calls, the callbacks and the line.                                  *)

LEMMA QueueStart ==
    ASSUME Init
    PROVE  QueueInv /\ Queue!QueueInit
<1>1. LinkInv
  BY InitInv
<1>2. sent = <<>> /\ recvd = <<>> /\ at = Start
  BY ReportedNone DEF Init, at
<1>3. at.frame = 1 /\ at.off = 0
  BY <1>2 DEF Start
<1>4. SenderInv
  BY DEF Init, LsdInit, TxIdle, SenderInv, TxBusy
<1>5. SentInv
  BY <1>2 DEF SentInv
<1>6. ReportInv
<2>1. recvd \in Seq(Reports) /\ Len(sent) = 0
  BY <1>2
<2> QED BY <1>2, <2>1 DEF ReportInv, Start
<1>7. PlaceInv
<2>1. rx.stat = "idle" /\ rxf = <<>> /\ tx.stat = "idle"
  BY DEF Init, LsdInit, RxIdle, TxIdle
<2>2. Behind(at.frame - 1) = <<>>
  <3>1. Len(sent) = 0 /\ at.frame - 1 = 0
    BY <1>2, <1>3
  <3> QED BY <1>5, <3>1, BehindNone
<2>3. txf \in Seq(Int) /\ Noise(txf)
  <3>1. CASE txf = <<>>
    BY <3>1 DEF Noise
  <3>2. CASE txf = <<Sync>>
    BY <3>2, LsdAssumption DEF Noise
  <3> QED BY <3>1, <3>2 DEF Init, LsdInit
<2>4. Flight = txf
  <3>1. Unsent = <<>>
    BY <2>1 DEF Unsent
  <3> QED BY <2>1, <2>3, <3>1, ConcatNone DEF Flight
<2>5. Flight = txf \o Behind(at.frame - 1)
  BY <2>2, <2>3, <2>4, ConcatNone
<2>6. BetweenInv
  BY <1>3, <2>3, <2>5 DEF BetweenInv
<2> QED BY <2>1, <2>6
        DEF PlaceInv, HeaderInv, SizeInv, DataInv, PartialInv, EtxInv
<1> QED BY <1>1, <1>2, <1>4, <1>5, <1>6, <1>7 DEF QueueInv, Queue!QueueInit, Start

\* What does not touch the frames on their way moves no end of the link.
LEMMA PlaceKept ==
    ASSUME QueueInv, UNCHANGED <<Flight, history>>,
           UNCHANGED <<rx.stat, rx.ch, rx.len, rx.data>>
    PROVE  PlaceInv'
<1>1. at' = at /\ Due' = Due /\ sent' = sent /\ \A n : Behind(n)' = Behind(n)
  BY HistoryKept
<1>2. BetweenInv'
  BY <1>1 DEF QueueInv, PlaceInv, BetweenInv
<1>3. HeaderInv'
  BY <1>1 DEF QueueInv, PlaceInv, HeaderInv, Comes
<1>4. SizeInv'
  BY <1>1 DEF QueueInv, PlaceInv, SizeInv, Comes
<1>5. DataInv'
  BY <1>1 DEF QueueInv, PlaceInv, DataInv, Comes
<1>6. PartialInv'
  BY <1>1 DEF QueueInv, PlaceInv, PartialInv, Comes
<1>7. EtxInv'
  BY <1>1 DEF QueueInv, PlaceInv, EtxInv, Comes
<1> QED BY <1>2, <1>3, <1>4, <1>5, <1>6, <1>7 DEF PlaceInv

LEMMA SendPlace ==
    ASSUME QueueInv, AppSend, FaithfulUse
    PROVE  /\ SenderInv' /\ SentInv' /\ ReportInv' /\ PlaceInv'
           /\ Queue!QueueNext
<1>1. PICK f \in Frames, cb \in BOOLEAN : Send(f, cb) /\ sent' = Append(sent, f)
  BY DEF AppSend
<1>2. f \in Frame /\ Len(f.data) > 0 /\ Len(f.data) <= MaxLen /\ f.ch \in chOn
  BY <1>1, LsdAssumption DEF Frame, FaithfulUse, Send
<1>3. UNCHANGED <<rx, chOn, recvd, at>>
  BY <1>1 DEF AppSend, Send, at
<1>4. SenderInv'
  BY <1>1, <1>2 DEF Send, SenderInv
<1>5. /\ sent' \in Seq(Frames) /\ Len(sent') = Len(sent) + 1
      /\ sent'[Len(sent) + 1] = f /\ Len(sent) \in Nat
      /\ \A k \in 1 .. Len(sent) : sent'[k] = sent[k]
  BY <1>1 DEF QueueInv, SentInv
<1>6. SentInv'
<2>1. \A k \in 1 .. Len(sent) : Len(sent[k].data) <= MaxLen
                                /\ sent[k].ch \in chOn \cup ChOff
  BY DEF QueueInv, SentInv
<2>2. \A k \in 1 .. Len(sent') : k \in 1 .. Len(sent) \/ k = Len(sent) + 1
  BY <1>5
<2> QED BY <1>2, <1>3, <1>5, <2>1, <2>2 DEF SentInv
<1>7. ReportInv'
<2>1. 1 .. Len(sent) + 1 \subseteq 1 .. Len(sent') + 1
  BY <1>5
<2> QED BY <1>3, <2>1 DEF QueueInv, ReportInv
<1>8. Flight' = Flight \o Wire(f) /\ Wire(f) \in Seq(Int)
BY <1>1, <1>2, SendFlight, WireType DEF QueueInv
<1>9. \A n \in 0 .. Len(sent) : Behind(n)' = Behind(n) \o Wire(f) /\ Behind(n) \in Seq(Int)
BY <1>1, <1>2, BehindGrows, BehindType DEF QueueInv
\* Whatever comes before the frames behind still does.
<1>10. ASSUME NEW x \in Seq(Int), NEW n \in 0 .. Len(sent), Flight = x \o Behind(n)
     PROVE  Flight' = x \o Behind(n)'
<2>1. PICK w \in Seq(Int) : w = Behind(n)
  BY <1>9
<2>2. PICK v \in Seq(Int) : v = Wire(f)
  BY <1>8
<2>3. (x \o w) \o v = x \o (w \o v)
  BY <2>1, <2>2, IntConcat, Zenon
<2> QED BY <1>8, <1>9, <1>10, <2>1, <2>2, <2>3
<1>11. /\ \A n : Behind(n)' = Left(Wires(sent'), n)
    /\ Behind(at.frame)' = Left(Wires(sent'), at.frame)
    /\ Behind(at.frame - 1)' = Left(Wires(sent'), at.frame - 1)
BY <1>3 DEF Behind
<1>12. at.frame - 1 \in 0 .. Len(sent) /\ at.frame \in Nat
BY DueType
<1>13. at.frame <= Len(sent) =>
        /\ at.frame \in 0 .. Len(sent) /\ at.frame <= Len(sent')
        /\ Due' = Due /\ Due \in Frame
<2> SUFFICES ASSUME at.frame <= Len(sent)
             PROVE  /\ at.frame \in 0 .. Len(sent) /\ at.frame <= Len(sent')
                    /\ Due' = Due /\ Due \in Frame
  OBVIOUS
<2>1. at.frame \in 1 .. Len(sent) /\ Due \in Frame
  BY DueType
<2> QED BY <1>3, <1>5, <2>1 DEF Due
<1>14. ASSUME NEW x \in Seq(Int), Comes(x)
     PROVE  /\ at.frame <= Len(sent') /\ Flight' = x \o Behind(at.frame)'
            /\ Due' = Due
<2>1. Flight' = x \o Left(Wires(sent'), at.frame)
  BY <1>10, <1>13, <1>14, <1>11 DEF Comes
<2> QED BY <1>13, <1>14, <1>11, <2>1 DEF Comes
<1>15. BetweenInv'
<2> SUFFICES ASSUME rx.stat \in {"idle", "stx"}
             PROVE  /\ at.off = 0
                    /\ \E n \in Seq(Int) : Noise(n) /\ Flight' = n \o Behind(at.frame - 1)'
  BY <1>3 DEF BetweenInv
<2>1. at.off = 0 /\ \E n \in Seq(Int) : Noise(n) /\ Flight = n \o Behind(at.frame - 1)
  BY DEF QueueInv, PlaceInv, BetweenInv
<2>2. PICK n \in Seq(Int) : Noise(n) /\ Flight = n \o Behind(at.frame - 1)
  BY <2>1
<2>3. Flight' = n \o Left(Wires(sent'), at.frame - 1)
  BY <1>10, <1>12, <1>11, <2>2
<2> QED BY <1>11, <2>1, <2>2, <2>3
<1>16. HeaderInv'
<2> SUFFICES ASSUME rx.stat = "ch_lenh" PROVE HeaderInv'
  BY <1>3 DEF HeaderInv
<2>1. at.off = 0 /\ (Flight = Behind(at.frame - 1) \/ Comes(Headed(Due)))
  BY DEF QueueInv, PlaceInv, HeaderInv
<2>2. CASE Flight = Behind(at.frame - 1)
  <3>1. Flight' = Behind(at.frame - 1)'
    <4>1. Flight' = Left(Wires(sent'), at.frame - 1)
      BY <1>8, <1>9, <1>12, <1>11, <2>2
    <4> QED BY <1>11, <4>1
  <3> QED BY <1>3, <2>1, <3>1 DEF HeaderInv
<2>3. CASE Comes(Headed(Due))
  <3>1. Headed(Due) \in Seq(Int)
    BY <1>13, <2>3, WireType DEF Comes
  <3> QED BY <1>3, <1>14, <2>1, <2>3, <3>1 DEF HeaderInv, Comes
<2> QED BY <2>1, <2>2, <2>3
<1>17. SizeInv'
<2> SUFFICES ASSUME rx.stat = "len" PROVE SizeInv'
  BY <1>3 DEF SizeInv
<2>1. /\ at.off = 0 /\ rx.ch = Due.ch
      /\ rx.len = (Len(Due.data) \div LowBase) * LowBase
      /\ Comes(Sized(Due))
  BY DEF QueueInv, PlaceInv, SizeInv
<2>2. Sized(Due) \in Seq(Int)
  BY <1>13, <2>1, WireType DEF Comes
<2> QED BY <1>3, <1>14, <2>1, <2>2 DEF SizeInv, Comes
<1>18. DataInv'
<2> SUFFICES ASSUME rx.stat = "data" PROVE DataInv'
  BY <1>3 DEF DataInv
<2>1. /\ rx.ch = Due.ch /\ rx.len = Len(Due.data) - at.off /\ Len(rx.data) < rx.len
      /\ rx.data = SubSeq(Due.data, at.off + 1, at.off + Len(rx.data))
      /\ Comes(Payload(Due, at.off + Len(rx.data)))
  BY DEF QueueInv, PlaceInv, DataInv
<2>2. Payload(Due, at.off + Len(rx.data)) \in Seq(Int)
  <3>1. at.off + Len(rx.data) \in Nat
    <4>1. at.off \in Nat
      BY DueType
    <4>2. Len(rx.data) \in Nat
      BY DEF QueueInv, LinkInv, TypeInv
    <4> QED BY <4>1, <4>2
  <3> QED BY <1>13, <2>1, <3>1, PayloadType DEF Comes
<2> QED BY <1>3, <1>14, <2>1, <2>2 DEF DataInv, Comes
<1>19. PartialInv'
<2> SUFFICES ASSUME rx.stat = "partial" PROVE PartialInv'
  BY <1>3 DEF PartialInv
<2>1. /\ rx.ch = Due.ch /\ rx.len = Len(Due.data) - at.off /\ 0 < rx.len
      /\ Comes(Payload(Due, at.off))
  BY DEF QueueInv, PlaceInv, PartialInv
<2>2. Payload(Due, at.off) \in Seq(Int)
  BY <1>13, <2>1, PayloadType, DueType DEF Comes
<2> QED BY <1>3, <1>14, <2>1, <2>2 DEF PartialInv, Comes
<1>20. EtxInv'
<2> SUFFICES ASSUME rx.stat = "etx" PROVE EtxInv'
  BY <1>3 DEF EtxInv
<2>1. /\ rx.ch = Due.ch /\ at.off <= Len(Due.data)
      /\ rx.data = SubSeq(Due.data, at.off + 1, Len(Due.data))
      /\ Comes(<<Flag>>)
  BY DEF QueueInv, PlaceInv, EtxInv
<2>2. <<Flag>> \in Seq(Int)
  BY LsdAssumption
<2> QED BY <1>3, <1>14, <2>1, <2>2 DEF EtxInv, Comes
<1>21. Queue!QueueNext
BY <1>1, <1>3 DEF Queue!QueueNext, Queue!Submit
<1> QED BY <1>4, <1>6, <1>7, <1>15, <1>16, <1>17, <1>18, <1>19, <1>20, <1>21
  DEF PlaceInv

LEMMA RecvPlace ==
    ASSUME QueueInv, AppRecv, FaithfulUse
    PROVE  PlaceInv'
<1>1. PICK n \in BufLens, same \in BOOLEAN : Recv(n, same)
  BY DEF AppRecv
<1>2. UNCHANGED <<tx, txf, rxf, history>>
  BY <1>1 DEF AppRecv, Recv
<1>3. UNCHANGED Flight
  BY <1>2 DEF Flight, Unsent, Current
<1>4. at' = at /\ Due' = Due /\ sent' = sent /\ \A i : Behind(i)' = Behind(i)
  BY <1>2, HistoryKept
<1>5. CASE rx.stat = "idle"
<2>1. rx'.stat = "stx"
  BY <1>1, <1>5 DEF Recv, RxBusy, QueueInv, LinkInv, TypeInv
<2>2. BetweenInv'
  BY <1>3, <1>4, <1>5 DEF QueueInv, PlaceInv, BetweenInv
<2> QED BY <2>1, <2>2
        DEF PlaceInv, HeaderInv, SizeInv, DataInv, PartialInv, EtxInv
<1>6. CASE rx.stat = "partial"
<2>1. /\ rx'.stat = "data" /\ rx'.ch = rx.ch /\ rx'.len = rx.len
      /\ rx'.data = <<>>
  BY <1>1, <1>6 DEF Recv, RxBusy, QueueInv, LinkInv, TypeInv
<2>2. /\ rx.ch = Due.ch /\ rx.len = Len(Due.data) - at.off /\ 0 < rx.len
      /\ Comes(Payload(Due, at.off))
  BY <1>6 DEF QueueInv, PlaceInv, PartialInv
<2>3. Due \in Frame /\ at.off \in Nat
  BY <2>2, DueType DEF Comes
<2>4. Len(rx'.data) = 0 /\ at.off + Len(rx'.data) = at.off
  BY <2>1, <2>3
<2>5. SubSeq(Due.data, at.off + 1, at.off) = <<>>
  BY <2>3 DEF Frame
<2>6. DataInv'
  BY <1>3, <1>4, <2>1, <2>2, <2>4, <2>5 DEF DataInv, Comes
<2> QED BY <2>1, <2>6
        DEF PlaceInv, BetweenInv, HeaderInv, SizeInv, PartialInv, EtxInv
<1>7. CASE rx.stat \in RxBusy
<2>1. same = TRUE
  BY <1>1, <1>7 DEF Recv, RxBusy, FaithfulUse
<2>2. UNCHANGED rx
  BY <1>1, <1>7, <2>1 DEF Recv, RxBusy
<2> QED BY <1>2, <1>3, <2>2, PlaceKept
<1> QED BY <1>5, <1>6, <1>7 DEF QueueInv, LinkInv, TypeInv

-----------------------------------------------------------------------------
(* The link implements the queue: each step is one of it, or none.         *)

LEMMA StepsOfQueue ==
    ASSUME QueueInv, [Next]_vars, FaithfulUse
    PROVE  QueueInv' /\ [Queue!QueueNext]_(Queue!queueVars)
<1>1. LinkInv'
  BY NextKeeps DEF QueueInv
<1>2. ASSUME UNCHANGED history
      PROVE  ReportInv' /\ UNCHANGED Queue!queueVars
  BY <1>2, HistoryKept DEF QueueInv, ReportInv, Queue!queueVars
<1>3. ASSUME UNCHANGED <<sent, chOn>> PROVE SentInv'
  BY <1>3 DEF QueueInv, SentInv
<1>4. ASSUME UNCHANGED tx PROVE SenderInv'
  BY <1>4 DEF QueueInv, SenderInv
<1>5. ASSUME UNCHANGED <<tx, txf, rxf>> PROVE UNCHANGED Flight
  BY <1>5 DEF Flight, Unsent, Current
<1>6. CASE AppSend
  BY <1>1, <1>6, SendPlace DEF QueueInv
<1>7. CASE AppRecv
<2>1. UNCHANGED history /\ UNCHANGED tx /\ UNCHANGED <<sent, chOn>>
  BY <1>7 DEF AppRecv, Recv, history
<2> QED BY <1>1, <1>2, <1>3, <1>4, <1>7, <2>1, RecvPlace DEF QueueInv
<1>8. CASE AppEnable \/ AppDisable
<2>1. UNCHANGED history /\ UNCHANGED <<tx, rx, txf, rxf>> /\ UNCHANGED sent
  BY <1>8 DEF AppEnable, AppDisable, ChEnable, ChDisable, history
<2>2. chOn \subseteq chOn' \cup ChOff
  BY <1>8 DEF AppEnable, AppDisable, ChEnable, ChDisable
<2>3. SentInv'
  BY <2>1, <2>2 DEF QueueInv, SentInv
<2>4. PlaceInv'
  BY <1>5, <2>1, PlaceKept
<2> QED BY <1>1, <1>2, <1>4, <2>1, <2>3, <2>4 DEF QueueInv
<1>9. CASE Quiet
<2>1. UNCHANGED history /\ UNCHANGED sent
  BY <1>9 DEF Quiet, history
<2>2. CASE Process
  <3>1. SenderInv' /\ UNCHANGED Flight /\ UNCHANGED rx
    BY <2>2, ProcessFlight, ProcessKeeps DEF QueueInv
  <3>2. PlaceInv'
    BY <2>1, <3>1, PlaceKept
  <3>3. UNCHANGED chOn
    BY <2>2 DEF Process, ProcStart, ProcTx, ProcRound, TxDone, SendStx, SendHeader,
                SendLen, SendByte, SendEtx, Put
  <3> QED BY <1>1, <1>2, <1>3, <2>1, <3>1, <3>2, <3>3 DEF QueueInv
<2>3. CASE \/ RecvStx \/ RecvFlagAgain \/ RecvHeader
           \/ RecvLen \/ RecvLastByte \/ RecvByte
  <3>1. UNCHANGED tx /\ UNCHANGED <<sent, chOn>>
    BY <2>1, <2>3 DEF RecvStx, RecvFlagAgain, RecvHeader, RecvLen, RecvLastByte,
                      RecvByte, Take
  <3>2. PlaceInv'
    BY <2>1, <2>3, StxPlace, FlagAgainPlace, HeaderPlace, LenPlace, LastBytePlace,
       BytePlace
  <3> QED BY <1>1, <1>2, <1>3, <1>4, <2>1, <3>1, <3>2 DEF QueueInv
<2> QED BY <1>9, <2>2, <2>3 DEF Quiet
<1>10. CASE Receive
<2>1. UNCHANGED tx /\ UNCHANGED <<sent, chOn>>
  BY <1>10 DEF Receive, Received, RecvEtx, RecvPartial, Take
<2>2. PlaceInv' /\ ReportInv' /\ Queue!QueueNext
  BY <1>10, EtxReports, PartialReports DEF Receive, Received
<2> QED BY <1>1, <1>3, <1>4, <2>1, <2>2 DEF QueueInv
<1>11. CASE Fail
<2>1. UNCHANGED tx /\ UNCHANGED <<sent, chOn>>
  BY <1>11 DEF Fail, RecvBadChannel, RecvBadEtx, Take
<2>2. ~RecvBadEtx
  BY EtxFlag DEF RecvBadEtx
<2>3. PlaceInv' /\ ReportInv' /\ Queue!QueueNext
  BY <1>11, <2>2, BadChannelReports DEF Fail
<2> QED BY <1>1, <1>3, <1>4, <2>1, <2>3 DEF QueueInv
<1>12. CASE Callback
<2>1. UNCHANGED history /\ UNCHANGED <<tx, rx, txf, rxf>> /\ UNCHANGED <<sent, chOn>>
  BY <1>12 DEF Callback, CallbackReturn, CallbackJump, history
<2>2. PlaceInv'
  BY <1>5, <2>1, PlaceKept
<2> QED BY <1>1, <1>2, <1>3, <1>4, <2>1, <2>2 DEF QueueInv
<1>13. CASE Line
<2>1. UNCHANGED history /\ UNCHANGED <<tx, rx>> /\ UNCHANGED <<sent, chOn>>
  BY <1>13 DEF Line, history
<2>2. UNCHANGED Flight
  BY <1>13, LineFlight DEF QueueInv
<2>3. PlaceInv'
  BY <2>1, <2>2, PlaceKept
<2> QED BY <1>1, <1>2, <1>3, <1>4, <2>1, <2>3 DEF QueueInv
<1>14. CASE UNCHANGED vars
<2>1. UNCHANGED history /\ UNCHANGED <<tx, rx, txf, rxf>> /\ UNCHANGED <<sent, chOn>>
  BY <1>14 DEF vars, lsdVars, history
<2>2. PlaceInv'
  BY <1>5, <2>1, PlaceKept
<2> QED BY <1>1, <1>2, <1>3, <1>4, <2>1, <2>2 DEF QueueInv
<1> QED BY <1>6, <1>7, <1>8, <1>9, <1>10, <1>11, <1>12, <1>13, <1>14 DEF Next

\* What lsd_send() accepted is what the receive callbacks get (recv_complete(),
\* recv_error(), lsd.c:92-106): in order, whole, once each, in pieces when the
\* buffers are short; or one error for a frame whose channel was closed.  For
\* all frames, FIFO depths, buffers and channels, whatever is called between
\* the bytes, and wherever a callback leaves lsd_process().
THEOREM FramesComeOut ==
    ASSUME FaithfulUse
    PROVE  Spec => LinkIsQueue
<1>1. Init => QueueInv /\ Queue!QueueInit
  BY QueueStart
<1>2. QueueInv /\ [Next]_vars => QueueInv' /\ [Queue!QueueNext]_(Queue!queueVars)
  BY StepsOfQueue
<1>3. Spec => []QueueInv
  BY <1>1, <1>2, PTL DEF Spec
<1>4. Spec => Queue!QueueSpec
  BY <1>1, <1>2, <1>3, PTL DEF Spec, Queue!QueueSpec
<1> QED BY <1>4 DEF LinkIsQueue
=============================================================================
