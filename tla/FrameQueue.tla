----------------------------- MODULE FrameQueue -----------------------------
(***************************************************************************)
(* What the data link promises: the frames that were accepted come out in  *)
(* the order they went in, each whole, if need be in several pieces, and   *)
(* none twice.  A frame that nothing of was delivered may be reported as   *)
(* an error instead, if its channel is one that the receiver may close.    *)
(***************************************************************************)
EXTENDS Integers, Sequences

CONSTANTS Frames,   \* frames that may be sent: [ch, data]
          ChOff,    \* channels the receiver may close
          Error     \* the report of a frame that is not delivered

VARIABLES sent,     \* the frames accepted, in order
          recvd,    \* the reports made to the receiver, in order
          at        \* the frame due, and how much of it is delivered

queueVars == <<sent, recvd, at>>

Rest(f, off) == Len(f.data) - off

QueueInit ==
    /\ sent = <<>>
    /\ recvd = <<>>
    /\ at = [frame |-> 1, off |-> 0]

Submit(f) ==
    /\ sent' = Append(sent, f)
    /\ UNCHANGED <<recvd, at>>

Due == sent[at.frame]
NextFrame == [frame |-> at.frame + 1, off |-> 0]

Piece(n) == [ch |-> Due.ch,
             data |-> SubSeq(Due.data, at.off + 1, at.off + n),
             last |-> n = Rest(Due, at.off)]

Deliver(n) ==
    /\ at.frame <= Len(sent)
    /\ n \in 0 .. Rest(Due, at.off)
    /\ recvd' = Append(recvd, Piece(n))
    /\ at' = IF n = Rest(Due, at.off) THEN NextFrame ELSE [at EXCEPT !.off = @ + n]
    /\ UNCHANGED sent

Drop ==
    /\ at.frame <= Len(sent)
    /\ at.off = 0
    /\ Due.ch \in ChOff
    /\ recvd' = Append(recvd, Error)
    /\ at' = NextFrame
    /\ UNCHANGED sent

QueueNext ==
    \/ \E f \in Frames : Submit(f)
    \/ \E n \in 0 .. (IF at.frame <= Len(sent) THEN Rest(Due, at.off) ELSE 0) : Deliver(n)
    \/ Drop

QueueSpec == QueueInit /\ [][QueueNext]_queueVars
=============================================================================
