------------------------------- MODULE MCLoop -------------------------------
(* Instances of the scheduler for TLC.                                     *)
EXTENDS Loop, TLC

CONSTANTS idle, aux, frame, cmd

\* main() adds the frame timer and the idle function; mw_init() adds the
\* command timer.  Only the frame timer's callback pends; the idle function
\* and the command timer wake it, and stop the command timer before they do; the
\* frame timer deletes itself when it gives up (main.c, megawifi.c).
ShippedSetup   == <<frame, idle, cmd>>
ShippedInit    == (frame :> 1) @@ (cmd :> 0)
ShippedStarts  == {<<frame, frame>>, <<frame, cmd>>}
ShippedStops   == {<<idle, cmd>>, <<cmd, cmd>>}
ShippedDels    == {<<frame, frame>>}
ShippedPosts   == {-1, 1}
NoPairs        == {}

\* The table of functions is edited while loops nest.
EditSetup      == <<frame, idle, aux, cmd>>
EditSwitches   == {<<idle, aux>>, <<frame, aux>>}
EditEdits      == {<<idle, aux>>, <<cmd, aux>>, <<idle, cmd>>, <<frame, aux>>,
                   <<frame, idle>>}
=============================================================================
