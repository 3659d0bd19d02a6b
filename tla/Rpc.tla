-------------------------------- MODULE Rpc --------------------------------
(***************************************************************************)
(* What the functions of src/src/mw/megawifi.h promise the program that    *)
(* calls them.  A command is carried out by the module at most once, after *)
(* it was called and before it returns, and what the function returns is   *)
(* the outcome of that command and of no other.  A function that gives up  *)
(* fails, and from then on nothing is promised: the command may have been  *)
(* carried out or not, and its answer may still come.                      *)
(***************************************************************************)
EXTENDS Integers

CONSTANTS Requests, NoRequest

VARIABLES
    stage,     \* where the call is: "idle", "called", "done", "over"
    req,       \* the command called
    good,      \* outcome of the command in the module, once done
    failed,    \* what the function returned, once over
    lost       \* a function has given up

rpcVars == <<stage, req, good, failed, lost>>

RpcInit ==
    /\ stage = "idle"
    /\ req = NoRequest
    /\ ~good /\ ~failed /\ ~lost

Call(r) ==
    /\ stage \in {"idle", "over"}
    /\ stage' = "called"
    /\ req' = r
    /\ ~good' /\ ~failed'
    /\ UNCHANGED lost

\* The module carries the command out, or refuses to.
Do ==
    /\ stage = "called"
    /\ stage' = "done"
    /\ good' \in BOOLEAN
    /\ UNCHANGED <<req, failed, lost>>

ReturnOutcome ==
    /\ stage = "done"
    /\ stage' = "over"
    /\ failed' = ~good
    /\ ~good'
    /\ UNCHANGED <<req, lost>>

\* The program does something else.
Forget ==
    /\ stage = "over"
    /\ stage' = "idle"
    /\ req' = NoRequest
    /\ ~good' /\ ~failed'
    /\ UNCHANGED lost

GiveUp == ~lost /\ lost'
Unknown == lost /\ lost'

RpcNext ==
    \/ \E r \in Requests : Call(r)
    \/ Do \/ ReturnOutcome \/ Forget
    \/ GiveUp \/ Unknown

RpcSpec == RpcInit /\ [][RpcNext]_rpcVars
=============================================================================
