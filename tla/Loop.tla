-------------------------------- MODULE Loop --------------------------------
(***************************************************************************)
(* The cooperative scheduler of src/src/mw/loop.c.  One thread runs loop() *)
(* functions and frame timers are called from it, and a callback may call  *)
(* loop_pend(), which runs a nested loop() until a loop_post() longjmps    *)
(* back to it.  The table cursor (d->idx) and the pass (d->check) are      *)
(* shared by every activation of loop(): that is what makes nesting hard.  *)
(*                                                                         *)
(* The callbacks themselves belong to the program that uses the loop: here *)
(* a callback makes any sequence of the calls the constants allow it.      *)
(*                                                                         *)
(* An operator named X_Bug is X with a plausible mistake in it.  It is not *)
(* part of the specification: it stands for X to see which property fails. *)
(***************************************************************************)
EXTENDS Integers, Sequences, FiniteSets

CONSTANTS
    Func,       \* struct loop_func objects
    Timer,      \* struct loop_timer objects
    None,       \* the null pointer
    FuncMax,    \* loop_init(max_func, _)
    TimerMax,   \* loop_init(_, max_timer)
    Setup,      \* what main() adds before it calls loop(), in order
    InitFrames, \* static initialisers of loop_timer.frames
    FrameArgs,  \* arguments given to loop_timer_start()
    PostArgs,   \* arguments given to loop_post()
    ExitArgs,   \* arguments given to loop_end()
    Penders,    \* objects whose callback may call loop_pend()
    Posters,    \* objects whose callback may call loop_post()
    Starts,     \* <<caller, timer>> pairs: loop_timer_start() and auto_reload
    Stops,      \* <<caller, timer>> pairs: loop_timer_stop()
    Switches,   \* <<caller, func>> pairs: loop_func_enable(), _disable()
    Adds,       \* <<caller, object>> pairs: loop_func_add(), loop_timer_add()
    Dels,       \* <<caller, object>> pairs: loop_func_del(), loop_timer_del()
    Word,       \* values of an uint16_t: 65536
    MaxDepth,   \* bound: activations of loop() alive at once
    MissFrames  \* TRUE: VBLANK may come and go between two samples of it

Object == Func \cup Timer

\* The tables are two consecutive allocations of the memory pool, followed by
\* zeroed, unallocated memory, of which as much is kept as a cursor can reach.
IdxMax == IF FuncMax > TimerMax THEN FuncMax ELSE TimerMax
Last == FuncMax + IdxMax
Slot == 0 .. Last

Passes == {"funcs", "timers"}
Stages == {"head", "funcs", "timers", "cb"}
Pointer == Object \cup {None}
Level   == [pc : Stages, cur : Pointer, f : Pointer, t : Pointer]
UInt16_Bug(n) == n    \* fields as wide as the int arguments
UInt16(n) == n % Word

ASSUME ObjectAssumption ==
    /\ Func \cap Timer = {}
    /\ None \notin Object
ASSUME TableAssumption ==
    /\ FuncMax \in 1 .. 127      \* uint8_t argument kept in an int8_t
    /\ TimerMax \in 1 .. 127
ASSUME ProgramAssumption ==
    /\ Setup \in Seq(Object)
    /\ InitFrames \in [Timer -> 0 .. Word - 1]
    /\ FrameArgs \subseteq Nat
    /\ PostArgs \subseteq Int
    /\ ExitArgs \subseteq Int \ {0}
    /\ Penders \subseteq Object
    /\ Posters \subseteq Object
    /\ Starts \subseteq Object \X Timer
    /\ Stops \subseteq Object \X Timer
    /\ Switches \subseteq Object \X Func
    /\ Adds \subseteq Object \X Object
    /\ Dels \subseteq Object \X Object
    /\ Word \in Nat \ {0}
    /\ MaxDepth \in Nat
    /\ MissFrames \in BOOLEAN

VARIABLES
    mem,      \* the words of d->f, then of d->t, then what follows them
    idx,      \* d->idx
    check,    \* d->check
    seen,     \* d->vblank: the flag at the last frame_update()
    exit,     \* d->exit
    stack,    \* activations of loop(), each with its struct pend_env
    toDelete, blocked, disabled,  \* flags of the objects
    frames, count, reload,        \* fields of the timers
    vdp,      \* the VBLANK bit of the VDP status register
    setup,    \* what main() still has to add
    ret       \* the value the last loop_pend() returned

loopVars  == <<mem, idx, check, seen, exit, stack>>
flagVars  == <<toDelete, blocked, disabled>>
timerVars == <<frames, count, reload>>
envVars   == <<vdp, setup>>
vars      == <<loopVars, flagVars, timerVars, envVars, ret>>

F(i) == mem[i]
T(i) == mem[FuncMax + i]

Top     == stack[Len(stack)]
At(pc)  == stack # <<>> /\ Top.pc = pc
SetTop(l) == stack' = [stack EXCEPT ![Len(stack)] = l]
Goto(pc) == SetTop([Top EXCEPT !.pc = pc])
Running(o) == At("cb") /\ Top.cur = o
NewLevel == [pc |-> "head", cur |-> None, f |-> None, t |-> None]

-----------------------------------------------------------------------------
(* The tables.                                                             *)

\* Slot k belongs to the run of used slots that starts at slot i.
InRun(i, k) == i <= k /\ \A j \in i + 1 .. k : mem[j] # None

\* The loop stops one slot early and leaves the last object in place twice.
Closed_Bug(i) ==
    [k \in Slot |-> IF ~InRun(i, k) \/ k = Last THEN mem[k]
                    ELSE IF mem[k + 1] = None THEN mem[k] ELSE mem[k + 1]]

\* delete_func() and delete_timer() move the run after slot i down one slot,
\* up to the first null pointer, wherever that is.
Closed(i) ==
    [k \in Slot |-> IF ~InRun(i, k) THEN mem[k]
                    ELSE IF k = Last THEN None ELSE mem[k + 1]]

Base(o) == IF o \in Func THEN 0 ELSE FuncMax
Size(o) == IF o \in Func THEN FuncMax ELSE TimerMax
Home(o) == Base(o) .. Base(o) + Size(o) - 1

\* The slots a scan from the first one visits before it meets a null pointer.
Scan(o) == {k \in Home(o) : mem[Base(o)] # None /\ InRun(Base(o), k)}

Registered(o) == \E k \in Scan(o) : mem[k] = o

\* loop_func_add(), loop_timer_add(): an object marked for deletion is only
\* unmarked; a full table refuses the object.
Add(o) ==
    IF Registered(o) /\ toDelete[o]
    THEN /\ toDelete' = [toDelete EXCEPT ![o] = FALSE]
         /\ UNCHANGED mem
    ELSE /\ UNCHANGED toDelete
         /\ LET free == Base(o) + Cardinality(Scan(o))
            IN  mem' = IF free \in Home(o)
                       THEN [mem EXCEPT ![free] = o] ELSE mem

-----------------------------------------------------------------------------
(* main(): loop_init(), the objects it adds, and loop().                   *)

Init ==
    /\ mem = [k \in Slot |-> None]
    /\ idx = 0
    /\ check = "funcs"
    /\ vdp \in BOOLEAN
    /\ seen = vdp
    /\ exit = 0
    /\ stack = <<>>
    /\ toDelete = [o \in Object |-> FALSE]
    /\ blocked = [o \in Object |-> FALSE]
    /\ disabled = [o \in Func |-> FALSE]
    /\ frames = InitFrames
    /\ count = [t \in Timer |-> 0]
    /\ reload = [t \in Timer |-> FALSE]
    /\ setup = Setup
    /\ ret = 0

MainAdd ==
    /\ stack = <<>>
    /\ setup # <<>>
    /\ Add(Head(setup))
    /\ setup' = Tail(setup)
    /\ UNCHANGED <<idx, check, seen, exit, stack, blocked, disabled,
                   timerVars, vdp, ret>>

Enter ==
    /\ stack = <<>>
    /\ setup = <<>>
    /\ exit = 0
    /\ stack' = <<NewLevel>>
    /\ UNCHANGED <<mem, idx, check, seen, exit, flagVars, timerVars, envVars,
                   ret>>

-----------------------------------------------------------------------------
(* loop(): one disjunct of its body per action.                            *)

\* A frame edge is the first sample of VBLANK set after one of it clear.
Edge == ~seen /\ vdp

\* The value a suspended loop_pend() returns, and the object it unblocks:
\* d->env->f if that is set, else d->env->t.
Pended(l) == IF l.f # None THEN l.f ELSE l.t

\* loop_pend() returns without clearing the blocked flag.
Resume_Bug(v) ==
    /\ stack' = SubSeq(stack, 1, Len(stack) - 1)
    /\ ret' = v
    /\ UNCHANGED blocked

Resume(v) ==
    LET l == stack[Len(stack) - 1]
    IN  /\ stack' = SubSeq(stack, 1, Len(stack) - 1)
        /\ blocked' = [blocked EXCEPT ![Pended(l)] = FALSE]
        /\ ret' = v

\* The innermost loop() consumes the exit code.
LoopExit_Bug ==
    /\ At("head")
    /\ exit # 0
    /\ exit' = 0
    /\ IF Len(stack) = 1
       THEN stack' = <<>> /\ UNCHANGED <<blocked, ret>>
       ELSE Resume(0)
    /\ UNCHANGED <<mem, idx, check, seen, toDelete, disabled,
                   timerVars, envVars>>

\* d->exit is set: the outermost loop() returns to main(), a nested one to
\* its loop_pend(), which then returns 0.
LoopExit ==
    /\ At("head")
    /\ exit # 0
    /\ IF Len(stack) = 1
       THEN stack' = <<>> /\ UNCHANGED <<blocked, ret>>
       ELSE Resume(0)
    /\ UNCHANGED <<mem, idx, check, seen, exit, toDelete, disabled,
                   timerVars, envVars>>

\* A timer pass is still due: VBLANK is not sampled.
LoopTimers ==
    /\ At("head")
    /\ exit = 0
    /\ check = "timers"
    /\ Goto("timers")
    /\ UNCHANGED <<mem, idx, check, seen, exit, flagVars, timerVars, envVars,
                   ret>>

\* A frame edge starts the timer pass without recording the pass.
LoopFrame_Bug ==
    /\ At("head")
    /\ exit = 0
    /\ check = "funcs"
    /\ Edge
    /\ seen' = vdp
    /\ Goto("timers")
    /\ UNCHANGED <<mem, idx, check, exit, flagVars, timerVars, envVars, ret>>

LoopFrame ==
    /\ At("head")
    /\ exit = 0
    /\ check = "funcs"
    /\ Edge
    /\ seen' = vdp
    /\ check' = "timers"
    /\ Goto("timers")
    /\ UNCHANGED <<mem, idx, exit, flagVars, timerVars, envVars, ret>>

\* The sample is only stored when it is an edge.
LoopFuncs_Bug ==
    /\ At("head")
    /\ exit = 0
    /\ check = "funcs"
    /\ ~Edge
    /\ Goto("funcs")
    /\ UNCHANGED <<mem, idx, check, seen, exit, flagVars, timerVars, envVars,
                   ret>>

LoopFuncs ==
    /\ At("head")
    /\ exit = 0
    /\ check = "funcs"
    /\ ~Edge
    /\ seen' = vdp
    /\ Goto("funcs")
    /\ UNCHANGED <<mem, idx, check, exit, flagVars, timerVars, envVars, ret>>

\* The display raises and clears VBLANK at any time.  A pass of the loop that
\* is shorter than each of the two phases sees them all (loop.h:16-17).
Vblank ==
    /\ stack # <<>>
    /\ MissFrames \/ vdp = seen
    /\ vdp' = ~vdp
    /\ UNCHANGED <<loopVars, flagVars, timerVars, setup, ret>>

-----------------------------------------------------------------------------
(* run_funcs().                                                            *)

FuncsDone ==
    /\ At("funcs")
    /\ idx >= FuncMax \/ F(idx) = None
    /\ idx' = 0
    /\ Goto("head")
    /\ UNCHANGED <<mem, check, seen, exit, flagVars, timerVars, envVars, ret>>

\* The deletion mark stays on the deleted function.
FuncDelete_Bug(f) ==
    /\ At("funcs")
    /\ idx < FuncMax
    /\ F(idx) = f
    /\ toDelete[f]
    /\ mem' = Closed(idx)
    /\ UNCHANGED <<idx, check, seen, exit, stack, flagVars, timerVars,
                   envVars, ret>>

FuncDelete(f) ==
    /\ At("funcs")
    /\ idx < FuncMax
    /\ F(idx) = f
    /\ toDelete[f]
    /\ toDelete' = [toDelete EXCEPT ![f] = FALSE]
    /\ mem' = Closed(idx)
    /\ UNCHANGED <<idx, check, seen, exit, stack, blocked, disabled,
                   timerVars, envVars, ret>>

\* A disabled or blocked function is passed over before its mark is looked at.
FuncSkip_Bug(f) ==
    /\ At("funcs")
    /\ idx < FuncMax
    /\ F(idx) = f
    /\ disabled[f] \/ blocked[f]
    /\ idx' = idx + 1
    /\ UNCHANGED <<mem, check, seen, exit, stack, flagVars, timerVars,
                   envVars, ret>>

FuncSkip(f) ==
    /\ At("funcs")
    /\ idx < FuncMax
    /\ F(idx) = f
    /\ ~toDelete[f]
    /\ disabled[f] \/ blocked[f]
    /\ idx' = idx + 1
    /\ UNCHANGED <<mem, check, seen, exit, stack, flagVars, timerVars,
                   envVars, ret>>

FuncCall(f) ==
    /\ At("funcs")
    /\ idx < FuncMax
    /\ F(idx) = f
    /\ ~toDelete[f]
    /\ ~disabled[f]
    /\ ~blocked[f]
    /\ idx' = idx + 1
    /\ SetTop([Top EXCEPT !.pc = "cb", !.cur = f])
    /\ UNCHANGED <<mem, check, seen, exit, flagVars, timerVars, envVars, ret>>

-----------------------------------------------------------------------------
(* check_timers() and update_timer().                                      *)

\* The pass over the timers does not hand over to the functions.
TimersDone_Bug ==
    /\ At("timers")
    /\ idx >= TimerMax \/ T(idx) = None
    /\ idx' = 0
    /\ Goto("head")
    /\ UNCHANGED <<mem, check, seen, exit, flagVars, timerVars, envVars, ret>>

TimersDone ==
    /\ At("timers")
    /\ idx >= TimerMax \/ T(idx) = None
    /\ idx' = 0
    /\ check' = "funcs"
    /\ Goto("head")
    /\ UNCHANGED <<mem, seen, exit, flagVars, timerVars, envVars, ret>>

TimerDelete(t) ==
    /\ At("timers")
    /\ idx < TimerMax
    /\ T(idx) = t
    /\ toDelete[t]
    /\ toDelete' = [toDelete EXCEPT ![t] = FALSE]
    /\ mem' = Closed(FuncMax + idx)
    /\ UNCHANGED <<idx, check, seen, exit, stack, blocked, disabled,
                   timerVars, envVars, ret>>

\* The pass reaches timer t and leaves it behind: d->idx++.
Visit(t) ==
    /\ At("timers")
    /\ idx < TimerMax
    /\ T(idx) = t
    /\ ~toDelete[t]
    /\ idx' = idx + 1

Armed(t) == frames[t] # 0 /\ ~blocked[t]

TimerSkip(t) ==
    /\ Visit(t)
    /\ ~Armed(t)
    /\ UNCHANGED <<mem, check, seen, exit, stack, flagVars, timerVars,
                   envVars, ret>>

TimerCount(t) ==
    /\ Visit(t)
    /\ Armed(t)
    /\ UInt16(count[t] + 1) < frames[t]
    /\ count' = [count EXCEPT ![t] = UInt16(@ + 1)]
    /\ UNCHANGED <<mem, check, seen, exit, stack, flagVars, frames, reload,
                   envVars, ret>>

TimerFire(t) ==
    /\ Visit(t)
    /\ Armed(t)
    /\ UInt16(count[t] + 1) >= frames[t]
    /\ IF reload[t]
       THEN /\ count' = [count EXCEPT ![t] = 0]
            /\ UNCHANGED frames
       ELSE /\ count' = [count EXCEPT ![t] = UInt16(@ + 1)]
            /\ frames' = [frames EXCEPT ![t] = 0]
    /\ SetTop([Top EXCEPT !.pc = "cb", !.cur = t])
    /\ UNCHANGED <<mem, check, seen, exit, flagVars, reload, envVars, ret>>

-----------------------------------------------------------------------------
(* Inside a callback: it returns, or calls the API.                        *)

CbReturn(o) ==
    /\ Running(o)
    /\ SetTop([Top EXCEPT !.pc = IF o \in Func THEN "funcs" ELSE "timers",
                          !.cur = None,
                          !.f = IF o \in Func THEN None ELSE @,
                          !.t = IF o \in Timer THEN None ELSE @])
    /\ UNCHANGED <<mem, idx, check, seen, exit, flagVars, timerVars, envVars,
                   ret>>

\* loop_pend() blocks what it takes for its caller: the environment's object
\* if one is set, else the slot before the shared cursor of the shared pass.
\* When it finds neither, it returns 0 at once.
Slotted == IF check = "funcs" THEN F(idx - 1) ELSE T(idx - 1)

\* A second loop_pend() of the same callback looks at the cursor again.
PendEnv_Bug ==
    IF check = "funcs" THEN [Top EXCEPT !.f = Slotted, !.t = None]
                       ELSE [Top EXCEPT !.f = None, !.t = Slotted]

PendEnv ==
    IF Top.f # None \/ Top.t # None THEN Top
    ELSE IF check = "funcs" THEN [Top EXCEPT !.f = Slotted]
                            ELSE [Top EXCEPT !.t = Slotted]

Pend(o) ==
    /\ Running(o)
    /\ o \in Penders
    /\ idx > 0 \/ Pended(Top) # None
    /\ Len(stack) < MaxDepth
    /\ IF Pended(PendEnv) # None
       THEN /\ stack' = Append([stack EXCEPT ![Len(stack)] = PendEnv],
                               NewLevel)
            /\ blocked' = [blocked EXCEPT ![Pended(PendEnv)] = TRUE]
            /\ UNCHANGED ret
       ELSE /\ ret' = 0
            /\ UNCHANGED <<stack, blocked>>
    /\ UNCHANGED <<mem, idx, check, seen, exit, toDelete, disabled,
                   timerVars, envVars>>

\* loop_post(v): the longjmp abandons every frame above the innermost
\* loop_pend(), which returns v, or 1 when v is 0 (newlib/setjmp.s).  Without
\* a pending loop_pend() there is no jmp_buf: callers are told not to.
JmpValue(v) == IF v = 0 THEN 1 ELSE v

Post(o, v) ==
    /\ Running(o)
    /\ o \in Posters
    /\ Len(stack) > 1
    /\ Resume(JmpValue(v))
    /\ UNCHANGED <<mem, idx, check, seen, exit, toDelete, disabled,
                   timerVars, envVars>>

LoopEnd(o, v) ==
    /\ Running(o)
    /\ exit' = v
    /\ UNCHANGED <<mem, idx, check, seen, stack, flagVars, timerVars,
                   envVars, ret>>

TimerStart(o, t, n) ==
    /\ Running(o)
    /\ <<o, t>> \in Starts
    /\ frames' = [frames EXCEPT ![t] = UInt16(n)]
    /\ count' = [count EXCEPT ![t] = 0]
    /\ UNCHANGED <<loopVars, flagVars, reload, envVars, ret>>

TimerStop(o, t) ==
    /\ Running(o)
    /\ <<o, t>> \in Stops
    /\ frames' = [frames EXCEPT ![t] = 0]
    /\ UNCHANGED <<loopVars, flagVars, count, reload, envVars, ret>>

\* The user of a timer sets its auto_reload field itself.
SetReload(o, t, b) ==
    /\ Running(o)
    /\ <<o, t>> \in Starts
    /\ reload' = [reload EXCEPT ![t] = b]
    /\ UNCHANGED <<loopVars, flagVars, frames, count, envVars, ret>>

FuncSwitch(o, f, b) ==
    /\ Running(o)
    /\ <<o, f>> \in Switches
    /\ disabled' = [disabled EXCEPT ![f] = b]
    /\ UNCHANGED <<loopVars, toDelete, blocked, timerVars, envVars, ret>>

\* An object is not added again while it is registered and not being deleted.
CbAdd(o, x) ==
    /\ Running(o)
    /\ <<o, x>> \in Adds
    /\ Registered(x) => toDelete[x]
    /\ Add(x)
    /\ UNCHANGED <<idx, check, seen, exit, stack, blocked, disabled,
                   timerVars, envVars, ret>>

\* loop_func_del(), loop_timer_del(): the scan only stops at a null pointer.
CbDel(o, x) ==
    /\ Running(o)
    /\ <<o, x>> \in Dels
    /\ \E k \in Base(x) .. Last :
          /\ mem[k] = x
          /\ \A j \in Base(x) .. k : mem[j] # None
    /\ toDelete' = [toDelete EXCEPT ![x] = TRUE]
    /\ UNCHANGED <<loopVars, blocked, disabled, timerVars, envVars, ret>>

-----------------------------------------------------------------------------
(* The specification.                                                      *)

LoopStep ==
    \/ LoopExit \/ LoopTimers \/ LoopFrame \/ LoopFuncs
    \/ FuncsDone \/ TimersDone
    \/ \E f \in Func : FuncDelete(f) \/ FuncSkip(f) \/ FuncCall(f)
    \/ \E t \in Timer :
          TimerDelete(t) \/ TimerSkip(t) \/ TimerCount(t) \/ TimerFire(t)

Api(o) ==
    \/ Pend(o)
    \/ \E v \in PostArgs : Post(o, v)
    \/ \E v \in ExitArgs : LoopEnd(o, v)
    \/ \E t \in Timer :
          \/ \E n \in FrameArgs : TimerStart(o, t, n)
          \/ TimerStop(o, t)
          \/ \E b \in BOOLEAN : SetReload(o, t, b)
    \/ \E f \in Func, b \in BOOLEAN : FuncSwitch(o, f, b)
    \/ \E x \in Object : CbAdd(o, x) \/ CbDel(o, x)

Next ==
    \/ MainAdd \/ Enter \/ Vblank
    \/ LoopStep
    \/ \E o \in Object : CbReturn(o) \/ Api(o)

Spec == Init /\ [][Next]_vars

\* The program keeps running, every callback comes back, and the display goes
\* on refreshing.  No call of the API is required of a callback.
Fairness ==
    /\ WF_vars(MainAdd)
    /\ WF_vars(Enter)
    /\ WF_vars(LoopStep)
    /\ WF_vars(\E o \in Object : CbReturn(o))
    /\ WF_vars(Vblank)

FairSpec == Spec /\ Fairness

-----------------------------------------------------------------------------
(* Properties.                                                             *)

TypeOK ==
    /\ mem \in [Slot -> Pointer]
    /\ idx \in 0 .. IdxMax
    /\ check \in Passes
    /\ seen \in BOOLEAN
    /\ exit \in Int
    /\ stack \in Seq(Level)
    /\ toDelete \in [Object -> BOOLEAN]
    /\ blocked \in [Object -> BOOLEAN]
    /\ disabled \in [Func -> BOOLEAN]
    /\ frames \in [Timer -> 0 .. Word - 1]
    /\ count \in [Timer -> 0 .. Word - 1]
    /\ reload \in [Timer -> BOOLEAN]
    /\ vdp \in BOOLEAN
    /\ setup \in Seq(Object)
    /\ ret \in Int

\* The callbacks that are suspended in a loop_pend().
Suspended == {stack[i].cur : i \in 1 .. Len(stack) - 1}

\* While the loop is not exiting, the blocked objects are those whose callback
\* is suspended in loop_pend(): none is called again before it has returned
\* and none is left blocked afterwards (loop_pend(), loop.c:266-288).
PendBlocksCaller ==
    exit = 0 => {o \in Object : blocked[o]} = Suspended

\* loop_pend() does not return until a loop_post(): it never comes back at
\* once, with 0, because the cursor other callbacks moved points at nothing.
PendSuspends ==
    [][\A o \in Object : Pend(o) => Len(stack') = Len(stack) + 1]_vars

\* The tables hold what was added to them: functions, then timers, each once
\* and without gaps, and what follows them is never written.
TablesIntact ==
    /\ \A k \in Slot :
          mem[k] \in {None} \cup (IF k < FuncMax THEN Func
                               ELSE IF k < FuncMax + TimerMax THEN Timer
                               ELSE {})
    /\ \A j, k \in Slot : j # k /\ mem[j] = mem[k] => mem[j] = None
    /\ \A j, k \in Slot :
          /\ j < k
          /\ mem[k] # None
          /\ k < FuncMax \/ j >= FuncMax
          => mem[j] # None

\* Only registered objects carry a deletion mark, so no mark can outlive its
\* object and delete a later registration of it.
MarksRegistered == \A o \in Object : toDelete[o] => Registered(o)

Called(o) == At("cb") /\ Top.cur = o

\* Function f is ahead of x in the table, so that the pass over the functions that
\* it abandons has not reached x; or the cursor it leaves behind, with which the
\* pass over the timers then begins, lies behind the timer x.
Before(f, x) ==
    IF x \in Func THEN \E j, k \in Slot : j < k /\ mem[j] = f /\ mem[k] = x
                  ELSE \E k \in 0 .. idx - 1 : T(k) = x

\* The call of loop_post() by a function cuts short the pass that is due to x.
CutShort(x) == \E f \in Func, v \in PostArgs : Before(f, x) /\ Post(f, v)

\* Unless the program leaves the loop or disables or deletes it, a registered
\* function is called again and again, whatever callback is suspended, or one
\* ahead of it posts again and again (run_funcs(), loop.c:160-175).
FuncsKeepRunning ==
    \A f \in Func :
       \/ []<>(\/ Called(f) \/ exit # 0 \/ disabled[f] \/ blocked[f]
              \/ ~Registered(f))
       \/ []<><<CutShort(f)>>_vars

\* While a callback is suspended, a registered timer that was started comes
\* due: its callback runs, unless it is stopped or the wait ends without it.
TimerComesDue ==
    \A t \in Timer :
       Len(stack) > 1 /\ frames[t] # 0 /\ ~blocked[t] /\ Registered(t)
          ~> Called(t) \/ frames[t] = 0 \/ Len(stack) <= 1 \/ toDelete[t]

\* A deletion mark is acted on, or withdrawn by adding the object again, or a
\* function that posts again and again keeps the pass from the object.
DeletionHappens ==
    \A o \in Object :
       \/ toDelete[o] ~> ~toDelete[o] \/ exit # 0
       \/ []<><<CutShort(o)>>_vars

\* loop_end() is effective once no callback waits any more: every nested loop()
\* ends, each loop_pend() returns to its callback and the outermost loop()
\* returns to main().  A callback that waits again and again whatever loop_pend()
\* returns, as that of the frame timer does (main.c:126-131), keeps loop() going.
ExitCompletes ==
    \/ []<><<\E o \in Object : Pend(o)>>_vars
    \/ exit # 0 ~> stack = <<>>

\* Leaving the nested loops this way wakes each callback that was suspended
\* in them: when loop() has returned no object is left blocked.
ExitUnblocks == stack = <<>> => \A o \in Object : ~blocked[o]

=============================================================================
