--------------------------- MODULE LoopPendProofs ---------------------------
(***************************************************************************)
(* loop_pend() does what it promises in a program shaped like this one:    *)
(* only one callback waits, that of the first timer main() adds.  Without  *)
(* that shape it may not (the second timer waits twice, or a function is   *)
(* deleted from a full table), so the shape is the theorems' hypothesis.   *)
(* Any callback, its own too, may delete that timer, as it does when it    *)
(* gives up, and delete and add functions and other timers.                *)
(***************************************************************************)
EXTENDS LoopProofs

Absent(p, s) == \A i \in 1 .. Len(s) : s[i] # p

\* Timer p is the first timer of the sequence, and is in it once.
FirstTimer(p, s) ==
    \E i \in 1 .. Len(s) :
       /\ s[i] = p
       /\ \A j \in 1 .. i - 1 : s[j] \notin Timer
       /\ \A j \in i + 1 .. Len(s) : s[j] # p

\* The program's only callback that waits is that of timer p, the first one
\* main() adds.  No callback adds p, but any may delete it, and functions only in
\* a program whose tables stay apart.
SolePender(p) ==
    /\ p \in Timer
    /\ Penders \subseteq {p}
    /\ Adds \subseteq Object \X (Object \ {p})
    /\ TidyProgram \/ Dels \subseteq Object \X Timer
    /\ FirstTimer(p, Setup)

\* Timer p is in the first slot of the timer table or nowhere: main() adds it
\* there, and when it has been deleted nobody adds it again.
Placed(p) ==
    /\ \A k \in Slot : mem[k] = p => k = FuncMax
    /\ \/ Absent(p, setup)
       \/ stack = <<>> /\ mem[FuncMax] = None /\ FirstTimer(p, setup)

\* Functions are marked for deletion only in a program whose tables stay apart.
Unmarked == \A f \in Func : toDelete[f] => TidyProgram

\* What the innermost activation of loop() is doing.  A callback of p that has
\* not waited yet was reached through the first slot of the timer pass, so the
\* shared cursor still names p, which only a pass removes from there; afterwards
\* its own pend_env does.
Innermost(p) ==
    /\ Top.pc = "cb" => idx >= 1
    /\ Top.pc = "timers" /\ idx = 0 => check = "timers"
    /\ Top.pc # "cb" => Top.cur = None
    /\ Top.f = None
    /\ Top.cur # p => Top.t = None
    /\ Top.cur = p => /\ Len(stack) = 1
                      /\ \/ Top.t = p
                         \/ /\ Top.t = None /\ check = "timers" /\ idx = 1
                            /\ mem[FuncMax] = p

\* One nested loop() at most, run for p; p alone is blocked, while it runs.
Nested(p) ==
    /\ Len(stack) <= 2
    /\ \A o \in Object : blocked[o] <=> Len(stack) = 2 /\ o = p
    /\ Len(stack) = 2 => stack[1] = [pc |-> "cb", cur |-> p, f |-> None, t |-> p]
    /\ stack # <<>> => Innermost(p)

SoleInv(p) ==
    /\ TidyProgram => TableInv
    /\ Placed(p)
    /\ Unmarked
    /\ exit = 0 => Nested(p)

-----------------------------------------------------------------------------
(* Filling the tables.                                                     *)

\* The next free slot of the timer table is its first one as long as that is
\* empty, and never again.
LEMMA FreeSlot ==
    ASSUME TypeOK, NEW t \in Timer
    PROVE  /\ Cardinality(Scan(t)) \in Nat
           /\ Cardinality(Scan(t)) = 0 <=> mem[FuncMax] = None
  <1>1. Base(t) = FuncMax /\ Home(t) \subseteq Slot /\ FuncMax \in Home(t)
    BY ObjectAssumption, TableAssumption, SlotFacts
    DEF Base, Home, Size, Slot, Last, IdxMax
  <1>2. IsFiniteSet(Home(t))
    <2>1. FuncMax \in Int /\ FuncMax + TimerMax - 1 \in Int
      BY SlotFacts
    <2>2. Home(t) = FuncMax .. FuncMax + TimerMax - 1
      BY <1>1, ObjectAssumption DEF Home, Size
    <2> QED
      BY <2>1, <2>2, FS_Interval
  <1>3. IsFiniteSet(Scan(t)) /\ Cardinality(Scan(t)) \in Nat
    BY <1>2, FS_Subset, FS_CardinalityType DEF Scan
  <1>4. Scan(t) = {} <=> mem[FuncMax] = None
    BY <1>1, SlotFacts DEF Scan, InRun
  <1> QED
    BY <1>3, <1>4, FS_EmptySet

\* Adding the first timer puts it in the first slot.
LEMMA AddFirst ==
    ASSUME TypeOK, NEW p \in Timer, Add(p), mem[FuncMax] = None
    PROVE  mem' = [mem EXCEPT ![FuncMax] = p] /\ UNCHANGED toDelete
  <1>1. FuncMax + Cardinality(Scan(p)) = FuncMax
    BY FreeSlot, SlotFacts
  <1>2. Base(p) = FuncMax /\ FuncMax \in Home(p)
    BY ObjectAssumption, TableAssumption, SlotFacts DEF Base, Home, Size
  <1>3. ~Registered(p)
    BY <1>2 DEF Registered, Scan
  <1> QED
    BY <1>1, <1>2, <1>3 DEF Add

\* Adding anything writes nothing else, and leaves the first slot of the timers
\* alone, once it is in use or if the object is a function.
LEMMA AddOther ==
    ASSUME TypeOK, NEW o \in Object, Add(o)
    PROVE  /\ (o \in Timer => mem[FuncMax] # None) => mem'[FuncMax] = mem[FuncMax]
           /\ \A k \in Slot : mem'[k] # mem[k] => mem'[k] = o
           /\ \A x \in Object : toDelete'[x] => toDelete[x]
  <1> DEFINE free == Base(o) + Cardinality(Scan(o))
  <1>1. ASSUME o \in Timer => mem[FuncMax] # None
        PROVE  free \in Home(o) => free # FuncMax
    <2>1. CASE o \in Timer
      BY <1>1, <2>1, FreeSlot, SlotFacts, ObjectAssumption DEF Base
    <2>2. CASE o \in Func
      BY <2>2, SlotFacts DEF Base, Home, Size
    <2> QED
      BY <2>1, <2>2 DEF Object
  <1>2. \/ UNCHANGED mem
        \/ free \in Home(o) /\ mem' = [mem EXCEPT ![free] = o]
    BY DEF Add
  <1>3. FuncMax \in Slot
    BY SlotFacts
  <1>4. \A x \in Object : toDelete'[x] => toDelete[x]
    BY DEF Add, TypeOK
  <1> HIDE DEF free
  <1> QED
    BY <1>1, <1>2, <1>3, <1>4 DEF TypeOK

\* Closing a gap in the table of the timers leaves what is before it alone and
\* brings nothing in.
LEMMA CloseBehind ==
    ASSUME TypeOK, NEW i \in 0 .. IdxMax, NEW k \in Slot
    PROVE  /\ k < FuncMax => Closed(FuncMax + i)[k] = mem[k]
           /\ \/ Closed(FuncMax + i)[k] = None
              \/ Closed(FuncMax + i)[k] = mem[k]
              \/ k + 1 \in Slot /\ Closed(FuncMax + i)[k] = mem[k + 1]
  <1>1. k \in Int /\ FuncMax \in Int /\ Last \in Int
    BY SlotFacts DEF Slot, Last
  <1>2. k < FuncMax => ~InRun(FuncMax + i, k)
    BY <1>1, SlotFacts DEF InRun
  <1>3. k # Last => k + 1 \in Slot
    BY <1>1 DEF Slot
  <1> QED
    BY <1>1, <1>2, <1>3 DEF Closed

-----------------------------------------------------------------------------
(* The tables.                                                             *)

LEMMA ShapeFacts ==
    ASSUME NEW p, SolePender(p)
    PROVE  /\ p \in Timer /\ p \in Object /\ p \notin Func /\ p # None
           /\ FuncMax \in Slot
  BY ObjectAssumption, SlotFacts DEF SolePender, Object

LEMMA TablesInit ==
    ASSUME NEW p, SolePender(p), Init
    PROVE  Placed(p) /\ Unmarked
  BY ShapeFacts DEF Init, SolePender, Placed, Unmarked, Object

\* Where p is in the tables, and which objects are marked, for each action that
\* changes either.
LEMMA TablesStep ==
    ASSUME NEW p, SolePender(p), TypeOK, TidyProgram => TableInv,
           Placed(p), Unmarked, [Next]_vars
    PROVE  Placed(p)' /\ Unmarked'
  <1> USE ShapeFacts DEF loopVars, flagVars, timerVars, envVars
  <1>1. CASE MainAdd
    <2> DEFINE o == Head(setup)
    <2>1. /\ o \in Object /\ Len(setup) \in Nat \ {0} /\ o = setup[1]
          /\ Len(setup') = Len(setup) - 1
          /\ \A i \in 1 .. Len(setup') : setup'[i] = setup[i + 1]
      BY <1>1 DEF MainAdd, TypeOK
    <2>2. Add(o) /\ stack' = <<>>
      BY <1>1 DEF MainAdd
    <2>3. CASE Absent(p, setup)
      <3>1. o # p /\ Absent(p, setup')
        BY <2>1, <2>3 DEF Absent
      <3>2. /\ \A k \in Slot : mem'[k] # mem[k] => mem'[k] = o
            /\ \A x \in Object : toDelete'[x] => toDelete[x]
        BY <2>1, <2>2, AddOther
      <3> QED
        BY <3>1, <3>2 DEF Placed, Unmarked, Object
    <2>4. CASE mem[FuncMax] = None /\ FirstTimer(p, setup)
      <3>1. PICK i \in 1 .. Len(setup) :
               /\ setup[i] = p
               /\ \A j \in 1 .. i - 1 : setup[j] \notin Timer
               /\ \A j \in i + 1 .. Len(setup) : setup[j] # p
        BY <2>4 DEF FirstTimer
      <3>2. CASE i = 1
        <4>1. o = p /\ Absent(p, setup')
          BY <2>1, <3>1, <3>2 DEF Absent
        <4> QED
          BY <2>2, <2>4, <4>1, AddFirst DEF Placed, Unmarked, TypeOK, Object
      <3>3. CASE i # 1
        <4>1. o \notin Timer
          BY <2>1, <3>1, <3>3
        <4>2. FirstTimer(p, setup')
          <5>1. i - 1 \in 1 .. Len(setup') /\ setup'[i - 1] = p
            BY <2>1, <3>1, <3>3
          <5>2. \A j \in 1 .. i - 2 : setup'[j] \notin Timer
            BY <2>1, <3>1, <3>3
          <5>3. \A j \in i .. Len(setup') : setup'[j] # p
            BY <2>1, <3>1, <3>3
          <5> QED
            BY <5>1, <5>2, <5>3 DEF FirstTimer
        <4>3. /\ mem'[FuncMax] = None
              /\ \A k \in Slot : mem'[k] # mem[k] => mem'[k] = o
              /\ \A x \in Object : toDelete'[x] => toDelete[x]
          BY <2>1, <2>2, <2>4, <4>1, AddOther
        <4> QED
          BY <2>2, <4>1, <4>2, <4>3 DEF Placed, Unmarked, Object
      <3> QED
        BY <3>2, <3>3
    <2> QED
      BY <2>3, <2>4 DEF Placed
  <1>2. CASE Enter
    <2>1. \A s : setup = <<>> => ~FirstTimer(p, setup)
      BY DEF FirstTimer
    <2> QED
      BY <1>2, <2>1 DEF Enter, Placed, Unmarked
  <1>3. ASSUME NEW t \in Timer, TimerDelete(t)
        PROVE  Placed(p)' /\ Unmarked'
    <2>1. Absent(p, setup) /\ idx \in 0 .. IdxMax
      BY <1>3 DEF TimerDelete, At, Placed, TypeOK
    <2>2. \A k \in Slot : mem'[k] = p => k = FuncMax
      <3> SUFFICES ASSUME NEW k \in Slot, mem'[k] = p PROVE k = FuncMax
        OBVIOUS
      <3>1. mem'[k] = Closed(FuncMax + idx)[k] /\ k \in Nat
        BY <1>3, SlotFacts DEF TimerDelete, Slot, Last
      <3>2. k + 1 \in Slot /\ mem[k + 1] = p => k + 1 = FuncMax
        BY DEF Placed
      <3>3. CASE k < FuncMax
        BY <2>1, <3>1, <3>3, CloseBehind DEF Placed
      <3>4. CASE k > FuncMax
        <4>1. mem[k] # p
          BY <3>1, <3>4, SlotFacts DEF Placed
        <4>2. k + 1 \in Slot => mem[k + 1] # p
          BY <3>1, <3>2, <3>4, SlotFacts
        <4> QED
          BY <2>1, <3>1, <3>4, <4>1, <4>2, CloseBehind
      <3> QED
        BY <3>1, <3>3, <3>4, SlotFacts
    <2>3. Unmarked'
      BY <1>3 DEF TimerDelete, Unmarked, TypeOK, Object
    <2>4. setup' = setup
      BY <1>3 DEF TimerDelete
    <2> QED
      BY <2>1, <2>2, <2>3, <2>4 DEF Placed, Absent
  <1>4. ASSUME NEW f \in Func, FuncDelete(f)
        PROVE  Placed(p)' /\ Unmarked'
    <2>1. Absent(p, setup) /\ UNCHANGED setup
      BY <1>4 DEF FuncDelete, At, Placed
    <2>2. Stop(idx, FuncMax - 1) /\ mem' = Closed(idx)
      BY <1>4, FuncStop DEF FuncDelete, Unmarked, Object
    <2>3. ASSUME NEW k \in Slot
          PROVE  /\ k >= FuncMax => mem'[k] = mem[k]
                 /\ k < FuncMax => mem'[k] # p
      <3>1. /\ From(idx, k) \in Slot /\ mem'[k] = mem[From(idx, k)]
            /\ InRun(idx, k) => k < FuncMax - 1
        BY <2>2, ClosedFrom
      <3>2. k >= FuncMax => From(idx, k) = k
        BY <3>1, SlotFacts DEF From, Slot, Last
      <3>3. k < FuncMax => From(idx, k) # FuncMax
        BY <3>1, SlotFacts DEF From, Slot, Last
      <3> QED
        BY <3>1, <3>2, <3>3 DEF Placed
    <2>4. \A k \in Slot : mem'[k] = p => k = FuncMax
      BY <2>3, SlotFacts DEF Placed, Slot, Last
    <2>5. Unmarked'
      BY <1>4 DEF FuncDelete, Unmarked, TypeOK, Object
    <2> QED
      BY <2>1, <2>4, <2>5 DEF Placed, Absent
  <1>5. ASSUME NEW o \in Object, NEW x \in Object, CbAdd(o, x)
        PROVE  Placed(p)' /\ Unmarked'
    <2>1. x # p /\ Add(x) /\ stack # <<>>
      BY <1>5 DEF CbAdd, SolePender, Running, At
    <2>2. /\ \A k \in Slot : mem'[k] # mem[k] => mem'[k] = x
          /\ \A y \in Object : toDelete'[y] => toDelete[y]
      BY <2>1, AddOther
    <2> QED
      BY <1>5, <2>1, <2>2 DEF CbAdd, Placed, Unmarked, Object
  <1>6. ASSUME NEW o \in Object, NEW x \in Object, CbDel(o, x)
        PROVE  Placed(p)' /\ Unmarked'
    <2>1. /\ x \in Func => TidyProgram
          /\ stack # <<>> /\ UNCHANGED <<mem, setup>>
          /\ toDelete' = [toDelete EXCEPT ![x] = TRUE]
      BY <1>6, ObjectAssumption DEF CbDel, SolePender, Running, At
    <2>2. Unmarked'
      BY <2>1 DEF Unmarked, TypeOK, Object
    <2> QED
      BY <2>1, <2>2 DEF Placed, Absent
  <1>7. CASE /\ UNCHANGED <<mem, toDelete, setup>>
             /\ stack = <<>> => stack' = <<>>
    BY <1>7 DEF Placed, Unmarked, Absent, FirstTimer
  <1> QED
    BY <1>1, <1>2, <1>3, <1>4, <1>5, <1>6, <1>7
    DEF Next, LoopStep, Api, At, Running, Vblank, LoopExit, LoopTimers, LoopFrame,
        LoopFuncs, FuncsDone, TimersDone, FuncSkip, FuncCall, TimerSkip,
        TimerCount, TimerFire, CbReturn, Pend, Post, LoopEnd, TimerStart,
        TimerStop, SetReload, FuncSwitch, vars, Visit

-----------------------------------------------------------------------------
(* The activations.                                                        *)

LEMMA AtMostTwo ==
    ASSUME NEW n \in Nat, n <= 2
    PROVE  n = 0 \/ n = 1 \/ n = 2
  OBVIOUS

LEMMA FirstOfTwo ==
    ASSUME NEW S, NEW s \in Seq(S), Len(s) = 2
    PROVE  /\ Len(SubSeq(s, 1, Len(s) - 1)) = 1
           /\ SubSeq(s, 1, Len(s) - 1)[1] = s[1]
  OBVIOUS

\* The depth of the stack.
LEMMA NestedDepth ==
    ASSUME NEW p, TypeOK, Nested(p)
    PROVE  Len(stack) = 0 \/ Len(stack) = 1 \/ Len(stack) = 2
  <1>1. Len(stack) \in Nat
    BY DEF TypeOK
  <1>2. Len(stack) <= 2
    BY DEF Nested
  <1> QED
    BY <1>1, <1>2, AtMostTwo

LEMMA NestedInit ==
    ASSUME NEW p, SolePender(p), Init
    PROVE  Nested(p)
  BY DEF Init, Nested

\* A step that only replaces the innermost activation keeps what is said of
\* the others.
LEMMA NestedSetTop ==
    ASSUME NEW p, TypeOK, Nested(p), stack # <<>>, NEW l \in Level, SetTop(l),
           UNCHANGED blocked,
           Top' = l /\ Len(stack') = Len(stack) => Innermost(p)'
    PROVE  Nested(p)'
  <1>1. Len(stack) \in {1, 2}
    BY NestedDepth, TopType
  <1>2. /\ Len(stack') = Len(stack)
        /\ stack'[Len(stack)] = l
        /\ Len(stack) = 2 => stack'[1] = stack[1]
    <2>1. stack \in Seq(Level) /\ stack' = [stack EXCEPT ![Len(stack)] = l]
      BY DEF SetTop, TypeOK
    <2>2. DOMAIN stack = 1 .. Len(stack)
      BY <2>1
    <2> QED
      BY <1>1, <2>1, <2>2, ReplaceTop
  <1>3. Top' = l
    BY <1>2 DEF Top
  <1> QED
    BY <1>1, <1>2, <1>3 DEF Nested

\* The exit code is never taken back.
LEMMA ExitStays ==
    ASSUME TypeOK, [Next]_vars, exit' = 0
    PROVE  exit = 0
  BY ProgramAssumption
  DEF Next, LoopStep, Api, MainAdd, Enter, Vblank, LoopExit, LoopTimers,
      LoopFrame, LoopFuncs, FuncsDone, TimersDone, FuncDelete, FuncSkip,
      FuncCall, TimerDelete, TimerSkip, TimerCount, TimerFire, CbReturn, Pend,
      Post, LoopEnd, TimerStart, TimerStop, SetReload, FuncSwitch, CbAdd,
      CbDel, vars, loopVars

\* Nested(p), step by step: one case per action that changes the activations,
\* the cursor, the pass or the blocked flags.
LEMMA NestedStep ==
    ASSUME NEW p, SolePender(p), TypeOK, Placed(p), Unmarked, Nested(p),
           exit = 0, exit' = 0, [Next]_vars
    PROVE  Nested(p)'
  <1> USE ShapeFacts DEF loopVars, flagVars, timerVars, envVars
  <1>1. stack # <<>> => Innermost(p) /\ Top \in Level /\ idx \in Nat
    BY TopType, SlotFacts DEF Nested, TypeOK
  <1>2. CASE Enter
    <2>1. stack' = <<NewLevel>> /\ Top' = NewLevel /\ UNCHANGED blocked
      BY <1>2 DEF Enter, Top
    <2> QED
      BY <1>2, <2>1 DEF Enter, Nested, Innermost, NewLevel
  <1>3. ASSUME NEW q \in Stages \ {"cb"}, Goto(q), stack # <<>>, Top.pc # "cb",
               UNCHANGED blocked,
               q = "timers" => check' = "timers"
        PROVE  Nested(p)'
    <2>1. [Top EXCEPT !.pc = q] \in Level
      BY <1>1, <1>3 DEF Level
    <2>2. Top' = [Top EXCEPT !.pc = q] => Innermost(p)'
      BY <1>1, <1>3 DEF Innermost, Level
    <2> QED
      BY <1>3, <2>1, <2>2, NestedSetTop DEF Goto
  <1>4. CASE LoopTimers \/ LoopFrame \/ LoopFuncs
    <2>1. stack # <<>> /\ Top.pc # "cb" /\ UNCHANGED blocked
      BY <1>4 DEF LoopTimers, LoopFrame, LoopFuncs, At
    <2>2. Goto("funcs") \/ (Goto("timers") /\ check' = "timers")
      BY <1>4 DEF LoopTimers, LoopFrame, LoopFuncs
    <2> QED
      BY <1>3, <2>1, <2>2 DEF Stages
  <1>5. CASE FuncsDone \/ TimersDone
    <2>1. Goto("head") /\ stack # <<>> /\ Top.pc # "cb" /\ UNCHANGED blocked
      BY <1>5 DEF FuncsDone, TimersDone, At
    <2> QED
      BY <1>3, <2>1 DEF Stages
  <1>6. CASE /\ UNCHANGED <<stack, check, blocked>>
             /\ \/ UNCHANGED idx
                \/ idx' = idx + 1 /\ stack # <<>> /\ Top.pc # "cb"
             /\ \/ mem' = mem
                \/ stack = <<>> \/ Top.pc # "cb"
                \/ mem[FuncMax] # None => mem'[FuncMax] = mem[FuncMax]
    <2>1. stack # <<>> => Innermost(p)'
      <3>1. Top' = Top
        BY <1>6 DEF Top
      <3>2. CASE UNCHANGED idx
        BY <1>1, <1>6, <3>1, <3>2 DEF Innermost
      <3>3. CASE Top.pc # "cb"
        BY <1>1, <1>6, <3>1, <3>3 DEF Innermost
      <3> QED
        BY <1>1, <1>6, <3>2, <3>3
    <2> QED
      BY <1>6, <2>1 DEF Nested
  <1>7. ASSUME NEW f \in Func, FuncCall(f)
        PROVE  Nested(p)'
    <2> DEFINE l == [Top EXCEPT !.pc = "cb", !.cur = f]
    <2>1. /\ stack # <<>> /\ Top.pc = "funcs" /\ idx' = idx + 1
          /\ UNCHANGED blocked /\ SetTop(l)
      BY <1>7 DEF FuncCall, At
    <2>2. l \in Level /\ l.pc = "cb" /\ l.cur = f /\ l.f = Top.f /\ l.t = Top.t
      BY <1>1, <2>1 DEF Level, Stages, Pointer, Object
    <2>3. Top.f = None /\ Top.t = None
      BY <1>1, <2>1 DEF Innermost
    <2> HIDE DEF l
    <2>4. Top' = l => Innermost(p)'
      BY <1>1, <2>1, <2>2, <2>3 DEF Innermost
    <2> QED
      BY <2>1, <2>2, <2>4, NestedSetTop
  <1>8. ASSUME NEW t \in Timer, TimerFire(t)
        PROVE  Nested(p)'
    <2> DEFINE l == [Top EXCEPT !.pc = "cb", !.cur = t]
    <2>1. /\ stack # <<>> /\ Top.pc = "timers" /\ idx' = idx + 1
          /\ UNCHANGED <<blocked, check>> /\ SetTop(l) /\ ~blocked[t]
          /\ T(idx) = t
      BY <1>8 DEF TimerFire, Visit, Armed, At
    <2>2. l \in Level /\ l.pc = "cb" /\ l.cur = t /\ l.f = Top.f /\ l.t = Top.t
      BY <1>1, <2>1 DEF Level, Stages, Pointer, Object
    <2>3. Top.f = None /\ Top.t = None
      BY <1>1, <2>1 DEF Innermost
    <2>4. t = p => Len(stack) = 1 /\ idx = 0 /\ check = "timers" /\ mem'[FuncMax] = p
      <3> SUFFICES ASSUME t = p
                   PROVE  /\ Len(stack) = 1 /\ idx = 0 /\ check = "timers"
                          /\ mem'[FuncMax] = p
        OBVIOUS
      <3>1. Len(stack) = 1
        <4>1. Len(stack) # 2
          BY <2>1 DEF Nested
        <4> QED
          BY <2>1, <4>1, NestedDepth, TopType
      <3>2. idx = 0
        BY <2>1, SlotFacts DEF Placed, T, TypeOK
      <3>3. mem'[FuncMax] = p
        BY <1>8, <2>1, <3>2, SlotFacts DEF T, TimerFire
      <3> QED
        BY <1>1, <2>1, <3>1, <3>2, <3>3 DEF Innermost
    <2> HIDE DEF l
    <2>5. Top' = l /\ Len(stack') = Len(stack) => Innermost(p)'
      BY <1>1, <2>1, <2>2, <2>3, <2>4 DEF Innermost
    <2> QED
      BY <2>1, <2>2, <2>5, NestedSetTop
  <1>9. ASSUME NEW o \in Object, CbReturn(o)
        PROVE  Nested(p)'
    <2> DEFINE l == [Top EXCEPT
                       !.pc = IF o \in Func THEN "funcs" ELSE "timers",
                       !.cur = None,
                       !.f = IF o \in Func THEN None ELSE @,
                       !.t = IF o \in Timer THEN None ELSE @]
    <2>1. /\ stack # <<>> /\ Top.pc = "cb" /\ Top.cur = o /\ SetTop(l)
          /\ UNCHANGED <<blocked, idx, check>>
      BY <1>9 DEF CbReturn, Running, At
    <2>2. Top.f = None /\ idx >= 1 /\ (o \in Func => Top.t = None)
      BY <1>1, <2>1 DEF Innermost
    <2>3. /\ l \in Level /\ l.pc # "cb" /\ l.cur = None
          /\ l.f = None /\ l.t = None
      BY <1>1, <2>1, <2>2 DEF Level, Stages, Pointer, Object
    <2> HIDE DEF l
    <2>4. Top' = l => Innermost(p)'
      BY <1>1, <2>1, <2>2, <2>3 DEF Innermost
    <2> QED
      BY <2>1, <2>3, <2>4, NestedSetTop
  <1>10. ASSUME NEW o \in Object, Pend(o)
         PROVE  Nested(p)'
    <2>1. Top.cur = p /\ Top.pc = "cb" /\ stack # <<>>
      BY <1>10 DEF Pend, Running, At, SolePender
    <2>2. Len(stack) = 1 /\ stack[1] = Top /\ stack = <<Top>>
      <3>1. Len(stack) = 1
        BY <1>1, <2>1 DEF Innermost
      <3>2. stack[1] = Top
        BY <3>1 DEF Top
      <3> QED
        BY <3>1, <3>2 DEF TypeOK
    <2>3. PendEnv = [pc |-> "cb", cur |-> p, f |-> None, t |-> p]
      <3>1. CASE Top.t = p
        BY <1>1, <2>1, <3>1 DEF PendEnv, Innermost, Level
      <3>2. CASE Top.t = None /\ check = "timers" /\ idx = 1 /\ mem[FuncMax] = p
        <4>1. Slotted = p
          BY <2>1, <3>2, SlotFacts DEF Slotted, T
        <4> QED
          BY <1>1, <2>1, <3>2, <4>1 DEF PendEnv, Innermost, Level
      <3> QED
        BY <1>1, <2>1, <3>1, <3>2 DEF Innermost
    <2>4. Pended(PendEnv) = p
      BY <2>3 DEF Pended
    <2>5. /\ stack' = <<PendEnv, NewLevel>>
          /\ blocked' = [blocked EXCEPT ![p] = TRUE]
      BY <1>10, <2>2, <2>4 DEF Pend
    <2>6. Top' = NewLevel /\ Len(stack') = 2 /\ stack'[1] = PendEnv
      BY <2>5 DEF Top
    <2>7. Innermost(p)'
      BY <2>6 DEF Innermost, NewLevel
    <2>8. \A x \in Object : blocked'[x] <=> x = p
      BY <2>2, <2>5 DEF Nested, TypeOK
    <2> QED
      BY <2>3, <2>6, <2>7, <2>8 DEF Nested
  <1>11. ASSUME NEW o \in Object, NEW v \in PostArgs, Post(o, v)
         PROVE  Nested(p)'
    <2>1. Len(stack) = 2 /\ stack # <<>> /\ Top.pc = "cb" /\ idx' = idx
      <3>1. Running(o) /\ idx' = idx
        BY <1>11 DEF Post
      <3>2. stack # <<>> /\ Top.pc = "cb"
        BY <3>1 DEF Running, At
      <3>3. Len(stack) > 1
        BY <1>11 DEF Post
      <3>4. Len(stack) \in Nat /\ Len(stack) <= 2
        BY <3>2, TopType DEF Nested
      <3>5. \A n \in Nat : n <= 2 /\ n > 1 => n = 2
        OBVIOUS
      <3>6. Len(stack) = 2
        BY <3>3, <3>4, <3>5, Zenon
      <3> QED
        BY <3>1, <3>2, <3>6
    <2>2. stack[1] = [pc |-> "cb", cur |-> p, f |-> None, t |-> p]
      BY <2>1 DEF Nested
    <2>3. /\ Len(stack') = 1 /\ stack'[1] = stack[1]
          /\ blocked' = [blocked EXCEPT ![p] = FALSE]
      <3>1. Resume(JmpValue(v)) /\ Len(stack) - 1 = 1
        BY <1>11, <2>1 DEF Post
      <3>2. stack' = SubSeq(stack, 1, Len(stack) - 1)
        BY <3>1 DEF Resume
      <3>3. Pended(stack[1]) = p
        BY <2>2 DEF Pended
      <3>4. Len(stack') = 1 /\ stack'[1] = stack[1]
        BY <2>1, <3>2, FirstOfTwo DEF TypeOK
      <3> QED
        BY <3>1, <3>2, <3>3, <3>4 DEF Resume
    <2>4. Top' = stack[1] /\ Len(stack') = 1
      BY <2>3 DEF Top
    <2>5. Innermost(p)'
      BY <1>1, <2>1, <2>2, <2>4 DEF Innermost
    <2>6. \A x \in Object : ~blocked'[x]
      BY <2>1, <2>3 DEF Nested, TypeOK
    <2> QED
      BY <2>4, <2>5, <2>6 DEF Nested
  <1>12. CASE LoopExit
    BY <1>12 DEF LoopExit
  <1>13. ASSUME NEW o \in Object, NEW x \in Object, CbAdd(o, x)
         PROVE  Nested(p)'
    <2>1. mem[FuncMax] # None => mem'[FuncMax] = mem[FuncMax]
      BY <1>13, AddOther DEF CbAdd
    <2>2. UNCHANGED <<stack, check, blocked, idx>>
      BY <1>13 DEF CbAdd
    <2> QED
      BY <1>6, <2>1, <2>2
  <1> QED
    BY <1>2, <1>4, <1>5, <1>6, <1>7, <1>8, <1>9, <1>10, <1>11, <1>12, <1>13
    DEF Next, LoopStep, Api, MainAdd, Vblank, FuncDelete, FuncSkip, Visit,
        TimerDelete, TimerSkip, TimerCount, LoopEnd, TimerStart, TimerStop,
        SetReload, FuncSwitch, CbDel, At, vars

-----------------------------------------------------------------------------
(* What loop_pend() promises.                                              *)

LEMMA SoleInvariant ==
    ASSUME NEW p, SolePender(p)
    PROVE  Spec => [](TypeOK /\ SoleInv(p))
  <1>1. Init => TypeOK /\ SoleInv(p)
    BY TypeInit, TableInit, TablesInit, NestedInit DEF SoleInv
  <1>2. TypeOK /\ SoleInv(p) /\ [Next]_vars => TypeOK' /\ SoleInv(p)'
    BY TypeStep, TableStep, TablesStep, NestedStep, ExitStays DEF SoleInv
  <1> QED
    BY <1>1, <1>2, PTL DEF Spec

\* While the program is not leaving the loop, the blocked objects are exactly
\* those whose callback is suspended in loop_pend() (loop.c:266-288): the one
\* that waits is not called again by the loop that runs inside it, and it is
\* never left blocked when its wait is over.
THEOREM PendBlocks ==
    ASSUME NEW p, SolePender(p)
    PROVE  Spec => []PendBlocksCaller
  <1>1. TypeOK /\ SoleInv(p) => PendBlocksCaller
    <2> SUFFICES ASSUME TypeOK, Nested(p)
                 PROVE  {o \in Object : blocked[o]} = Suspended
      BY DEF PendBlocksCaller, SoleInv
    <2>1. CASE Len(stack) = 2
      <3>1. Suspended = {p}
        BY <2>1 DEF Suspended, Nested
      <3> QED
        BY <2>1, <3>1, ShapeFacts DEF Nested
    <2>2. CASE Len(stack) # 2
      <3>1. Suspended = {}
        <4>1. Len(stack) = 0 \/ Len(stack) = 1
          BY <2>2, NestedDepth
        <4>2. 1 .. Len(stack) - 1 = {}
          <5>1. CASE Len(stack) = 0
            BY <5>1
          <5>2. CASE Len(stack) = 1
            BY <5>2
          <5> QED
            BY <4>1, <5>1, <5>2
        <4> QED
          BY <4>2 DEF Suspended
      <3> QED
        BY <2>2, <3>1 DEF Nested
    <2> QED
      BY <2>1, <2>2
  <1> QED
    BY <1>1, SoleInvariant, PTL

\* loop_pend() always waits, unless the program is leaving the loop: it never
\* returns 0 at once because the shared cursor points at nothing.
THEOREM PendWaits ==
    ASSUME NEW p, SolePender(p)
    PROVE  Spec => [][exit = 0 => \A o \in Object :
                        Pend(o) => Len(stack') = Len(stack) + 1]_vars
  <1>1. /\ TypeOK /\ SoleInv(p)
        /\ [Next]_vars
        => [exit = 0 => \A o \in Object :
              Pend(o) => Len(stack') = Len(stack) + 1]_vars
    <2> SUFFICES ASSUME TypeOK, SoleInv(p), exit = 0, NEW o \in Object, Pend(o)
                 PROVE  Len(stack') = Len(stack) + 1
      OBVIOUS
    <2> USE ShapeFacts
    <2>1. Top.cur = p /\ Top.pc = "cb" /\ stack # <<>> /\ Innermost(p)
      BY DEF Pend, Running, At, SolePender, SoleInv, Nested
    <2>2. Pended(PendEnv) = p
      <3>1. Slotted = p \/ Top.t = p
        BY <2>1, SlotFacts DEF Innermost, Slotted, T
      <3> QED
        BY <2>1, <3>1, TopType DEF Innermost, PendEnv, Pended, Level
    <2>3. stack' = Append([stack EXCEPT ![Len(stack)] = PendEnv], NewLevel)
      BY <2>2 DEF Pend
    <2> QED
      BY <2>1, <2>3 DEF TypeOK
  <1> QED
    BY <1>1, SoleInvariant, PTL DEF Spec

\* In a program that never calls loop_end(), as the one with the edited tables,
\* loop_pend() always waits.
THEOREM PendAlwaysSuspends ==
    ASSUME NEW p, SolePender(p), ExitArgs = {}
    PROVE  Spec => PendSuspends
  <1>1. Init => exit = 0
    BY DEF Init
  <1>2. exit = 0 /\ [Next]_vars => (exit = 0)'
    BY DEF Next, LoopStep, Api, MainAdd, Enter, Vblank, LoopExit, LoopTimers,
           LoopFrame, LoopFuncs, FuncsDone, TimersDone, FuncDelete, FuncSkip,
           FuncCall, TimerDelete, TimerSkip, TimerCount, TimerFire, Visit,
           CbReturn, Pend, Post, LoopEnd, TimerStart, TimerStop, SetReload,
           FuncSwitch, CbAdd, CbDel, vars, loopVars
  <1>3. /\ exit = 0
        /\ [exit = 0 => \A o \in Object : Pend(o) => Len(stack') = Len(stack) + 1]_vars
        => [\A o \in Object : Pend(o) => Len(stack') = Len(stack) + 1]_vars
    OBVIOUS
  <1>4. Spec => [][exit = 0 => \A o \in Object :
                      Pend(o) => Len(stack') = Len(stack) + 1]_vars
    BY PendWaits
  <1> QED
    BY <1>1, <1>2, <1>3, <1>4, PTL DEF Spec, PendSuspends

=============================================================================
