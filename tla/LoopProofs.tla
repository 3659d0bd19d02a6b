----------------------------- MODULE LoopProofs -----------------------------
(***************************************************************************)
(* Theorems about the scheduler, for every program that uses it: any       *)
(* functions and timers, any table sizes, any callbacks.                   *)
(***************************************************************************)
EXTENDS Loop, FiniteSetTheorems, TLAPS

-----------------------------------------------------------------------------
(* The stack of activations.                                               *)

\* The activation that runs is one.
LEMMA TopIsElement ==
    ASSUME NEW S, NEW s \in Seq(S), s # <<>>
    PROVE  /\ Len(s) \in Nat
           /\ Len(s) > 0
           /\ s[Len(s)] \in S
  OBVIOUS

\* SetTop: the running activation is replaced by another one.
LEMMA ReplaceTop ==
    ASSUME NEW S, NEW s \in Seq(S), s # <<>>, NEW x \in S
    PROVE  /\ [s EXCEPT ![Len(s)] = x] \in Seq(S)
           /\ Len([s EXCEPT ![Len(s)] = x]) = Len(s)
  OBVIOUS

\* Resume: the running activation is abandoned.
LEMMA DropTop ==
    ASSUME NEW S, NEW s \in Seq(S), Len(s) > 1
    PROVE  /\ SubSeq(s, 1, Len(s) - 1) \in Seq(S)
           /\ Len(SubSeq(s, 1, Len(s) - 1)) = Len(s) - 1
  OBVIOUS

-----------------------------------------------------------------------------
(* Type correctness.                                                       *)

LEMMA SlotFacts ==
    /\ IdxMax \in Nat
    /\ FuncMax \in Nat /\ TimerMax \in Nat
    /\ FuncMax <= IdxMax
    /\ TimerMax <= IdxMax
    /\ \A i \in 0 .. IdxMax : i \in Slot /\ FuncMax + i \in Slot
  BY TableAssumption DEF IdxMax, Last, Slot

\* A word of the tables is a pointer, wherever the cursor is.
LEMMA WordType ==
    ASSUME TypeOK, NEW i \in 0 .. IdxMax
    PROVE  F(i) \in Pointer /\ T(i) \in Pointer
  BY SlotFacts DEF TypeOK, F, T

LEMMA ClosedType ==
    ASSUME TypeOK, NEW i \in Slot
    PROVE  Closed(i) \in [Slot -> Pointer]
  <1> SUFFICES ASSUME NEW k \in Slot,
                      ~(~InRun(i, k)), k # Last
               PROVE  mem[k + 1] \in Pointer
    BY DEF Closed, TypeOK, Pointer
  <1>1. k + 1 \in Slot
    BY SlotFacts DEF Slot, Last
  <1> QED
    BY <1>1 DEF TypeOK

LEMMA AddType ==
    ASSUME TypeOK, NEW o \in Object, Add(o)
    PROVE  /\ mem' \in [Slot -> Pointer]
           /\ toDelete' \in [Object -> BOOLEAN]
  BY DEF Add, TypeOK, Pointer

LEMMA TopType ==
    ASSUME TypeOK, stack # <<>>
    PROVE  /\ Len(stack) \in Nat
           /\ Len(stack) > 0
           /\ Top \in Level
  BY TopIsElement DEF TypeOK, Top

LEMMA SetTopType ==
    ASSUME TypeOK, stack # <<>>, NEW l \in Level, SetTop(l)
    PROVE  stack' \in Seq(Level) /\ Len(stack') = Len(stack)
  BY ReplaceTop DEF TypeOK, SetTop

LEMMA ResumeType ==
    ASSUME TypeOK, Len(stack) > 1, NEW v \in Int, Resume(v)
    PROVE  /\ stack' \in Seq(Level)
           /\ Len(stack') = Len(stack) - 1
           /\ blocked' \in [Object -> BOOLEAN]
           /\ ret' \in Int
  BY DropTop DEF TypeOK, Resume

LEMMA UInt16Type ==
    ASSUME NEW n \in Int
    PROVE  UInt16(n) \in 0 .. Word - 1
  BY ProgramAssumption DEF UInt16

LEMMA NewLevelType == NewLevel \in Level
  BY DEF NewLevel, Level, Stages, Pointer

\* loop_pend() finds an object, or none, wherever the cursor is.
LEMMA PendEnvType ==
    ASSUME TypeOK, NEW o \in Object, Pend(o)
    PROVE  PendEnv \in Level
  <1>1. Top \in Level
    BY TopType DEF Pend, Running, At
  <1>2. CASE Top.f # None \/ Top.t # None
    BY <1>1, <1>2 DEF PendEnv
  <1>3. CASE ~(Top.f # None \/ Top.t # None)
    <2>1. idx - 1 \in 0 .. IdxMax
      BY <1>3, SlotFacts DEF Pend, Pended, TypeOK
    <2>2. Slotted \in Pointer
      BY <2>1, WordType DEF Slotted
    <2> QED
      BY <1>1, <1>3, <2>2 DEF PendEnv, Level
  <1> QED
    BY <1>2, <1>3

\* Type correctness, step by step: one case per action of Next.
LEMMA TypeInit == Init => TypeOK
  <1> SUFFICES ASSUME Init PROVE TypeOK
    OBVIOUS
  <1>1. mem \in [Slot -> Pointer]
    BY DEF Init, Pointer
  <1>2. idx \in 0 .. IdxMax
    BY SlotFacts DEF Init
  <1>3. /\ frames \in [Timer -> 0 .. Word - 1]
        /\ count \in [Timer -> 0 .. Word - 1]
    BY ProgramAssumption DEF Init
  <1>4. stack \in Seq(Level) /\ setup \in Seq(Object)
    BY ProgramAssumption DEF Init
  <1> QED
    BY <1>1, <1>2, <1>3, <1>4 DEF Init, TypeOK, Passes

LEMMA TypeStep == TypeOK /\ [Next]_vars => TypeOK'
  <1> SUFFICES ASSUME TypeOK, [Next]_vars PROVE TypeOK'
    OBVIOUS
  <1> USE DEF loopVars, flagVars, timerVars, envVars
  <1>1. CASE MainAdd
    <2>1. Head(setup) \in Object /\ Tail(setup) \in Seq(Object)
      BY <1>1 DEF MainAdd, TypeOK
    <2>2. mem' \in [Slot -> Pointer] /\ toDelete' \in [Object -> BOOLEAN]
      BY <1>1, <2>1, AddType DEF MainAdd
    <2> QED
      BY <1>1, <2>1, <2>2 DEF MainAdd, TypeOK
  <1>2. CASE Enter
    BY <1>2, NewLevelType DEF Enter, TypeOK
  <1>3. CASE Vblank
    BY <1>3 DEF Vblank, TypeOK
  <1>4. CASE LoopExit
    <2>1. CASE Len(stack) = 1
      BY <1>4, <2>1 DEF LoopExit, TypeOK
    <2>2. CASE Len(stack) # 1
      <3>1. Resume(0)
        BY <1>4, <2>2 DEF LoopExit
      <3>2. stack # <<>>
        BY <1>4 DEF LoopExit, At
      <3>3. Len(stack) > 1
        BY <2>2, <3>2, TopType
      <3> QED
        BY <1>4, <3>1, <3>3, ResumeType DEF LoopExit, TypeOK
    <2> QED
      BY <2>1, <2>2
  <1>5. ASSUME NEW pc \in Stages, At(pc)
        PROVE  \A q \in Stages : [Top EXCEPT !.pc = q] \in Level
    BY <1>5, TopType DEF At, Level
  <1>6. CASE LoopTimers \/ LoopFrame \/ LoopFuncs
    <2>1. stack' \in Seq(Level)
      <3>1. At("head")
        BY <1>6 DEF LoopTimers, LoopFrame, LoopFuncs
      <3>2. PICK q \in Stages : Goto(q)
        BY <1>6 DEF LoopTimers, LoopFrame, LoopFuncs, Stages
      <3> QED
        BY <3>1, <3>2, <1>5, SetTopType DEF Goto, At, Stages
    <2> QED
      BY <1>6, <2>1 DEF LoopTimers, LoopFrame, LoopFuncs, TypeOK, Passes
  <1>7. CASE FuncsDone \/ TimersDone
    <2>1. stack' \in Seq(Level)
      <3>1. PICK pc \in Stages : At(pc)
        BY <1>7 DEF FuncsDone, TimersDone, Stages
      <3>2. Goto("head")
        BY <1>7 DEF FuncsDone, TimersDone
      <3> QED
        BY <3>1, <3>2, <1>5, SetTopType DEF Goto, At, Stages
    <2>2. idx' \in 0 .. IdxMax
      BY <1>7, SlotFacts DEF FuncsDone, TimersDone
    <2>3. check' \in Passes
      BY <1>7 DEF FuncsDone, TimersDone, TypeOK, Passes
    <2>4. UNCHANGED <<mem, seen, exit, flagVars, timerVars, envVars, ret>>
      BY <1>7 DEF FuncsDone, TimersDone
    <2> QED
      BY <2>1, <2>2, <2>3, <2>4 DEF TypeOK
  <1>8. ASSUME NEW f \in Func, FuncDelete(f)
        PROVE  TypeOK'
    <2>1. Closed(idx) \in [Slot -> Pointer]
      BY ClosedType, SlotFacts DEF TypeOK
    <2> QED
      BY <1>8, <2>1 DEF FuncDelete, TypeOK
  <1>9. ASSUME NEW f \in Func, FuncSkip(f)
        PROVE  TypeOK'
    <2>1. idx' \in 0 .. IdxMax
      BY <1>9, SlotFacts DEF FuncSkip, TypeOK
    <2> QED
      BY <1>9, <2>1 DEF FuncSkip, TypeOK
  <1>10. ASSUME NEW f \in Func, FuncCall(f)
         PROVE  TypeOK'
    <2>1. [Top EXCEPT !.pc = "cb", !.cur = f] \in Level
      BY <1>10, TopType DEF FuncCall, At, Level, Stages, Pointer, Object
    <2>2. stack' \in Seq(Level)
      BY <1>10, <2>1, SetTopType DEF FuncCall, At
    <2> QED
      BY <1>10, <2>2, SlotFacts DEF FuncCall, TypeOK
  <1>11. ASSUME NEW t \in Timer, TimerDelete(t)
         PROVE  TypeOK'
    <2>1. Closed(FuncMax + idx) \in [Slot -> Pointer]
      BY ClosedType, SlotFacts DEF TypeOK
    <2> QED
      BY <1>11, <2>1 DEF TimerDelete, TypeOK
  <1>12. ASSUME NEW t \in Timer, TimerSkip(t)
         PROVE  TypeOK'
    BY <1>12, SlotFacts DEF TimerSkip, Visit, TypeOK
  <1>13. ASSUME NEW t \in Timer, TimerCount(t)
         PROVE  TypeOK'
    <2>1. count' \in [Timer -> 0 .. Word - 1]
      BY <1>13, UInt16Type DEF TimerCount, TypeOK
    <2> QED
      BY <1>13, <2>1, SlotFacts DEF TimerCount, Visit, TypeOK
  <1>14. ASSUME NEW t \in Timer, TimerFire(t)
         PROVE  TypeOK'
    <2>1. [Top EXCEPT !.pc = "cb", !.cur = t] \in Level
      BY <1>14, TopType DEF TimerFire, Visit, At, Level, Stages, Pointer, Object
    <2>2. stack' \in Seq(Level)
      BY <1>14, <2>1, SetTopType DEF TimerFire, Visit, At
    <2>3. /\ 0 \in 0 .. Word - 1
          /\ UInt16(count[t] + 1) \in 0 .. Word - 1
      <3>1. count[t] \in Nat
        BY ProgramAssumption DEF TypeOK
      <3>2. count[t] + 1 \in Int
        BY <3>1
      <3>3. 0 \in 0 .. Word - 1
        BY ProgramAssumption
      <3> QED
        BY <3>2, <3>3, UInt16Type
    <2>4. /\ count' \in [Timer -> 0 .. Word - 1]
          /\ frames' \in [Timer -> 0 .. Word - 1]
      <3>1. CASE reload[t]
        BY <1>14, <2>3, <3>1 DEF TimerFire, TypeOK
      <3>2. CASE ~reload[t]
        BY <1>14, <2>3, <3>2 DEF TimerFire, TypeOK
      <3> QED
        BY <3>1, <3>2
    <2>5. idx' \in 0 .. IdxMax
      BY <1>14, SlotFacts DEF TimerFire, Visit, TypeOK
    <2> QED
      BY <1>14, <2>2, <2>4, <2>5 DEF TimerFire, Visit, TypeOK
  <1>15. ASSUME NEW o \in Object, CbReturn(o)
         PROVE  TypeOK'
    <2>1. stack # <<>> /\ Top \in Level
      BY <1>15, TopType DEF CbReturn, Running, At
    <2>2. [Top EXCEPT !.pc = IF o \in Func THEN "funcs" ELSE "timers",
                      !.cur = None,
                      !.f = IF o \in Func THEN None ELSE @,
                      !.t = IF o \in Timer THEN None ELSE @] \in Level
      BY <2>1 DEF Level, Stages, Pointer
    <2>3. stack' \in Seq(Level)
      BY <1>15, <2>1, <2>2, SetTopType DEF CbReturn
    <2> QED
      BY <1>15, <2>3 DEF CbReturn, TypeOK
  <1>16. ASSUME NEW o \in Object, Api(o)
         PROVE  TypeOK'
    <2>1. CASE Pend(o)
      <3>1. stack # <<>> /\ Top \in Level /\ Len(stack) \in Nat \ {0}
        BY <2>1, TopType DEF Pend, Running, At
      <3>2. PendEnv \in Level
        BY <2>1, PendEnvType
      <3>3. Append([stack EXCEPT ![Len(stack)] = PendEnv], NewLevel) \in Seq(Level)
        BY <3>1, <3>2, ReplaceTop, NewLevelType DEF TypeOK
      <3> QED
        <4>1. stack' \in Seq(Level)
          BY <2>1, <3>3 DEF Pend, TypeOK
        <4>2. blocked' \in [Object -> BOOLEAN]
          <5> DEFINE p == Pended(PendEnv)
          <5> HIDE DEF p
          <5>1. blocked' = [blocked EXCEPT ![p] = TRUE] \/ blocked' = blocked
            BY <2>1 DEF Pend, p
          <5> QED
            BY <5>1 DEF TypeOK
        <4>3. ret' \in Int
          BY <2>1 DEF Pend, TypeOK
        <4> QED
          BY <2>1, <4>1, <4>2, <4>3 DEF Pend, TypeOK
    <2>2. ASSUME NEW v \in PostArgs, Post(o, v)
          PROVE  TypeOK'
      <3>1. JmpValue(v) \in Int
        BY ProgramAssumption DEF JmpValue
      <3> QED
        BY <2>2, <3>1, ResumeType DEF Post, TypeOK
    <2>3. ASSUME NEW v \in ExitArgs, LoopEnd(o, v)
          PROVE  TypeOK'
      BY <2>3, ProgramAssumption DEF LoopEnd, TypeOK
    <2>4. ASSUME NEW t \in Timer, NEW n \in FrameArgs, TimerStart(o, t, n)
          PROVE  TypeOK'
      <3>1. UInt16(n) \in 0 .. Word - 1 /\ 0 \in 0 .. Word - 1
        BY ProgramAssumption, UInt16Type
      <3> QED
        BY <2>4, <3>1 DEF TimerStart, TypeOK
    <2>5. ASSUME NEW t \in Timer, TimerStop(o, t)
          PROVE  TypeOK'
      BY <2>5, ProgramAssumption DEF TimerStop, TypeOK
    <2>6. ASSUME NEW t \in Timer, NEW b \in BOOLEAN, SetReload(o, t, b)
          PROVE  TypeOK'
      BY <2>6 DEF SetReload, TypeOK
    <2>7. ASSUME NEW f \in Func, NEW b \in BOOLEAN, FuncSwitch(o, f, b)
          PROVE  TypeOK'
      BY <2>7 DEF FuncSwitch, TypeOK
    <2>8. ASSUME NEW x \in Object, CbAdd(o, x)
          PROVE  TypeOK'
      BY <2>8, AddType DEF CbAdd, TypeOK
    <2>9. ASSUME NEW x \in Object, CbDel(o, x)
          PROVE  TypeOK'
      BY <2>9 DEF CbDel, TypeOK
    <2> QED
      BY <1>16, <2>1, <2>2, <2>3, <2>4, <2>5, <2>6, <2>7, <2>8, <2>9 DEF Api
  <1>17. CASE UNCHANGED vars
    BY <1>17 DEF vars, TypeOK
  <1> QED
    BY <1>1, <1>2, <1>3, <1>4, <1>6, <1>7, <1>8, <1>9, <1>10, <1>11, <1>12,
       <1>13, <1>14, <1>15, <1>16, <1>17 DEF Next, LoopStep

\* Whatever the callbacks do, the scheduler's data keep their types: the
\* cursor stays inside the larger table, the fields of a timer fit 16 bits,
\* and every word that loop_pend() takes for an object is one or null.
THEOREM TypeCorrect == Spec => []TypeOK
  BY TypeInit, TypeStep, PTL DEF Spec

-----------------------------------------------------------------------------
(* Leaving the loop.                                                       *)

\* A blocked object is one that the pend_env of a suspended activation names,
\* which unblocks it when that activation goes on.
BlockedNamed ==
    \A o \in Object : blocked[o] =>
        \E i \in 1 .. Len(stack) - 1 : Pended(stack[i]) = o

\* An activation below the top is not touched by what the top does.
LEMMA SetTopBelow ==
    ASSUME TypeOK, stack # <<>>, NEW l, SetTop(l)
    PROVE  /\ Len(stack') = Len(stack)
           /\ \A i \in 1 .. Len(stack) - 1 : stack'[i] = stack[i]
  <1>1. stack \in Seq(Level \cup {l})
    BY DEF TypeOK
  <1> QED
    BY <1>1, ReplaceTop DEF SetTop

LEMMA BlockedKept ==
    ASSUME BlockedNamed, UNCHANGED blocked, Len(stack') = Len(stack),
           \A i \in 1 .. Len(stack) - 1 : stack'[i] = stack[i]
    PROVE  BlockedNamed'
  BY DEF BlockedNamed, Pended

LEMMA BlockedResume ==
    ASSUME TypeOK, BlockedNamed, Len(stack) > 1, NEW v \in Int, Resume(v)
    PROVE  BlockedNamed'
  <1> DEFINE n == Len(stack) - 1
  <1>1. /\ n \in Nat /\ n > 0
        /\ Len(stack') = n
        /\ \A i \in 1 .. n : stack'[i] = stack[i]
    BY DropTop DEF Resume, TypeOK
  <1>2. blocked' = [blocked EXCEPT ![Pended(stack[n])] = FALSE]
    BY DEF Resume
  <1> HIDE DEF n
  <1>3. ASSUME NEW o \in Object, blocked'[o]
        PROVE  \E i \in 1 .. Len(stack') - 1 : Pended(stack'[i]) = o
    <2>1. blocked[o] /\ Pended(stack[n]) # o
      BY <1>2, <1>3 DEF TypeOK
    <2>2. PICK i \in 1 .. n : Pended(stack[i]) = o
      BY <2>1 DEF BlockedNamed, n
    <2>3. i \in 1 .. n - 1
      BY <1>1, <2>1, <2>2
    <2> QED
      BY <1>1, <2>2, <2>3 DEF Pended
  <1> QED
    BY <1>3 DEF BlockedNamed

LEMMA BlockedPend ==
    ASSUME TypeOK, BlockedNamed, NEW o \in Object, Pend(o)
    PROVE  BlockedNamed'
  <1>1. CASE UNCHANGED <<stack, blocked>>
    BY <1>1 DEF BlockedNamed, Pended
  <1>2. CASE /\ stack' = Append([stack EXCEPT ![Len(stack)] = PendEnv], NewLevel)
             /\ blocked' = [blocked EXCEPT ![Pended(PendEnv)] = TRUE]
    <2> DEFINE n == Len(stack)
               s == [stack EXCEPT ![n] = PendEnv]
    <2>1. n \in Nat /\ n > 0 /\ stack \in Seq(Level)
      BY TopType DEF Pend, Running, At, TypeOK
    <2>2. /\ DOMAIN s = 1 .. n /\ Len(s) = n
          /\ s[n] = PendEnv
          /\ \A i \in 1 .. n - 1 : s[i] = stack[i]
      BY <2>1
    <2>3. s \in Seq(Level) /\ stack' = Append(s, NewLevel)
      BY <1>2, <2>1, PendEnvType, ReplaceTop
    <2> HIDE DEF s, n
    <2>4. /\ Len(stack') = n + 1
          /\ stack'[n] = PendEnv
          /\ \A i \in 1 .. n - 1 : stack'[i] = stack[i]
      BY <2>1, <2>2, <2>3, NewLevelType
    <2>5. ASSUME NEW x \in Object, blocked'[x]
          PROVE  \E i \in 1 .. Len(stack') - 1 : Pended(stack'[i]) = x
      <3>1. CASE x = Pended(PendEnv)
        BY <2>1, <2>4, <3>1 DEF Pended
      <3>2. CASE x # Pended(PendEnv)
        <4>1. blocked[x]
          BY <1>2, <2>5, <3>2 DEF TypeOK
        <4>2. PICK i \in 1 .. n - 1 : Pended(stack[i]) = x
          BY <4>1 DEF BlockedNamed, n
        <4> QED
          BY <2>1, <2>4, <4>2 DEF Pended
      <3> QED
        BY <3>1, <3>2
    <2> QED
      BY <2>5 DEF BlockedNamed
  <1> QED
    BY <1>1, <1>2 DEF Pend

LEMMA BlockedStep ==
    TypeOK /\ BlockedNamed /\ [Next]_vars => BlockedNamed'
  <1> SUFFICES ASSUME TypeOK, BlockedNamed, [Next]_vars
               PROVE  BlockedNamed'
    OBVIOUS
  <1> USE DEF loopVars, flagVars, timerVars, envVars
  <1>1. CASE UNCHANGED <<stack, blocked>>
    BY <1>1, BlockedKept
  <1>2. CASE stack = <<>> /\ UNCHANGED blocked
    BY <1>2 DEF BlockedNamed
  <1>3. CASE LoopExit
    <2>1. CASE Len(stack) = 1
      BY <1>3, <2>1 DEF LoopExit, BlockedNamed
    <2>2. CASE Len(stack) # 1
      <3>1. Resume(0)
        BY <1>3, <2>2 DEF LoopExit
      <3>2. stack # <<>>
        BY <1>3 DEF LoopExit, At
      <3>3. Len(stack) \in Nat /\ Len(stack) > 0
        BY <3>2, TopType
      <3>4. \A n \in Nat : n > 0 /\ n # 1 => n > 1
        OBVIOUS
      <3>5. Len(stack) > 1
        BY <2>2, <3>3, <3>4, Zenon
      <3> QED
        BY <3>1, <3>5, BlockedResume
    <2> QED
      BY <2>1, <2>2
  <1>4. ASSUME NEW o \in Object, Pend(o)
        PROVE  BlockedNamed'
    BY <1>4, BlockedPend
  <1>5. ASSUME NEW o \in Object, NEW v \in PostArgs, Post(o, v)
        PROVE  BlockedNamed'
    <2>1. JmpValue(v) \in Int
      BY ProgramAssumption DEF JmpValue
    <2> QED
      BY <1>5, <2>1, BlockedResume DEF Post
  <1>6. ASSUME NEW l, stack # <<>>, SetTop(l), UNCHANGED blocked
        PROVE  BlockedNamed'
    BY <1>6, SetTopBelow, BlockedKept
  <1> QED
    BY <1>1, <1>2, <1>3, <1>4, <1>5, <1>6
    DEF Next, LoopStep, Api, MainAdd, Enter, Vblank, LoopTimers, LoopFrame,
        LoopFuncs, FuncsDone, TimersDone, FuncDelete, FuncSkip, FuncCall,
        TimerDelete, TimerSkip, TimerCount, TimerFire, Visit, CbReturn, LoopEnd,
        TimerStart, TimerStop, SetReload, FuncSwitch, CbAdd, CbDel, At, Running,
        Goto, vars

\* When loop() has returned to main(), no object is left blocked, whatever waits
\* loop_end() found under way (loop.c:225-229, 280-288).
THEOREM ExitWakes == Spec => []ExitUnblocks
  <1> DEFINE Inv == TypeOK /\ BlockedNamed
  <1>1. Init => Inv
    BY TypeInit DEF Init, BlockedNamed
  <1>2. Inv /\ [Next]_vars => Inv'
    BY TypeStep, BlockedStep
  <1>3. Inv => ExitUnblocks
    BY DEF BlockedNamed, ExitUnblocks
  <1> QED
    BY <1>1, <1>2, <1>3, PTL DEF Spec

-----------------------------------------------------------------------------
(* The two tables adjoin in memory, and a deletion moves words up to the   *)
(* first null pointer, wherever that is.  A full table of functions would  *)
(* draw the timers in: the theorems below say what a program has to        *)
(* respect for the tables to stay apart.                                   *)

\* There are fewer functions than slots for them: the table of functions is
\* never full, so it ends in a null pointer.
SpareSlot == IsFiniteSet(Func) /\ Cardinality(Func) < FuncMax

\* A program deletes no function once the loop runs, or must leave a
\* slot of their table unused; main() adds no object twice: loop_func_add() and
\* loop_timer_add() would put it into the table again (loop.c:70-87, 104-121).
TidyProgram ==
    /\ \A i, j \in 1 .. Len(Setup) : Setup[i] = Setup[j] => i = j
    /\ SpareSlot \/ Dels \subseteq Object \X Timer

\* Object o is in one of the tables.
InTables(o) == \E k \in Slot : mem[k] = o

\* What main() still has to add is not in the tables, and is added once.
SetupFresh ==
    /\ setup # <<>> => stack = <<>>
    /\ \A i \in 1 .. Len(setup) : ~InTables(setup[i])
    /\ \A i, j \in 1 .. Len(setup) : setup[i] = setup[j] => i = j

\* A function is deleted only where the table of functions is not full.
DeletionStops == SpareSlot \/ \A f \in Func : ~toDelete[f]

MarksInTables == \A o \in Object : toDelete[o] => InTables(o)

TableInv == TablesIntact /\ MarksInTables /\ SetupFresh /\ DeletionStops

-----------------------------------------------------------------------------
(* The scans of the tables.                                                *)

LEMMA HomeFacts ==
    ASSUME NEW o \in Object
    PROVE  /\ Home(o) = IF o \in Func THEN 0 .. FuncMax - 1
                        ELSE FuncMax .. FuncMax + TimerMax - 1
           /\ Home(o) \subseteq Slot
           /\ Base(o) \in Home(o) /\ Base(o) \in Nat
           /\ o # None
  BY ObjectAssumption, TableAssumption, SlotFacts
  DEF Home, Base, Size, Slot, Last

\* While the tables are intact an object is in its own one.
LEMMA AtHome ==
    ASSUME TablesIntact, NEW o \in Object, NEW k \in Slot, mem[k] = o
    PROVE  k \in Home(o)
  BY HomeFacts, ObjectAssumption, SlotFacts DEF TablesIntact, Object, Slot, Last

\* A scan finds what is in the tables.
LEMMA ScanFinds ==
    ASSUME TablesIntact, NEW o \in Object
    PROVE  Registered(o) <=> InTables(o)
  <1>1. Registered(o) => InTables(o)
    BY HomeFacts DEF Registered, Scan, InTables
  <1>2. ASSUME NEW k \in Slot, mem[k] = o
        PROVE  Registered(o)
    <2>1. k \in Home(o) /\ o # None
      BY <1>2, AtHome, HomeFacts
    <2>2. \A j \in Base(o) .. k : mem[j] # None
      <3> SUFFICES ASSUME NEW j \in Base(o) .. k PROVE mem[j] # None
        OBVIOUS
      <3>1. j \in Slot /\ j <= k /\ (k < FuncMax \/ j >= FuncMax)
        BY <2>1, HomeFacts, SlotFacts DEF Home, Base, Size, Slot, Last
      <3> QED
        BY <1>2, <2>1, <3>1 DEF TablesIntact, Slot
    <2>3. k \in Scan(o)
      BY <2>1, <2>2, HomeFacts DEF Scan, InRun, Home
    <2> QED
      BY <1>2, <2>3 DEF Registered
  <1> QED
    BY <1>1, <1>2 DEF InTables

\* A set of numbers that has no gap above b is an interval.
LEMMA Prefix ==
    ASSUME NEW b \in Nat, NEW n \in Nat, NEW S \in SUBSET (b .. b + n - 1),
           \A k \in S : b .. k \subseteq S,
           NEW c, c = Cardinality(S)
    PROVE  /\ c \in Nat
           /\ \A k \in b .. b + n - 1 : k \in S <=> k < b + c
  <1>1. IsFiniteSet(S) /\ c \in Nat
    <2>1. b + n - 1 \in Int
      OBVIOUS
    <2>2. IsFiniteSet(b .. b + n - 1)
      BY <2>1, FS_Interval
    <2> QED
      BY <2>2, FS_Subset, FS_CardinalityType
  <1>2. ASSUME NEW k \in S
        PROVE  k < b + c
    <2>1. k \in Int /\ b <= k
      OBVIOUS
    <2>2. Cardinality(b .. k) = k - b + 1
      BY <2>1, FS_Interval
    <2>3. Cardinality(b .. k) <= Cardinality(S)
      <3>1. (b .. k) \in SUBSET S
        BY <1>2
      <3> QED
        BY <1>1, <3>1, FS_Subset
    <2> QED
      BY <1>1, <2>1, <2>2, <2>3
  <1>3. b .. b + c - 1 = S
    <2> DEFINE e == b + c - 1
    <2>1. e \in Int
      BY <1>1
    <2>2. IsFiniteSet(b .. e) /\ Cardinality(b .. e) = IF b > e THEN 0 ELSE e - b + 1
      <3> HIDE DEF e
      <3> QED
        BY <2>1, FS_Interval
    <2>3. Cardinality(b .. e) = c
      BY <1>1, <2>2
    <2>4. S \in SUBSET (b .. e)
      BY <1>1, <1>2
    <2> QED
      BY <2>2, <2>3, <2>4, FS_Subset
  <1> QED
    BY <1>1, <1>3

\* A scan visits the first slots of a table, as many as it counts.
LEMMA ScanPrefix ==
    ASSUME NEW o \in Object
    PROVE  /\ Cardinality(Scan(o)) \in Nat
           /\ \A k \in Home(o) :
                 k \in Scan(o) <=> k < Base(o) + Cardinality(Scan(o))
  <1>1. /\ Base(o) \in Nat /\ Size(o) \in Nat
        /\ Home(o) = Base(o) .. Base(o) + Size(o) - 1
    BY HomeFacts, SlotFacts DEF Home, Size
  <1>2. Scan(o) \in SUBSET (Base(o) .. Base(o) + Size(o) - 1)
    BY DEF Scan, Home
  <1>3. \A k \in Scan(o) : Base(o) .. k \subseteq Scan(o)
    BY <1>1 DEF Scan, InRun
  <1> QED
    BY <1>1, <1>2, <1>3, Prefix

-----------------------------------------------------------------------------
(* Adding and deleting.                                                    *)

\* A new object is written behind the objects of its table, or refused.
LEMMA AddIntact ==
    ASSUME TypeOK, TablesIntact, NEW o \in Object, ~InTables(o), Add(o)
    PROVE  /\ TablesIntact'
           /\ UNCHANGED toDelete
           /\ \A x \in Object : InTables(x) => InTables(x)'
           /\ \A x \in Object : InTables(x)' => InTables(x) \/ x = o
  <1> DEFINE free == Base(o) + Cardinality(Scan(o))
  <1>1. UNCHANGED toDelete /\ mem' = IF free \in Home(o)
                                     THEN [mem EXCEPT ![free] = o] ELSE mem
    BY ScanFinds DEF Add
  <1>2. /\ free \in Nat /\ Base(o) \in Nat /\ Base(o) <= free
        /\ \A k \in Home(o) : k \in Scan(o) <=> k < free
    BY ScanPrefix, HomeFacts
  <1> HIDE DEF free
  <1>3. CASE free \notin Home(o)
    BY <1>1, <1>3 DEF TablesIntact, InTables
  <1>4. CASE free \in Home(o)
    <2>1. mem \in [Slot -> Pointer] /\ free \in Slot /\ o # None
      BY <1>4, HomeFacts DEF TypeOK
    <2>2. ASSUME NEW j \in Base(o) .. free - 1
          PROVE  mem[j] # None
      <3>1. j \in Home(o) /\ j < free /\ Base(o) <= j
        <4>1. Size(o) \in Nat /\ free \in Base(o) .. Base(o) + Size(o) - 1
          BY <1>4, SlotFacts DEF Size, Home
        <4> QED
          BY <1>2, <2>2, <4>1 DEF Home
      <3>2. j \in Scan(o)
        BY <1>2, <3>1
      <3>3. j = Base(o) \/ j \in Base(o) + 1 .. j
        BY <1>2, <3>1
      <3> QED
        BY <3>2, <3>3 DEF Scan, InRun
    <2>3. mem[free] = None
      <3> SUFFICES ASSUME mem[free] # None PROVE FALSE
        OBVIOUS
      <3>1. mem[Base(o)] # None
        <4>1. CASE free = Base(o)
          BY <4>1
        <4>2. CASE free # Base(o)
          <5>1. Base(o) \in Base(o) .. free - 1
            BY <1>2, <4>2
          <5> QED
            BY <2>2, <5>1
        <4> QED
          BY <4>1, <4>2
      <3>2. InRun(Base(o), free)
        BY <1>2, <2>2 DEF InRun
      <3> QED
        BY <1>2, <1>4, <3>1, <3>2 DEF Scan
    <2>4. /\ mem'[free] = o
          /\ \A k \in Slot : k # free => mem'[k] = mem[k]
      BY <1>1, <1>4, <2>1
    <2>5. \A k \in Slot : mem[k] # o
      BY DEF InTables
    <2>6. ASSUME NEW k \in Slot
          PROVE  mem'[k] \in {None} \cup (IF k < FuncMax THEN Func
                                       ELSE IF k < FuncMax + TimerMax THEN Timer
                                       ELSE {})
      <3>1. CASE k # free
        BY <2>4, <3>1 DEF TablesIntact
      <3>2. CASE k = free
        BY <1>4, <2>4, <3>2, HomeFacts, SlotFacts DEF Object
      <3> QED
        BY <3>1, <3>2
    <2>7. ASSUME NEW j \in Slot, NEW k \in Slot, j # k, mem'[j] = mem'[k]
          PROVE  mem'[j] = None
      BY <2>4, <2>5, <2>7 DEF TablesIntact
    <2>8. ASSUME NEW j \in Slot, NEW k \in Slot, j < k, mem'[k] # None,
                 k < FuncMax \/ j >= FuncMax
          PROVE  mem'[j] # None
      <3>1. CASE k # free
        <4>1. mem[j] # None
          BY <2>4, <2>8, <3>1 DEF TablesIntact
        <4> QED
          BY <2>1, <2>4, <4>1
      <3>2. CASE k = free
        <4>1. j \in Base(o) .. free - 1 /\ j # free
          BY <1>2, <1>4, <2>8, <3>2, HomeFacts, SlotFacts DEF Base, Slot, Last
        <4> QED
          BY <2>2, <2>4, <4>1
      <3> QED
        BY <3>1, <3>2
    <2>9. TablesIntact'
      BY <2>6, <2>7, <2>8 DEF TablesIntact
    <2>10. \A x \in Object : InTables(x) => InTables(x)'
      <3> SUFFICES ASSUME NEW x \in Object, NEW k \in Slot, mem[k] = x
                   PROVE  \E i \in Slot : mem'[i] = x
        BY DEF InTables
      <3>1. k # free
        BY <2>3, HomeFacts
      <3> QED
        BY <2>4, <3>1
    <2>11. \A x \in Object : InTables(x)' => InTables(x) \/ x = o
      BY <2>4 DEF InTables
    <2> QED
      BY <1>1, <2>9, <2>10, <2>11
  <1> QED
    BY <1>3, <1>4

\* A slot e behind slot i, in the same table, that is empty.
Stop(i, e) ==
    /\ i \in Slot /\ e \in Slot /\ i < e /\ mem[e] = None
    /\ e < FuncMax \/ i >= FuncMax

\* Where the word comes from that slot k holds when the gap is closed.
From(i, k) == IF InRun(i, k) THEN k + 1 ELSE k

LEMMA ClosedFrom ==
    ASSUME TypeOK, NEW i, NEW e, Stop(i, e), NEW k \in Slot
    PROVE  /\ From(i, k) \in Slot
           /\ Closed(i)[k] = mem[From(i, k)]
           /\ InRun(i, k) => k < e
  <1>1. i \in Nat /\ e \in Nat /\ k \in Nat /\ e <= Last /\ k <= Last /\ Last \in Nat
    BY SlotFacts DEF Stop, Slot, Last
  <1>2. InRun(i, k) => k < e
    <2> SUFFICES ASSUME InRun(i, k), ~(k < e) PROVE FALSE
      OBVIOUS
    <2>1. e \in i + 1 .. k
      BY <1>1 DEF Stop
    <2> QED
      BY <2>1 DEF InRun, Stop
  <1> QED
    BY <1>1, <1>2 DEF From, Closed, Slot

\* Deleting the object of slot i keeps the tables as they should be and takes
\* nothing else out of them.
LEMMA CloseIntact ==
    ASSUME TypeOK, TablesIntact, NEW i, NEW e, Stop(i, e), mem' = Closed(i)
    PROVE  /\ TablesIntact'
           /\ \A x \in Object : InTables(x)' => InTables(x)
           /\ \A x \in Object : InTables(x) /\ x # mem[i] => InTables(x)'
  <1>1. /\ Slot \subseteq Nat /\ i \in Nat /\ e \in Nat
        /\ FuncMax \in Nat /\ TimerMax \in Nat
        /\ i \in Slot /\ e \in Slot /\ i < e
        /\ e < FuncMax \/ i >= FuncMax
    BY SlotFacts DEF Stop, Slot, Last
  <1>2. \A k \in Slot : /\ From(i, k) \in Slot
                        /\ mem'[k] = mem[From(i, k)]
                        /\ InRun(i, k) => i <= k /\ k < e
    BY ClosedFrom DEF InRun
  <1>3. ASSUME NEW k \in Slot
        PROVE  mem'[k] \in {None} \cup (IF k < FuncMax THEN Func
                                     ELSE IF k < FuncMax + TimerMax THEN Timer
                                     ELSE {})
    <2>1. CASE ~InRun(i, k)
      BY <1>2, <2>1 DEF From, TablesIntact
    <2>2. CASE InRun(i, k)
      <3>1. i <= k /\ k < e /\ k + 1 \in Slot /\ mem'[k] = mem[k + 1] /\ k \in Nat
        BY <1>1, <1>2, <2>2 DEF From
      <3>2. mem[k + 1] \in {None} \cup (IF k + 1 < FuncMax THEN Func
                              ELSE IF k + 1 < FuncMax + TimerMax THEN Timer
                              ELSE {})
        BY <3>1 DEF TablesIntact
      <3>3. k + 1 < FuncMax \/ k >= FuncMax
        BY <1>1, <3>1
      <3> QED
        BY <1>1, <3>1, <3>2, <3>3
    <2> QED
      BY <2>1, <2>2
  <1>4. ASSUME NEW j \in Slot, NEW k \in Slot, j < k, From(i, j) = From(i, k)
        PROVE  mem'[j] = None
    <2>1. InRun(i, j) /\ ~InRun(i, k) /\ k = j + 1
      BY <1>1, <1>4 DEF From
    <2>2. mem[k] = None
      BY <1>1, <2>1 DEF InRun
    <2> QED
      BY <1>2, <2>1, <2>2 DEF From
  <1>5. ASSUME NEW j \in Slot, NEW k \in Slot, j # k, mem'[j] = mem'[k]
        PROVE  mem'[j] = None
    <2>1. CASE From(i, j) = From(i, k)
      BY <1>1, <1>4, <1>5, <2>1
    <2>2. CASE From(i, j) # From(i, k)
      BY <1>2, <1>5, <2>2 DEF TablesIntact
    <2> QED
      BY <2>1, <2>2
  <1>6. ASSUME NEW j \in Slot, NEW k \in Slot, j < k, mem'[k] # None,
               k < FuncMax \/ j >= FuncMax
        PROVE  mem'[j] # None
    <2>1. From(i, j) <= From(i, k) /\ From(i, j) \in Nat /\ From(i, k) \in Nat
      BY <1>1, <1>6 DEF From
    <2>2. CASE From(i, j) = From(i, k)
      BY <1>2, <1>6, <2>2
    <2>3. CASE From(i, j) < From(i, k)
      <3>1. From(i, k) < FuncMax \/ From(i, j) >= FuncMax
        BY <1>1, <1>2, <1>6 DEF From
      <3> QED
        BY <1>2, <1>6, <2>3, <3>1 DEF TablesIntact
    <2> QED
      BY <2>1, <2>2, <2>3
  <1>7. ASSUME NEW x \in Object, NEW k \in Slot, mem[k] = x, x # mem[i]
        PROVE  \E j \in Slot : mem'[j] = x
    <2>1. CASE ~InRun(i, k)
      BY <1>2, <1>7, <2>1 DEF From
    <2>2. CASE InRun(i, k)
      <3>1. k - 1 \in Slot /\ InRun(i, k - 1)
        <4>1. k > i /\ k \in Nat
          BY <1>1, <1>7, <2>2 DEF InRun
        <4>2. k - 1 \in Slot
          BY <1>1, <4>1, SlotFacts DEF Slot, Last
        <4> QED
          BY <1>1, <2>2, <4>1, <4>2 DEF InRun
      <3>2. From(i, k - 1) = k
        BY <1>1, <3>1 DEF From
      <3> QED
        BY <1>2, <1>7, <3>1, <3>2
    <2> QED
      BY <2>1, <2>2
  <1>8. TablesIntact'
    BY <1>3, <1>5, <1>6 DEF TablesIntact
  <1>9. \A x \in Object : InTables(x)' => InTables(x)
    BY <1>2 DEF InTables
  <1>10. \A x \in Object : InTables(x) /\ x # mem[i] => InTables(x)'
    BY <1>7 DEF InTables
  <1> QED
    BY <1>8, <1>9, <1>10

-----------------------------------------------------------------------------
(* The invariant.                                                          *)

\* A table of functions with more slots than there are functions has its last
\* slot unused.
LEMMA LastSlotFree ==
    ASSUME TablesIntact, SpareSlot
    PROVE  mem[FuncMax - 1] = None
  <1> SUFFICES ASSUME mem[FuncMax - 1] # None PROVE FALSE
    OBVIOUS
  <1>1. FuncMax \in Nat /\ FuncMax > 0 /\ 0 .. FuncMax - 1 \subseteq Slot
    BY TableAssumption, SlotFacts DEF Slot, Last
  <1>2. \A k \in 0 .. FuncMax - 1 : mem[k] # None
    BY <1>1 DEF TablesIntact
  <1>3. \A k \in 0 .. FuncMax - 1 : mem[k] \in Func
    BY <1>1, <1>2 DEF TablesIntact
  <1> DEFINE f == [k \in 0 .. FuncMax - 1 |-> mem[k]]
  <1>4. f \in [0 .. FuncMax - 1 -> Func]
    BY <1>3
  <1>5. /\ IsFiniteSet(0 .. FuncMax - 1)
        /\ Cardinality(0 .. FuncMax - 1) = FuncMax
    BY <1>1, FS_Interval
  <1>6. PICK x \in 0 .. FuncMax - 1, y \in 0 .. FuncMax - 1 :
               x # y /\ f[x] = f[y]
    <2> HIDE DEF f
    <2> QED
      BY <1>4, <1>5, FS_PigeonHole DEF SpareSlot
  <1> QED
    BY <1>1, <1>2, <1>6 DEF TablesIntact

LEMMA TableInit ==
    ASSUME TidyProgram, Init
    PROVE  TableInv
  <1>1. \A o \in Object : ~InTables(o)
    BY ObjectAssumption DEF Init, InTables
  <1>2. SetupFresh
    <2>1. \A i \in 1 .. Len(setup) : setup[i] \in Object
      BY ProgramAssumption DEF Init
    <2> QED
      BY <1>1, <2>1 DEF Init, SetupFresh, TidyProgram
  <1> QED
    BY <1>2 DEF Init, TableInv, TablesIntact, MarksInTables, DeletionStops, Object

\* Adding an object that is in no table.
LEMMA TableAdd ==
    ASSUME TypeOK, TableInv, NEW o \in Object, ~InTables(o), Add(o)
    PROVE  /\ TablesIntact' /\ MarksInTables' /\ DeletionStops'
           /\ \A x \in Object : InTables(x)' => InTables(x) \/ x = o
  <1>1. /\ TablesIntact'
        /\ UNCHANGED toDelete
        /\ \A x \in Object : InTables(x) => InTables(x)'
        /\ \A x \in Object : InTables(x)' => InTables(x) \/ x = o
    BY AddIntact DEF TableInv
  <1>2. MarksInTables'
    BY <1>1 DEF TableInv, MarksInTables
  <1>3. DeletionStops'
    BY <1>1 DEF TableInv, DeletionStops
  <1> QED
    BY <1>1, <1>2, <1>3

\* The pass reaches a marked object and closes its slot.
LEMMA TableClose ==
    ASSUME TypeOK, TableInv, NEW o \in Object, NEW i, NEW e, Stop(i, e),
           mem[i] = o, mem' = Closed(i), toDelete' = [toDelete EXCEPT ![o] = FALSE]
    PROVE  /\ TablesIntact' /\ MarksInTables' /\ DeletionStops'
           /\ \A x \in Object : InTables(x)' => InTables(x)
  <1>1. /\ TablesIntact'
        /\ \A x \in Object : InTables(x)' => InTables(x)
        /\ \A x \in Object : InTables(x) /\ x # o => InTables(x)'
    BY CloseIntact DEF TableInv
  <1>2. \A x \in Object : toDelete'[x] => toDelete[x] /\ x # o
    BY DEF TypeOK
  <1>3. MarksInTables'
    BY <1>1, <1>2 DEF TableInv, MarksInTables
  <1>4. DeletionStops'
    BY <1>2 DEF TableInv, DeletionStops, Object
  <1> QED
    BY <1>1, <1>3, <1>4

\* Behind a function that is deleted there is an unused slot, and behind every
\* timer.
LEMMA FuncStop ==
    ASSUME TypeOK, TableInv, NEW f \in Func, FuncDelete(f)
    PROVE  Stop(idx, FuncMax - 1)
  <1>1. idx \in Nat /\ idx < FuncMax /\ mem[idx] = f /\ toDelete[f]
    BY SlotFacts DEF FuncDelete, F, TypeOK
  <1>2. mem[FuncMax - 1] = None
    BY <1>1, LastSlotFree DEF TableInv, DeletionStops
  <1>3. f # None
    BY ObjectAssumption DEF Object
  <1>4. idx # FuncMax - 1
    BY <1>1, <1>2, <1>3
  <1> QED
    BY <1>1, <1>2, <1>4, SlotFacts DEF Stop, Slot, Last

LEMMA TimerStops ==
    ASSUME TypeOK, TablesIntact, NEW i \in Nat, i < TimerMax
    PROVE  Stop(FuncMax + i, Last)
  <1>1. Last \in Slot /\ FuncMax + i \in Slot /\ FuncMax + i < Last
        /\ ~(Last < FuncMax) /\ ~(Last < FuncMax + TimerMax)
    BY SlotFacts, TableAssumption DEF Slot, Last
  <1>2. mem[Last] = None
    BY <1>1 DEF TablesIntact
  <1> QED
    BY <1>1, <1>2, SlotFacts DEF Stop

\* The first object of the setup goes, the others stay fresh.
LEMMA FreshTail ==
    ASSUME TypeOK, SetupFresh, setup # <<>>, setup' = Tail(setup), stack' = <<>>,
           \A x \in Object : InTables(x)' => InTables(x) \/ x = Head(setup)
    PROVE  SetupFresh'
  <1>1. /\ Len(setup) \in Nat \ {0} /\ Head(setup) = setup[1]
        /\ Len(setup') = Len(setup) - 1
        /\ \A i \in 1 .. Len(setup') : /\ setup'[i] = setup[i + 1]
                                       /\ setup[i + 1] \in Object
    BY DEF TypeOK
  <1>2. ASSUME NEW i \in 1 .. Len(setup')
        PROVE  ~InTables(setup[i])'
    <2>1. i + 1 \in 1 .. Len(setup) /\ 1 \in 1 .. Len(setup) /\ i + 1 # 1
      BY <1>1
    <2>2. ~InTables(setup[i + 1]) /\ setup[i + 1] # setup[1]
      BY <2>1 DEF SetupFresh
    <2> QED
      BY <1>1, <2>2 DEF InTables
  <1> QED
    BY <1>1, <1>2 DEF SetupFresh

LEMMA TableStep ==
    ASSUME TidyProgram, TypeOK, TableInv, [Next]_vars
    PROVE  TableInv'
  <1> USE DEF loopVars, flagVars, timerVars, envVars
  <1>1. CASE MainAdd
    <2> DEFINE o == Head(setup)
    <2>1. /\ setup # <<>> /\ Add(o) /\ setup' = Tail(setup) /\ stack' = <<>>
          /\ o \in Object /\ o = setup[1] /\ 1 \in 1 .. Len(setup)
      BY <1>1 DEF MainAdd, TypeOK
    <2>2. ~InTables(o)
      BY <2>1 DEF TableInv, SetupFresh
    <2>3. /\ TablesIntact' /\ MarksInTables' /\ DeletionStops'
          /\ \A x \in Object : InTables(x)' => InTables(x) \/ x = o
      BY <2>1, <2>2, TableAdd
    <2>4. SetupFresh'
      BY <2>1, <2>3, FreshTail DEF TableInv
    <2> QED
      BY <2>3, <2>4 DEF TableInv
  <1>2. ASSUME stack # <<>>, UNCHANGED setup
        PROVE  SetupFresh'
    BY <1>2 DEF TableInv, SetupFresh, TypeOK
  <1>3. ASSUME NEW f \in Func, FuncDelete(f)
        PROVE  TableInv'
    <2>1. /\ Stop(idx, FuncMax - 1) /\ mem[idx] = f /\ f \in Object
          /\ mem' = Closed(idx) /\ toDelete' = [toDelete EXCEPT ![f] = FALSE]
          /\ stack # <<>> /\ UNCHANGED setup
      BY <1>3, FuncStop DEF FuncDelete, F, At, Object
    <2>2. TablesIntact' /\ MarksInTables' /\ DeletionStops'
      BY <2>1, TableClose
    <2> QED
      BY <1>2, <2>1, <2>2 DEF TableInv
  <1>4. ASSUME NEW t \in Timer, TimerDelete(t)
        PROVE  TableInv'
    <2>1. idx \in Nat /\ idx < TimerMax
      BY <1>4, SlotFacts DEF TimerDelete, TypeOK
    <2>2. Stop(FuncMax + idx, Last)
      BY <2>1, TimerStops DEF TableInv
    <2>3. /\ mem[FuncMax + idx] = t /\ t \in Object
          /\ mem' = Closed(FuncMax + idx)
          /\ toDelete' = [toDelete EXCEPT ![t] = FALSE]
          /\ stack # <<>> /\ UNCHANGED setup
      BY <1>4 DEF TimerDelete, T, At, Object
    <2>4. TablesIntact' /\ MarksInTables' /\ DeletionStops'
      BY <2>2, <2>3, TableClose
    <2> QED
      BY <1>2, <2>3, <2>4 DEF TableInv
  <1>5. ASSUME NEW o \in Object, NEW x \in Object, CbAdd(o, x)
        PROVE  TableInv'
    <2>1. /\ stack # <<>> /\ UNCHANGED setup
          /\ Add(x) /\ (Registered(x) => toDelete[x])
      BY <1>5 DEF CbAdd, Running, At
    <2>2. CASE InTables(x)
      <3>1. Registered(x) /\ toDelete[x]
        BY <2>1, <2>2, ScanFinds DEF TableInv
      <3>2. UNCHANGED mem /\ toDelete' = [toDelete EXCEPT ![x] = FALSE]
        BY <2>1, <3>1 DEF Add
      <3>3. \A y \in Object : toDelete'[y] => toDelete[y]
        BY <3>2 DEF TypeOK
      <3> QED
        BY <1>2, <2>1, <3>2, <3>3
        DEF TableInv, TablesIntact, MarksInTables, InTables, DeletionStops, Object
    <2>3. CASE ~InTables(x)
      BY <1>2, <2>1, <2>3, TableAdd DEF TableInv
    <2> QED
      BY <2>2, <2>3
  <1>6. ASSUME NEW o \in Object, NEW x \in Object, CbDel(o, x)
        PROVE  TableInv'
    <2>1. /\ stack # <<>> /\ UNCHANGED <<setup, mem>> /\ <<o, x>> \in Dels
          /\ toDelete' = [toDelete EXCEPT ![x] = TRUE]
      BY <1>6 DEF CbDel, Running, At
    <2>2. InTables(x)
      <3>1. PICK k \in Base(x) .. Last : mem[k] = x
        BY <1>6 DEF CbDel
      <3>2. k \in Slot
        BY <3>1, HomeFacts, SlotFacts DEF Slot, Last
      <3> QED
        BY <3>1, <3>2 DEF InTables
    <2>3. MarksInTables'
      BY <2>1, <2>2 DEF TableInv, MarksInTables, InTables, TypeOK
    <2>4. DeletionStops'
      <3>1. CASE SpareSlot
        BY <3>1 DEF DeletionStops
      <3>2. CASE ~SpareSlot
        <4>1. x \notin Func
          BY <2>1, <3>2, ObjectAssumption DEF TidyProgram
        <4> QED
          BY <2>1, <3>2, <4>1 DEF DeletionStops, TableInv, TypeOK, Object
      <3> QED
        BY <3>1, <3>2
    <2>5. TablesIntact'
      BY <2>1 DEF TableInv, TablesIntact
    <2> QED
      BY <1>2, <2>1, <2>3, <2>4, <2>5 DEF TableInv
  <1>7. CASE /\ UNCHANGED <<mem, toDelete, setup>>
             /\ stack = <<>> /\ setup # <<>> => stack' = <<>>
    BY <1>7 DEF TableInv, TablesIntact, MarksInTables, InTables, DeletionStops,
                SetupFresh
  <1> QED
    BY <1>1, <1>3, <1>4, <1>5, <1>6, <1>7
    DEF Next, LoopStep, Api, At, Running, Enter, Vblank, LoopExit, LoopTimers,
        LoopFrame, LoopFuncs, FuncsDone, TimersDone, FuncSkip, FuncCall,
        TimerSkip, TimerCount, TimerFire, CbReturn, Pend, Post, LoopEnd,
        TimerStart, TimerStop, SetReload, FuncSwitch, vars, Visit

LEMMA TableInvariant ==
    ASSUME TidyProgram
    PROVE  Spec => [](TypeOK /\ TableInv)
  <1>1. Init => TypeOK /\ TableInv
    BY TypeInit, TableInit
  <1>2. TypeOK /\ TableInv /\ [Next]_vars => TypeOK' /\ TableInv'
    BY TypeStep, TableStep
  <1> QED
    BY <1>1, <1>2, PTL DEF Spec

\* In a program that adds no object twice and leaves its functions alone, or
\* one slot for them unused, the tables hold each object once, without gaps,
\* each kind in its own table, however objects are deleted and added from
\* callbacks while loops nest (delete_func(), delete_timer()).
THEOREM TablesStayIntact ==
    ASSUME TidyProgram
    PROVE  Spec => []TablesIntact
  BY TableInvariant, PTL DEF TableInv

\* In such a program a deletion mark is only ever on an object that the tables
\* hold: none is left behind to delete a later registration of the object.
THEOREM MarksAreRegistered ==
    ASSUME TidyProgram
    PROVE  Spec => []MarksRegistered
  <1>1. TypeOK /\ TableInv => MarksRegistered
    BY ScanFinds DEF TableInv, MarksInTables, MarksRegistered
  <1> QED
    BY <1>1, TableInvariant, PTL

=============================================================================
