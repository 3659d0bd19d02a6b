---------------------------- MODULE HelpersProofs ----------------------------
(***************************************************************************)
(* The memory pool hands out blocks that are aligned and lie apart, those  *)
(* of the loop among them, for every end of the data and of the RAM, all   *)
(* lengths and all sizes of the tables.  The conversions write             *)
(* every number as what it is, and read every address as it stands; the    *)
(* lists in a message, of any strings, are read back.  What is folded over *)
(* a string is followed by induction on the sets of numbers of             *)
(* SequenceLemmas.                                                         *)
(***************************************************************************)
EXTENDS Helpers, SequenceLemmas, TLAPS

-----------------------------------------------------------------------------
(* The invariant, of any set of blocks between two addresses.              *)

Aligned(n) == n % MP_ALIGN = 0

\* A block that fits ends before one that lies behind it, and before the end.
Stacked(bs, fl, ps) ==
    /\ fl \in Nat /\ ps \in Nat /\ fl <= ps
    /\ Aligned(fl) /\ Aligned(ps)
    /\ bs \subseteq [at : Nat, len : 0 .. Word - 1]
    /\ \A b \in bs : Aligned(b.at) /\ fl <= b.at /\ b.at <= ps
    /\ \A a \in bs : Fits(a) =>
          /\ a.at + a.len <= ps
          /\ \A b \in bs : a.at < b.at => a.at + a.len <= b.at
          /\ \A b \in bs : Fits(b) => a = b \/ Apart(a, b)

PoolInv ==
    /\ init_done \in BOOLEAN
    /\ Stacked(blocks, floor, pos)
    /\ init_done => pos < PoolEnd
    /\ init_done = FALSE => blocks = {}
    /\ loop \in Nat

-----------------------------------------------------------------------------

\* An uint16_t has this many values; intervals of them are best left alone.
LEMMA WordIs == Word \in Nat /\ 65536 <= Word /\ Word <= 65536
  BY SMT DEF Word

LEMMA Rounding ==
    ASSUME NEW n \in Nat
    PROVE  /\ MP_ALIGN_COMP(n) \in Nat
           /\ Aligned(MP_ALIGN_COMP(n))
           /\ n <= MP_ALIGN_COMP(n) /\ MP_ALIGN_COMP(n) < n + MP_ALIGN
           /\ Aligned(n) => MP_ALIGN_COMP(n) = n
  BY DEF MP_ALIGN_COMP, Aligned, MP_ALIGN

\* A length that fits is rounded up to a multiple of the alignment.
LEMMA RoundedUp ==
    ASSUME NEW len \in 0 .. Word - 1
    PROVE  /\ Rounded(len) \in Nat
           /\ Aligned(Rounded(len))
           /\ len <= Word - MP_ALIGN => len <= Rounded(len)
           /\ len <= Word - MP_ALIGN /\ Aligned(len) => Rounded(len) = len
<1> DEFINE up == MP_ALIGN_COMP(len)
<1> len \in Nat /\ len < Word
  BY WordIs
<1>1. /\ up \in Nat /\ Aligned(up) /\ len <= up /\ up < len + MP_ALIGN
      /\ Aligned(len) => up = len
  BY Rounding
<1> HIDE DEF up
<1>2. up <= Word
  <2>1. up < Word + 3
    BY <1>1, WordIs DEF MP_ALIGN
  <2>2. up # Word + 1 /\ up # Word + 2
    <3>1. \A n \in Nat : n % 4 = 0 => n # 65537 /\ n # 65538
      BY SMT
    <3>2. up \in Nat /\ up % 4 = 0
      BY <1>1 DEF Aligned, MP_ALIGN
    <3> QED BY <3>1, <3>2, WordIs
  <2> QED BY <1>1, <2>1, <2>2, WordIs
<1> USE DEF up
<1>3. CASE up = Word
  BY <1>1, <1>3, WordIs DEF Rounded, Aligned, MP_ALIGN
<1>4. CASE up < Word
  <2>1. Rounded(len) = up
    BY <1>1, <1>4, WordIs DEF Rounded
  <2> QED BY <1>1, <2>1
<1> QED BY <1>1, <1>2, <1>3, <1>4, WordIs

\* What mp_alloc() does to the blocks when there is room.
LEMMA Stack ==
    ASSUME NEW bs, NEW fl, NEW ps, Stacked(bs, fl, ps), NEW len \in 0 .. Word - 1
    PROVE  Stacked(bs \cup {Block(ps, len)}, fl, ps + Rounded(len))
<1> DEFINE new == Block(ps, len)
           end == ps + Rounded(len)
<1>1. new = [at |-> ps, len |-> len] /\ new.at = ps /\ new.len = len
  BY DEF Block
<1>2. /\ fl \in Nat /\ ps \in Nat /\ fl <= ps
      /\ bs \subseteq [at : Nat, len : 0 .. Word - 1]
  BY DEF Stacked
<1>3. new \in [at : Nat, len : 0 .. Word - 1]
  BY <1>1, <1>2
<1>4. end \in Nat /\ ps <= end /\ Aligned(end)
  BY <1>2, RoundedUp DEF Stacked, Aligned, MP_ALIGN
<1>5. \A b \in bs \cup {new} : Aligned(b.at) /\ fl <= b.at /\ b.at <= end
  BY <1>1, <1>2, <1>4 DEF Stacked
<1>6. ASSUME NEW a \in bs, Fits(a)
      PROVE  /\ a.at + a.len <= ps /\ a.at + a.len <= end
             /\ \A b \in bs \cup {new} : a.at < b.at => a.at + a.len <= b.at
             /\ \A b \in bs \cup {new} : Fits(b) => a = b \/ Apart(a, b)
  <2>1. a.at \in Nat /\ a.len \in Nat
    <3>1. a \in [at : Nat, len : 0 .. Word - 1]
      BY <1>2, <1>6
    <3>2. a.at \in Nat /\ a.len \in 0 .. Word - 1
      BY <3>1
    <3>3. 0 .. Word - 1 \subseteq Nat
      BY WordIs
    <3> QED BY <3>2, <3>3
  <2>2. a.at + a.len <= ps
    BY <1>6 DEF Stacked
  <2>3. \A b \in bs : /\ a.at < b.at => a.at + a.len <= b.at
                      /\ Fits(b) => a = b \/ Apart(a, b)
    BY <1>6 DEF Stacked
  <2>4. a.at + a.len <= new.at /\ Apart(a, new)
    BY <1>1, <2>2 DEF Apart
  <2>5. a.at + a.len <= end
    BY <1>2, <1>4, <2>1, <2>2
  <2> QED BY <2>2, <2>3, <2>4, <2>5
<1>7. ASSUME Fits(new)
      PROVE  /\ new.at + new.len <= end
             /\ \A b \in bs \cup {new} : new.at < b.at => new.at + new.len <= b.at
             /\ \A b \in bs \cup {new} : Fits(b) => new = b \/ Apart(new, b)
  <2>1. new.at + new.len <= end
    BY <1>1, <1>2, <1>7, RoundedUp DEF Fits
  <2>2. \A b \in bs \cup {new} : b.at \in Nat /\ ~(new.at < b.at)
    BY <1>1, <1>2 DEF Stacked
  <2>3. \A b \in bs : Fits(b) => Apart(new, b)
    BY <1>1, <1>6 DEF Apart
  <2> QED BY <2>1, <2>2, <2>3
<1>8. bs \cup {new} \subseteq [at : Nat, len : 0 .. Word - 1]
  BY <1>2, <1>3
<1>9. Aligned(fl)
  BY DEF Stacked
<1> QED BY <1>2, <1>4, <1>5, <1>6, <1>7, <1>8, <1>9 DEF Stacked

\* What mp_alloc() makes of a pool, whether there is room or not.
LEMMA AllocatedStacked ==
    ASSUME NEW bs, NEW fl, NEW ps, Stacked(bs, fl, ps), ps < PoolEnd,
           NEW len \in 0 .. Word - 1
    PROVE  \E bt, pt : /\ Allocated(Pool(ps, bs), len) = Pool(pt, bt)
                       /\ Stacked(bt, fl, pt) /\ pt < PoolEnd
<1>1. Pool(ps, bs).pos = ps /\ Pool(ps, bs).blocks = bs
  BY DEF Pool
<1>2. CASE Room(ps + Rounded(len))
  <2>1. Allocated(Pool(ps, bs), len) = Pool(ps + Rounded(len), bs \cup {Block(ps, len)})
    BY <1>1, <1>2 DEF Allocated
  <2> QED BY <1>2, <2>1, Stack DEF Room
<1>3. CASE ~Room(ps + Rounded(len))
  <2>1. Allocated(Pool(ps, bs), len) = Pool(ps, bs)
    BY <1>1, <1>3 DEF Allocated
  <2> QED BY <2>1
<1> QED BY <1>2, <1>3

\* What mp_free_to() does to the blocks, given any address.
LEMMA FreedStacked ==
    ASSUME Stacked(blocks, floor, pos), NEW p \in Nat, Freed(p)
    PROVE  Stacked(blocks', floor, pos') /\ pos' <= pos
<1>1. /\ floor \in Nat /\ pos \in Nat /\ Aligned(floor)
      /\ blocks \subseteq [at : Nat, len : 0 .. Word - 1]
  BY DEF Stacked
<1>2. CASE floor <= p /\ p < pos /\ p = MP_ALIGN_COMP(p)
  <2> DEFINE left == {b \in blocks : b.at + b.len <= p}
  <2>1. pos' = p /\ blocks' = left
    BY <1>2 DEF Freed
  <2>2. Aligned(p)
    <3>1. Aligned(MP_ALIGN_COMP(p))
      BY Rounding
    <3> QED BY <1>2, <3>1
  <2>3. \A b \in blocks : b.at \in Nat /\ b.len \in Nat
    BY <1>1, WordIs
  <2>4. \A b \in left : Aligned(b.at) /\ floor <= b.at /\ b.at <= p
    BY <2>3 DEF Stacked
  <2>5. \A a \in left : Fits(a) =>
           /\ a.at + a.len <= p
           /\ \A b \in left : a.at < b.at => a.at + a.len <= b.at
           /\ \A b \in left : Fits(b) => a = b \/ Apart(a, b)
    BY DEF Stacked
  <2>6. left \subseteq [at : Nat, len : 0 .. Word - 1]
    BY <1>1
  <2> HIDE DEF left
  <2>7. Stacked(left, floor, p)
    BY <1>1, <1>2, <2>2, <2>4, <2>5, <2>6 DEF Stacked
  <2> QED BY <1>1, <1>2, <2>1, <2>7
<1>3. CASE ~(floor <= p /\ p < pos /\ p = MP_ALIGN_COMP(p))
  <2>1. UNCHANGED <<pos, blocks>>
    BY <1>3 DEF Freed
  <2> QED BY <1>1, <2>1
<1> QED BY <1>2, <1>3

-----------------------------------------------------------------------------
(* The initial state and the steps.                                        *)

LEMMA PoolInitInv == PoolInit => PoolInv
<1> SUFFICES ASSUME PoolInit PROVE PoolInv
  OBVIOUS
<1>1. Stacked({}, 0, 0)
  BY DEF Stacked, Aligned, MP_ALIGN
<1> QED BY <1>1 DEF PoolInit, PoolInv, Nowhere

\* A pool that is made afresh.
LEMMA Fresh ==
    LET fl == MP_ALIGN_COMP(Eflash)
    IN  fl \in Nat /\ fl < PoolEnd /\ Stacked({}, fl, fl)
<1> DEFINE fl == MP_ALIGN_COMP(Eflash)
<1>1. fl \in Nat /\ Aligned(fl) /\ fl < PoolEnd
  BY PoolAssumption, Rounding
<1> QED BY <1>1 DEF Stacked

LEMMA MpInitInv ==
    ASSUME PoolInv, NEW force \in BOOLEAN, MpInit(force)
    PROVE  PoolInv'
<1>1. CASE init_done = FALSE \/ force
  <2>1. /\ init_done' = TRUE /\ blocks' = {} /\ floor' = MP_ALIGN_COMP(Eflash)
        /\ pos' = floor' /\ loop' = loop
    BY <1>1 DEF MpInit, PoolInv
  <2>2. Stacked(blocks', floor', pos') /\ pos' < PoolEnd
    BY <2>1, Fresh
  <2> QED BY <2>1, <2>2 DEF PoolInv
<1>2. CASE ~(init_done = FALSE \/ force)
  <2>1. UNCHANGED poolVars
    BY <1>2 DEF MpInit, PoolInv, poolVars
  <2> QED BY <2>1 DEF PoolInv, poolVars
<1> QED BY <1>1, <1>2

LEMMA MpAllocInv ==
    ASSUME PoolInv, NEW length \in Lengths, MpAlloc(length)
    PROVE  PoolInv'
<1>1. length \in 0 .. Word - 1
  BY PoolAssumption
<1>2. Stacked(blocks, floor, pos) /\ pos < PoolEnd
  BY DEF PoolInv, MpAlloc
<1>3. PICK bt, pt : /\ Allocated(Pool(pos, blocks), length) = Pool(pt, bt)
                    /\ Stacked(bt, floor, pt) /\ pt < PoolEnd
  BY <1>1, <1>2, AllocatedStacked
<1>4. /\ pos' = pt /\ blocks' = bt /\ UNCHANGED <<init_done, floor, loop>>
      /\ init_done
  BY <1>3 DEF MpAlloc, Pool
<1> QED BY <1>3, <1>4 DEF PoolInv

LEMMA MpFreeToInv ==
    ASSUME PoolInv, NEW c \in blocks, MpFreeTo(c.at)
    PROVE  PoolInv'
<1>1. c.at \in Nat
  BY DEF PoolInv, Stacked
<1>2. /\ UNCHANGED <<init_done, floor, loop>>
      /\ Stacked(blocks', floor, pos') /\ pos' <= pos
  BY <1>1, FreedStacked DEF MpFreeTo, PoolInv
<1>3. init_done' => pos' < PoolEnd
  BY <1>2, PoolAssumption DEF PoolInv, Stacked
<1>4. init_done
  BY DEF PoolInv
<1> QED BY <1>2, <1>3, <1>4 DEF PoolInv

LEMMA LoopInitInv ==
    ASSUME PoolInv, NEW n \in Tables, LoopInit(n[1], n[2])
    PROVE  PoolInv'
<1> DEFINE start == IF init_done THEN pos ELSE MP_ALIGN_COMP(Eflash)
           fl == IF init_done THEN floor ELSE start
           data == Allocated(Pool(start, blocks), DataSize)
           f == Allocated(data, PointerSize * n[1])
           t == Allocated(f, PointerSize * n[2])
<1>1. n[1] \in 0 .. 255 /\ n[2] \in 0 .. 255
  BY PoolAssumption
<1>2. /\ DataSize \in 0 .. Word - 1
      /\ PointerSize * n[1] \in 0 .. Word - 1
      /\ PointerSize * n[2] \in 0 .. Word - 1
  <2>1. DataSize \in 0 .. Word - 1
    <3>1. DataSize \in 1 .. Word - MP_ALIGN
      BY PoolAssumption
    <3> QED BY <3>1, WordIs DEF MP_ALIGN
  <2>2. \A k \in 0 .. 255 : PointerSize * k \in 0 .. Word - 1
    BY WordIs DEF PointerSize
  <2> QED BY <1>1, <2>1, <2>2
<1>3. Stacked(blocks, fl, start) /\ start \in Nat /\ start < PoolEnd
  <2>1. CASE init_done
    BY <2>1 DEF PoolInv, Stacked
  <2>2. CASE ~init_done
    BY <2>2, Fresh DEF PoolInv
  <2> QED BY <2>1, <2>2
<1>4. PICK b1, p1 : data = Pool(p1, b1) /\ Stacked(b1, fl, p1) /\ p1 < PoolEnd
  BY <1>2, <1>3, AllocatedStacked
<1>5. PICK b2, p2 : f = Pool(p2, b2) /\ Stacked(b2, fl, p2) /\ p2 < PoolEnd
  BY <1>2, <1>4, AllocatedStacked
<1>6. PICK b3, p3 : t = Pool(p3, b3) /\ Stacked(b3, fl, p3) /\ p3 < PoolEnd
  BY <1>2, <1>5, AllocatedStacked
<1>7. /\ loop' = IF Room(start + Rounded(DataSize)) THEN start ELSE Nowhere
      /\ pos' = t.pos /\ blocks' = t.blocks /\ floor' = fl /\ init_done' = TRUE
  BY DEF LoopInit
<1>8. pos' = p3 /\ blocks' = b3
  BY <1>6, <1>7 DEF Pool
<1>9. loop' \in Nat
  BY <1>3, <1>7 DEF Nowhere
<1> QED BY <1>6, <1>7, <1>8, <1>9 DEF PoolInv

LEMMA LoopDeinitInv ==
    ASSUME PoolInv, LoopDeinit
    PROVE  PoolInv'
<1>1. /\ Stacked(blocks', floor, pos') /\ pos' <= pos
      /\ UNCHANGED <<init_done, floor>> /\ loop' = Nowhere
  BY FreedStacked DEF PoolInv, LoopDeinit
<1>2. init_done' => pos' < PoolEnd
  BY <1>1, PoolAssumption DEF PoolInv, Stacked
<1>3. init_done = FALSE => blocks' = {}
  BY DEF PoolInv, LoopDeinit, Freed
<1> QED BY <1>1, <1>2, <1>3 DEF PoolInv, Nowhere

LEMMA PoolNextInv ==
    ASSUME PoolInv, [PoolNext]_poolVars
    PROVE  PoolInv'
<1>1. ASSUME NEW force \in BOOLEAN, MpInit(force) PROVE PoolInv'
  BY <1>1, MpInitInv
<1>2. ASSUME NEW length \in Lengths, MpAlloc(length) PROVE PoolInv'
  BY <1>2, MpAllocInv
<1>3. ASSUME NEW c \in blocks, MpFreeTo(c.at) PROVE PoolInv'
  BY <1>3, MpFreeToInv
<1>4. ASSUME NEW n \in Tables, LoopInit(n[1], n[2]) PROVE PoolInv'
  BY <1>4, LoopInitInv
<1>5. CASE LoopDeinit
  BY <1>5, LoopDeinitInv
<1>6. CASE UNCHANGED poolVars
  BY <1>6 DEF PoolInv, poolVars
<1> QED BY <1>1, <1>2, <1>3, <1>4, <1>5, <1>6 DEF PoolNext

THEOREM PoolInvariant == PoolSpec => []PoolInv
  BY PoolInitInv, PoolNextInv, PTL DEF PoolSpec

-----------------------------------------------------------------------------
(* The properties that the run checks.                                     *)

\* The pool stays below the end of the RAM and hands out aligned addresses
\* (mp_alloc(), mpool.c:45-58).
THEOREM PoolTyped == PoolSpec => []PoolType
<1>1. PoolInv => PoolType
  BY DEF PoolInv, PoolType, Stacked, Aligned
<1> QED BY <1>1, PoolInvariant, PTL

\* Blocks that are alive share no byte, whatever was freed in between and whatever
\* the loop had no room for, unless a length wrapped.
THEOREM PoolApart == PoolSpec => []BlocksApart
<1>1. PoolInv => BlocksApart
  <2>1. SUFFICES ASSUME PoolInv, NEW a \in blocks
                 PROVE  pos < PoolEnd
    BY DEF PoolInv, BlocksApart, Stacked
  <2> QED BY <2>1 DEF PoolInv
<1> QED BY <1>1, PoolInvariant, PTL

-----------------------------------------------------------------------------
(* The conversions: what is given to them.                                 *)

Texts == Seq(Digit \cup {Dot, Letter})

Given ==
    /\ given.to = "address" => /\ given.args[1] \in [1 .. 4 -> Parts]
                               /\ given.args[2] \in Tails
    /\ given.to = "number" => given.args \in Numbers
    /\ given.to = "hex" => /\ given.args[1] \in [1 .. 8 -> Nibbles]
                           /\ given.args[2] \in 0 .. 8
    /\ given.to = "versions" => /\ given.args[1] \in [1 .. 3 -> Octets]
                                /\ given.args[2] \in [1 .. 3 -> Octets]
    /\ given.to = "request" => /\ given.args[1] \in SeqOf(Strings, MaxStrings)
                               /\ given.args[2] \in SeqOf(Strings, MaxStrings)
                               /\ given.args[3] \in SeqOf(Strings, MaxStrings)
                               /\ Len(given.args[2]) = Len(given.args[3])
    /\ given.to = "servers" => /\ given.args[1] \in Strings
                               /\ given.args[2] \in [1 .. 3 -> Strings \cup {Null}]
    /\ given.to = "scan" => /\ given.args[1] \in SeqOf(Ssids, 3)
                            /\ given.args[2] \in 0 .. 8
                            /\ given.args[3] \in Stale

LEMMA GivenStep ==
    ASSUME Given, [Next]_vars
    PROVE  Given'
<1> USE DEF Give
<1>1. CASE UNCHANGED given
  BY <1>1 DEF Given
<1>2. CASE Address
  <2>1. PICK parts \in [1 .. 4 -> Parts], tail \in Tails :
            given' = [to |-> "address", args |-> <<parts, tail>>]
    BY <1>2 DEF Address
  <2> QED BY <2>1 DEF Given
<1>3. CASE Number
  <2>1. PICK n \in Numbers : given' = [to |-> "number", args |-> n]
    BY <1>3 DEF Number
  <2> QED BY <2>1 DEF Given
<1>4. CASE Hex
  <2>1. PICK num \in [1 .. 8 -> Nibbles], pad \in 0 .. 8 :
            given' = [to |-> "hex", args |-> <<num, pad>>]
    BY <1>4 DEF Hex
  <2> QED BY <2>1 DEF Given
<1>5. CASE Versions
  <2>1. PICK old \in [1 .. 3 -> Octets], new \in [1 .. 3 -> Octets] :
            given' = [to |-> "versions", args |-> <<old, new>>]
    BY <1>5 DEF Versions
  <2> QED BY <2>1 DEF Given
<1>6. CASE Request
  <2>1. PICK path \in SeqOf(Strings, MaxStrings), keys \in SeqOf(Strings, MaxStrings),
             values \in SeqOf(Strings, MaxStrings) :
            /\ Len(keys) = Len(values)
            /\ given' = [to |-> "request", args |-> <<path, keys, values>>]
    BY <1>6 DEF Request
  <2> QED BY <2>1 DEF Given
<1>7. CASE Servers
  <2>1. PICK tz \in Strings, server \in [1 .. 3 -> Strings \cup {Null}] :
            given' = [to |-> "servers", args |-> <<tz, server>>]
    BY <1>7 DEF Servers
  <2> QED BY <2>1 DEF Given
<1>8. CASE Scan
  <2>1. PICK ssids \in SeqOf(Ssids, 3), cut \in 0 .. 8, stale \in Stale :
            given' = [to |-> "scan", args |-> <<ssids, cut, stale>>]
    BY <1>8 DEF Scan
  <2> QED BY <2>1 DEF Given
<1>9. CASE PoolRuns
  BY <1>1, <1>9 DEF PoolRuns
<1>10. CASE UNCHANGED vars
  BY <1>1, <1>10 DEF vars
<1> QED
  BY <1>2, <1>3, <1>4, <1>5, <1>6, <1>7, <1>8, <1>9, <1>10 DEF Next

LEMMA GivenAlways == Spec => []Given
<1>1. Init => Given
  BY DEF Init, Nothing, Given
<1> QED BY <1>1, GivenStep, PTL DEF Spec

-----------------------------------------------------------------------------
(* The value of a numeral.                                                 *)

\* FoldLeft is a function of the sets of indices, the largest index last.
Largest(S) == CHOOSE x \in S : \A y \in S : x >= y

ValueStep(g, s, S) ==
    IF S = {} THEN 0 ELSE 10 * g[S \ {Largest(S)}] + s[Largest(S)]

Adds(g, s, n) == g = [S \in SUBSET (1 .. n) |-> ValueStep(g, s, S)]

LEMMA LargestIs ==
    ASSUME NEW n \in Nat, NEW S \in SUBSET (1 .. n), n \in S
    PROVE  Largest(S) = n
<1>1. \A y \in S : n >= y
  OBVIOUS
<1>2. ASSUME NEW x \in S, \A y \in S : x >= y
      PROVE  x = n
  BY <1>2
<1> QED
  BY <1>1, <1>2 DEF Largest

LEMMA AddOne ==
    ASSUME NEW s, NEW n \in Nat \ {0}, NEW g, Adds(g, s, n - 1)
    PROVE  \E h : Adds(h, s, n)
<1> DEFINE h == [S \in SUBSET (1 .. n) |->
                   IF n \in S THEN 10 * g[S \ {n}] + s[n] ELSE g[S]]
<1>1. ASSUME NEW S \in SUBSET (1 .. n)
      PROVE  h[S] = ValueStep(h, s, S)
  <2>1. CASE n \in S
    <3>1. Largest(S) = n
      BY <2>1, LargestIs
    <3>2. S \ {n} \in SUBSET (1 .. n) /\ n \notin S \ {n} /\ S # {}
      BY <2>1
    <3>3. h[S \ {n}] = g[S \ {n}]
      BY <3>2
    <3> QED
      BY <2>1, <3>1, <3>2, <3>3 DEF ValueStep
  <2>2. CASE n \notin S
    <3>1. S \in SUBSET (1 .. n - 1)
      BY <2>2
    <3>2. g[S] = ValueStep(g, s, S)
      BY <3>1 DEF Adds
    <3>3. \A x : S \ {x} \in SUBSET (1 .. n) /\ n \notin S \ {x}
      BY <2>2
    <3>4. \A x : h[S \ {x}] = g[S \ {x}]
      BY <3>3
    <3>5. h[S] = g[S]
      BY <2>2
    <3> HIDE DEF h
    <3> QED
      BY <3>2, <3>4, <3>5 DEF ValueStep
  <2> QED
    BY <2>1, <2>2
<1>2. h = [S \in SUBSET (1 .. n) |-> h[S]]
  OBVIOUS
<1> HIDE DEF h
<1>3. Adds(h, s, n)
  BY <1>1, <1>2 DEF Adds
<1> QED
  BY <1>3

LEMMA AddsExists ==
    ASSUME NEW s, NEW n \in Nat
    PROVE  \E g : Adds(g, s, n)
<1> DEFINE Partial(k) == \E g : Adds(g, s, k)
           S == {k \in Nat : Partial(k)}
<1>1. Partial(0)
  <2> DEFINE g == [T \in SUBSET (1 .. 0) |-> 0]
  <2>1. \A T \in SUBSET (1 .. 0) : T = {}
    OBVIOUS
  <2>2. \A T \in SUBSET (1 .. 0) : g[T] = ValueStep(g, s, T)
    BY <2>1 DEF ValueStep
  <2>3. g = [T \in SUBSET (1 .. 0) |-> g[T]]
    OBVIOUS
  <2> HIDE DEF g
  <2>4. Adds(g, s, 0)
    BY <2>2, <2>3 DEF Adds
  <2> QED
    BY <2>4
<1>2. ASSUME NEW k \in Nat \ {0}, Partial(k - 1)
      PROVE  Partial(k)
  BY <1>2, AddOne
<1> HIDE DEF Partial
<1>3. \A k \in Nat \ {0} : k - 1 \in S => k \in S
  BY <1>2
<1>4. 0 \in S /\ S \in SUBSET Nat
  BY <1>1
<1>5. S = Nat
  <2> HIDE DEF S
  <2> QED
    BY <1>3, <1>4, Induction
<1> QED
  BY <1>5 DEF Partial

LEMMA AddsAt ==
    ASSUME NEW s, NEW n \in Nat, NEW g, Adds(g, s, n), NEW k \in 1 .. n
    PROVE  g[1 .. k] = 10 * g[1 .. k - 1] + s[k]
<1>1. 1 .. k \in SUBSET (1 .. n) /\ 1 .. k # {} /\ k \in 1 .. k /\ k \in Nat
  OBVIOUS
<1>2. Largest(1 .. k) = k
  <2>1. 1 .. k \in SUBSET (1 .. k)
    OBVIOUS
  <2> QED
    BY <1>1, <2>1, LargestIs
<1>3. (1 .. k) \ {k} = 1 .. k - 1
  OBVIOUS
<1>4. g[1 .. k] = ValueStep(g, s, 1 .. k)
  BY <1>1 DEF Adds
<1> QED
  BY <1>1, <1>2, <1>3, <1>4 DEF ValueStep

LEMMA AddsNone ==
    ASSUME NEW s, NEW n \in Nat, NEW g, Adds(g, s, n)
    PROVE  g[1 .. 0] = 0
<1>1. 1 .. 0 \in SUBSET (1 .. n) /\ 1 .. 0 = {}
  OBVIOUS
<1> QED
  BY <1>1 DEF Adds, ValueStep

LEMMA AddsAgree ==
    ASSUME NEW s, NEW n \in Nat, NEW g, Adds(g, s, n),
           NEW r, NEW m \in 0 .. n, NEW h, Adds(h, r, m),
           \A i \in 1 .. m : r[i] = s[i]
    PROVE  h[1 .. m] = g[1 .. m]
<1> DEFINE S == {k \in Nat : k \in 0 .. m => h[1 .. k] = g[1 .. k]}
<1>1. ASSUME NEW k \in 1 .. m, k - 1 \in S
      PROVE  h[1 .. k] = g[1 .. k]
  <2>1. h[1 .. k] = 10 * h[1 .. k - 1] + r[k]
    BY AddsAt
  <2>2. k \in 1 .. n /\ k - 1 \in 0 .. m
    OBVIOUS
  <2>3. g[1 .. k] = 10 * g[1 .. k - 1] + s[k]
    BY <2>2, AddsAt
  <2> QED
    BY <1>1, <2>1, <2>2, <2>3
<1>2. \A k \in Nat \ {0} : k - 1 \in S => k \in S
  BY <1>1
<1>3. 0 \in S /\ S \in SUBSET Nat
  <2>1. h[1 .. 0] = 0 /\ g[1 .. 0] = 0
    BY AddsNone
  <2> QED
    BY <2>1
<1>4. S = Nat
  <2> HIDE DEF S
  <2> QED
    BY <1>2, <1>3, Induction
<1>5. m \in 0 .. m /\ m \in S
  BY <1>4
<1> QED
  BY <1>5

LEMMA ValueIs ==
    ASSUME NEW T, NEW s \in Seq(T)
    PROVE  \E g : Adds(g, s, Len(s)) /\ Value(s) = g[1 .. Len(s)]
<1>1. Len(s) \in Nat /\ DOMAIN s = 1 .. Len(s)
  OBVIOUS
<1>2. \E g : Adds(g, s, Len(s))
  BY <1>1, AddsExists
<1>3. Value(s) = LET g == CHOOSE g : Adds(g, s, Len(s)) IN g[1 .. Len(s)]
  BY <1>1 DEF Value, FoldLeft, MapThenFoldSet, Max, Adds, ValueStep, Largest
<1> QED
  BY <1>2, <1>3

\* Of the first k digits.
Upto(s, k) == Value(SubSeq(s, 1, k))

LEMMA Begins ==
    ASSUME NEW T, NEW s \in Seq(T), NEW k \in 0 .. Len(s)
    PROVE  /\ SubSeq(s, 1, k) \in Seq(T)
           /\ Len(SubSeq(s, 1, k)) = k
           /\ \A i \in 1 .. k : SubSeq(s, 1, k)[i] = s[i]
<1>1. \A i \in 1 .. k : s[i] \in T
  OBVIOUS
<1> QED
  BY <1>1, SubSeqProperties

LEMMA UptoNone ==
    ASSUME NEW s
    PROVE  Upto(s, 0) = 0
<1>1. SubSeq(s, 1, 0) = <<>> /\ <<>> \in Seq({}) /\ Len(<<>>) = 0
  OBVIOUS
<1>2. PICK g : Adds(g, <<>>, 0) /\ Value(<<>>) = g[1 .. 0]
  BY <1>1, ValueIs
<1>3. g[1 .. 0] = 0
  BY <1>2, AddsNone
<1> QED
  BY <1>1, <1>2, <1>3 DEF Upto

LEMMA UptoNext ==
    ASSUME NEW s \in Seq(Nat), NEW k \in 1 .. Len(s)
    PROVE  Upto(s, k) = 10 * Upto(s, k - 1) + s[k]
<1>1. k \in 0 .. Len(s) /\ k - 1 \in 0 .. Len(s) /\ k - 1 \in Nat
  OBVIOUS
<1>2. PICK r \in Seq(Nat) : r = SubSeq(s, 1, k)
  BY <1>1, Begins
<1>3. PICK q \in Seq(Nat) : q = SubSeq(s, 1, k - 1)
  BY <1>1, Begins
<1>4. PICK m \in Nat : m = k - 1 /\ k = m + 1 /\ k - 1 = m
  BY <1>1
<1>5. Len(r) = m + 1 /\ \A i \in 1 .. m + 1 : r[i] = s[i]
  BY <1>1, <1>2, <1>4, Begins
<1>6. Len(q) = m /\ \A i \in 1 .. m : q[i] = s[i]
  BY <1>1, <1>3, <1>4, Begins
<1>7. \A i \in 1 .. m : q[i] = r[i]
  <2>1. \A i \in 1 .. m : i \in 1 .. m + 1
    OBVIOUS
  <2> QED
    BY <1>5, <1>6, <2>1
<1>8. PICK g : Adds(g, r, m + 1) /\ Value(r) = g[1 .. m + 1]
  BY <1>5, ValueIs
<1>9. PICK h : Adds(h, q, m) /\ Value(q) = h[1 .. m]
  BY <1>6, ValueIs
<1>10. m + 1 \in Nat /\ m + 1 \in 1 .. m + 1 /\ m \in 0 .. m + 1 /\ (m + 1) - 1 = m
  OBVIOUS
<1>11. h[1 .. m] = g[1 .. m]
  BY <1>7, <1>8, <1>9, <1>10, AddsAgree
<1>12. g[1 .. m + 1] = 10 * g[1 .. m] + r[m + 1]
  BY <1>8, <1>10, AddsAt
<1>13. r[m + 1] = s[m + 1]
  BY <1>5, <1>10
<1>14. Value(r) = 10 * Value(q) + s[m + 1]
  BY <1>8, <1>9, <1>11, <1>12, <1>13
<1> QED
  BY <1>2, <1>3, <1>4, <1>14 DEF Upto

LEMMA UptoType ==
    ASSUME NEW s \in Seq(Nat), NEW k \in 0 .. Len(s)
    PROVE  Upto(s, k) \in Nat
<1> DEFINE S == {i \in Nat : i \in 0 .. Len(s) => Upto(s, i) \in Nat}
<1>1. Upto(s, 0) \in Nat
  BY UptoNone
<1>2. ASSUME NEW i \in Nat \ {0}, i - 1 \in S
      PROVE  i \in S
  <2> SUFFICES ASSUME i \in 1 .. Len(s) PROVE Upto(s, i) \in Nat
    OBVIOUS
  <2>1. i - 1 \in 0 .. Len(s) /\ s[i] \in Nat
    OBVIOUS
  <2>2. PICK a \in Nat, b \in Nat : a = Upto(s, i - 1) /\ b = s[i]
    <3>1. Upto(s, i - 1) \in Nat
      BY <1>2, <2>1
    <3> QED BY <2>1, <3>1, Zenon
  <2>3. Upto(s, i) = 10 * a + b
    BY <2>1, <2>2, UptoNext, Zenon
  <2>4. 10 * a + b \in Nat
    OBVIOUS
  <2> QED
    BY <2>3, <2>4, Zenon
<1>3. 0 \in S /\ S \in SUBSET Nat
  BY <1>1
<1>4. S = Nat
  <2> HIDE DEF S
  <2> QED
    BY <1>2, <1>3, Induction
<1> QED
  BY <1>4

LEMMA ValueType ==
    ASSUME NEW s \in Seq(Nat)
    PROVE  Upto(s, Len(s)) = Value(s) /\ Value(s) \in Nat
<1>1. SubSeq(s, 1, Len(s)) = s /\ Len(s) \in 0 .. Len(s)
  OBVIOUS
<1> QED
  BY <1>1, UptoType DEF Upto

LEMMA ValueSmall ==
    ASSUME NEW s \in Seq(Nat)
    PROVE  /\ Len(s) = 0 => Value(s) = 0
           /\ Len(s) = 1 => Value(s) = s[1]
           /\ Len(s) = 2 => Value(s) = 10 * s[1] + s[2]
           /\ Len(s) = 3 => Value(s) = 100 * s[1] + 10 * s[2] + s[3]
           /\ Len(s) = 4 => Value(s) = 1000 * s[1] + 100 * s[2] + 10 * s[3] + s[4]
           /\ Len(s) = 5 => Value(s) = 10000 * s[1] + 1000 * s[2] + 100 * s[3] + 10 * s[4] + s[5]
<1>1. Upto(s, Len(s)) = Value(s) /\ Upto(s, 0) = 0
  BY ValueType, UptoNone
<1>2. PICK n \in Nat : n = Len(s)
  OBVIOUS
<1>3. ASSUME NEW k \in 1 .. n
      PROVE  Upto(s, k) = 10 * Upto(s, k - 1) + s[k] /\ s[k] \in Nat
  <2>1. k \in 1 .. Len(s)
    BY <1>2
  <2>2. s[k] \in Nat
    BY <2>1
  <2> QED BY <2>1, <2>2, UptoNext
<1>4. n >= 1 => Upto(s, 1) = s[1] /\ s[1] \in Nat
  <2> SUFFICES ASSUME n >= 1 PROVE Upto(s, 1) = s[1] /\ s[1] \in Nat
    OBVIOUS
  <2>1. 1 \in 1 .. n /\ 1 - 1 = 0
    OBVIOUS
  <2>2. Upto(s, 1) = 10 * Upto(s, 0) + s[1] /\ s[1] \in Nat
    BY <1>3, <2>1
  <2> QED BY <1>1, <2>2
<1>5. n >= 2 => Upto(s, 2) = 10 * s[1] + s[2] /\ s[2] \in Nat
  <2> SUFFICES ASSUME n >= 2 PROVE Upto(s, 2) = 10 * s[1] + s[2] /\ s[2] \in Nat
    OBVIOUS
  <2>1. 2 \in 1 .. n /\ 2 - 1 = 1 /\ n >= 1
    OBVIOUS
  <2>2. Upto(s, 2) = 10 * Upto(s, 1) + s[2] /\ s[2] \in Nat
    BY <1>3, <2>1
  <2> QED BY <1>4, <2>1, <2>2
<1>6. n >= 3 => Upto(s, 3) = 100 * s[1] + 10 * s[2] + s[3] /\ s[3] \in Nat
  <2> SUFFICES ASSUME n >= 3
               PROVE  Upto(s, 3) = 100 * s[1] + 10 * s[2] + s[3] /\ s[3] \in Nat
    OBVIOUS
  <2>1. 3 \in 1 .. n /\ 3 - 1 = 2 /\ n >= 1 /\ n >= 2
    OBVIOUS
  <2>2. Upto(s, 3) = 10 * Upto(s, 2) + s[3] /\ s[3] \in Nat
    BY <1>3, <2>1
  <2>3. s[1] \in Nat /\ s[2] \in Nat /\ Upto(s, 2) = 10 * s[1] + s[2]
    BY <1>4, <1>5, <2>1
  <2> QED BY <2>2, <2>3, SMT
<1>7. n >= 4 => Upto(s, 4) = 1000 * s[1] + 100 * s[2] + 10 * s[3] + s[4] /\ s[4] \in Nat
  <2> SUFFICES ASSUME n >= 4
               PROVE  /\ Upto(s, 4) = 1000 * s[1] + 100 * s[2] + 10 * s[3] + s[4]
                      /\ s[4] \in Nat
    BY SMT
  <2>1. 4 \in 1 .. n /\ 4 - 1 = 3 /\ n >= 1 /\ n >= 2 /\ n >= 3
    OBVIOUS
  <2>2. Upto(s, 4) = 10 * Upto(s, 3) + s[4] /\ s[4] \in Nat
    BY <1>3, <2>1
  <2>3. /\ s[1] \in Nat /\ s[2] \in Nat /\ s[3] \in Nat
        /\ Upto(s, 3) = 100 * s[1] + 10 * s[2] + s[3]
    BY <1>4, <1>5, <1>6, <2>1, SMT
  <2>4. PICK a \in Nat, b \in Nat, c \in Nat, d \in Nat :
            a = s[1] /\ b = s[2] /\ c = s[3] /\ d = s[4]
    BY <2>2, <2>3
  <2>5. Upto(s, 4) = 10 * (100 * a + 10 * b + c) + d
    BY <2>2, <2>3, <2>4
  <2>6. 10 * (100 * a + 10 * b + c) + d = 1000 * a + 100 * b + 10 * c + d
    BY SMT
  <2> QED BY <2>4, <2>5, <2>6, SMT
<1>8. n >= 5 => Upto(s, 5) = 10000 * s[1] + 1000 * s[2] + 100 * s[3] + 10 * s[4] + s[5]
  <2> SUFFICES ASSUME n >= 5
               PROVE  Upto(s, 5) = 10000 * s[1] + 1000 * s[2] + 100 * s[3] + 10 * s[4] + s[5]
    BY SMT
  <2>1. 5 \in 1 .. n /\ 5 - 1 = 4 /\ n >= 1 /\ n >= 2 /\ n >= 3 /\ n >= 4
    OBVIOUS
  <2>2. Upto(s, 5) = 10 * Upto(s, 4) + s[5] /\ s[5] \in Nat
    BY <1>3, <2>1
  <2>3. /\ s[1] \in Nat /\ s[2] \in Nat /\ s[3] \in Nat /\ s[4] \in Nat
        /\ Upto(s, 4) = 1000 * s[1] + 100 * s[2] + 10 * s[3] + s[4]
    <3>1. s[1] \in Nat /\ s[2] \in Nat /\ s[3] \in Nat
      BY <1>4, <1>5, <1>6, <2>1
    <3>2. s[4] \in Nat /\ Upto(s, 4) = 1000 * s[1] + 100 * s[2] + 10 * s[3] + s[4]
      BY <1>7, <2>1, SMT
    <3> QED BY <3>1, <3>2, SMT
  <2>4. PICK a \in Nat, b \in Nat, c \in Nat, d \in Nat, e \in Nat :
            a = s[1] /\ b = s[2] /\ c = s[3] /\ d = s[4] /\ e = s[5]
    <3>1. s[1] \in Nat /\ s[2] \in Nat /\ s[3] \in Nat /\ s[4] \in Nat /\ s[5] \in Nat
      BY <2>2, <2>3
    <3> QED BY <3>1, Zenon
  <2>5. Upto(s, 5) = 10 * (1000 * a + 100 * b + 10 * c + d) + e
    BY <2>2, <2>3, <2>4, SMT
  <2>6. 10 * (1000 * a + 100 * b + 10 * c + d) + e
        = 10000 * a + 1000 * b + 100 * c + 10 * d + e
    BY SMT
  <2> QED BY <2>4, <2>5, <2>6, SMT
<1>9. Len(s) = 3 => Value(s) = 100 * s[1] + 10 * s[2] + s[3]
  BY <1>1, <1>2, <1>6, SMT
<1>10. Len(s) = 4 => Value(s) = 1000 * s[1] + 100 * s[2] + 10 * s[3] + s[4]
  BY <1>1, <1>2, <1>7, SMT
<1>11. Len(s) = 5 =>
         Value(s) = 10000 * s[1] + 1000 * s[2] + 100 * s[3] + 10 * s[4] + s[5]
  BY <1>1, <1>2, <1>8, SMT
<1>12. /\ Len(s) = 0 => Value(s) = 0
       /\ Len(s) = 1 => Value(s) = s[1]
       /\ Len(s) = 2 => Value(s) = 10 * s[1] + s[2]
  <2>1. Len(s) = 0 => Value(s) = 0
    BY <1>1, <1>2
  <2>2. Len(s) = 1 => Value(s) = s[1]
    BY <1>1, <1>2, <1>4
  <2>3. Len(s) = 2 => Value(s) = 10 * s[1] + s[2]
    BY <1>1, <1>2, <1>5
  <2> QED BY <2>1, <2>2, <2>3, Zenon
<1> QED
  BY <1>9, <1>10, <1>11, <1>12

-----------------------------------------------------------------------------
(* Numbers that are written.                                               *)

LEMMA Places ==
    ASSUME NEW n \in Nat, n < 100000
    PROVE  /\ n = 10 * (n \div 10) + (n % 10)
           /\ n \div 10 = 10 * (n \div 100) + ((n \div 10) % 10)
           /\ n \div 100 = 10 * (n \div 1000) + ((n \div 100) % 10)
           /\ n \div 1000 = 10 * (n \div 10000) + ((n \div 1000) % 10)
           /\ n \div 10000 \in Nat /\ n \div 10000 < 10
           /\ \A m \in Nat : m % 10 \in Nat /\ m % 10 < 10 /\ m \div 10 \in Nat
<1>1. n = 10 * (n \div 10) + (n % 10)
  BY SMT
<1>2. n \div 10 = 10 * (n \div 100) + ((n \div 10) % 10)
  BY SMT
<1>3. n \div 100 = 10 * (n \div 1000) + ((n \div 100) % 10)
  BY SMT
<1>4. n \div 1000 = 10 * (n \div 10000) + ((n \div 1000) % 10)
  BY SMT
<1>5. n \div 10000 \in Nat /\ n \div 10000 < 10
  BY SMT
<1>6. \A m \in Nat : m % 10 \in Nat /\ m % 10 < 10 /\ m \div 10 \in Nat
  BY SMT
<1> QED
  BY <1>1, <1>2, <1>3, <1>4, <1>5, <1>6, SMT

\* The digits are digits, and make up the number.
LEMMA DigitsAre ==
    ASSUME NEW n \in Nat, n < 100000
    PROVE  /\ Digits(n) \in Seq(Nat) /\ Len(Digits(n)) = 5
           /\ \A i \in 1 .. 5 : Digits(n)[i] \in Nat /\ Digits(n)[i] < 10
           /\ n = 10000 * Digits(n)[1] + 1000 * Digits(n)[2] + 100 * Digits(n)[3]
                  + 10 * Digits(n)[4] + Digits(n)[5]
<1> DEFINE a == n \div 10000
           b == (n \div 1000) % 10
           c == (n \div 100) % 10
           d == (n \div 10) % 10
           e == n % 10
<1>1. /\ a \in Nat /\ b \in Nat /\ c \in Nat /\ d \in Nat /\ e \in Nat
      /\ a < 10 /\ b < 10 /\ c < 10 /\ d < 10 /\ e < 10
  <2>1. n \div 1000 \in Nat /\ n \div 100 \in Nat /\ n \div 10 \in Nat
    BY SMT
  <2>2. a \in Nat /\ a < 10
    BY Places, SMT
  <2>3. \A m \in Nat : m % 10 \in Nat /\ m % 10 < 10
    BY SMT
  <2> QED
    BY <2>1, <2>2, <2>3, SMT
<1>2. n = 10000 * a + 1000 * b + 100 * c + 10 * d + e
  BY Places, SMT
<1>3. Digits(n) = <<a, b, c, d, e>>
  BY SMT DEF Digits
<1> HIDE DEF a, b, c, d, e
<1>4. /\ Digits(n) \in Seq(Nat) /\ Len(Digits(n)) = 5
      /\ Digits(n)[1] = a /\ Digits(n)[2] = b /\ Digits(n)[3] = c
      /\ Digits(n)[4] = d /\ Digits(n)[5] = e
  BY <1>1, <1>3, SMT
<1>5. \A i \in 1 .. 5 : Digits(n)[i] \in Nat /\ Digits(n)[i] < 10
  BY <1>1, <1>4, SMT
<1> QED
  BY <1>2, <1>4, <1>5, SMT

\* What five digits are worth.
ByPlaces(D) == 10000 * D[1] + 1000 * D[2] + 100 * D[3] + 10 * D[4] + D[5]

\* The digits from the first on that is not 0 are a numeral of the number.
LEMMA NumeralFrom ==
    ASSUME NEW D \in Seq(Nat), Len(D) = 5,
           NEW f \in 1 .. 5, f = 5 \/ D[f] # 0, \A k \in 1 .. f - 1 : D[k] = 0
    PROVE  Numeral(SubSeq(D, f, 5), ByPlaces(D))
<1>2. \A i \in 1 .. 5 : D[i] \in Nat
  <2>1. D \in [1 .. Len(D) -> Nat]
    BY LenProperties
  <2> QED BY <2>1, Zenon
<1> DEFINE n == ByPlaces(D)
<1>3. n = 10000 * D[1] + 1000 * D[2] + 100 * D[3] + 10 * D[4] + D[5]
  BY DEF ByPlaces
<1> HIDE DEF n
<1>5. f \in 1 .. 5 /\ (f = 5 \/ D[f] # 0) /\ \A k \in 1 .. f - 1 : D[k] = 0
  OBVIOUS
<1>7. PICK s : s = SubSeq(D, f, 5)
  BY Zenon
<1>8. /\ s \in Seq(Nat) /\ Len(s) = 6 - f
      /\ \A i \in 1 .. 6 - f : s[i] = D[f + i - 1]
  <2>1. \A i \in f .. 5 : D[i] \in Nat
    BY <1>2, <1>5
  <2>2. f \in 1 .. 5
    BY <1>5
  <2> QED BY <1>7, <2>1, <2>2, SubSeqProperties
<1>9. Value(s) = n
  <2>1. CASE f = 1
    <3>1. Len(s) = 5 /\ s[1] = D[1] /\ s[2] = D[2] /\ s[3] = D[3] /\ s[4] = D[4] /\ s[5] = D[5]
      BY <1>8, <2>1
    <3>2. Value(s) = 10000 * s[1] + 1000 * s[2] + 100 * s[3] + 10 * s[4] + s[5]
      BY <1>8, <3>1, ValueSmall
    <3> QED BY <1>3, <3>1, <3>2, SMT
  <2>2. CASE f = 2
    <3>1. /\ Len(s) = 4 /\ s[1] = D[2] /\ s[2] = D[3] /\ s[3] = D[4] /\ s[4] = D[5]
          /\ D[1] = 0
      BY <1>5, <1>8, <2>2
    <3>2. Value(s) = 1000 * s[1] + 100 * s[2] + 10 * s[3] + s[4]
      BY <1>8, <3>1, ValueSmall
    <3> QED BY <1>2, <1>3, <3>1, <3>2, SMT
  <2>3. CASE f = 3
    <3>1. Len(s) = 3 /\ s[1] = D[3] /\ s[2] = D[4] /\ s[3] = D[5] /\ D[1] = 0 /\ D[2] = 0
      BY <1>5, <1>8, <2>3
    <3>2. Value(s) = 100 * s[1] + 10 * s[2] + s[3]
      BY <1>8, <3>1, ValueSmall
    <3> QED BY <1>2, <1>3, <3>1, <3>2, SMT
  <2>4. CASE f = 4
    <3>1. /\ Len(s) = 2 /\ s[1] = D[4] /\ s[2] = D[5]
          /\ D[1] = 0 /\ D[2] = 0 /\ D[3] = 0
      BY <1>5, <1>8, <2>4
    <3>2. Value(s) = 10 * s[1] + s[2]
      BY <1>8, <3>1, ValueSmall
    <3> QED BY <1>2, <1>3, <3>1, <3>2, SMT
  <2>5. CASE f = 5
    <3>1. /\ Len(s) = 1 /\ s[1] = D[5]
          /\ D[1] = 0 /\ D[2] = 0 /\ D[3] = 0 /\ D[4] = 0
      BY <1>5, <1>8, <2>5
    <3>2. Value(s) = s[1]
      BY <1>8, <3>1, ValueSmall
    <3> QED BY <1>2, <1>3, <3>1, <3>2, SMT
  <2> QED BY <1>5, <2>1, <2>2, <2>3, <2>4, <2>5
<1>10. s # <<>> /\ (Len(s) > 1 => s[1] # 0)
  <2>1. Len(s) > 1 => f # 5 /\ s[1] = D[f]
    BY <1>5, <1>8
  <2>2. Len(s) # 0
    BY <1>5, <1>8
  <2> QED BY <1>5, <2>1, <2>2
<1> QED
  <2>1. Numeral(s, n)
    BY <1>9, <1>10, Zenon DEF Numeral
  <2>2. Numeral(SubSeq(D, f, 5), n)
    BY <1>7, <2>1, Zenon
  <2> QED BY <2>2 DEF n

LEMMA Written16 ==
    ASSUME NEW n
    PROVE  \E f \in 1 .. 5 :
              /\ uint16_to_str(n) = SubSeq(Digits(n), f, 5)
              /\ f = 5 \/ Digits(n)[f] # 0
              /\ \A k \in 1 .. f - 1 : Digits(n)[k] = 0
<1> DEFINE D == Digits(n)
           First(i) == /\ i = 5 \/ D[i] # 0
                       /\ \A k \in 1 .. i - 1 : D[k] = 0
           f == CHOOSE i \in 1 .. 5 : First(i)
<1>1. uint16_to_str(n) = SubSeq(D, f, 5)
  BY Zenon DEF uint16_to_str
<1> HIDE DEF D
<1>2. \E i \in 1 .. 5 : First(i)
  <2>1. D[1] # 0 => First(1)
    OBVIOUS
  <2>2. D[1] = 0 /\ D[2] # 0 => First(2)
    OBVIOUS
  <2>3. D[1] = 0 /\ D[2] = 0 /\ D[3] # 0 => First(3)
    OBVIOUS
  <2>4. D[1] = 0 /\ D[2] = 0 /\ D[3] = 0 /\ D[4] # 0 => First(4)
    OBVIOUS
  <2>5. D[1] = 0 /\ D[2] = 0 /\ D[3] = 0 /\ D[4] = 0 => First(5)
    OBVIOUS
  <2> HIDE DEF First
  <2> QED BY <2>1, <2>2, <2>3, <2>4, <2>5
<1>3. f \in 1 .. 5 /\ First(f)
  <2> HIDE DEF First
  <2> QED BY <1>2
<1> HIDE DEF f
<1> QED
  BY <1>1, <1>3, Zenon DEF D

LEMMA NumeralWritten ==
    ASSUME NEW n, NEW D \in Seq(Nat), D = Digits(n), Len(D) = 5
    PROVE  Numeral(uint16_to_str(n), ByPlaces(D))
<1>1. PICK f \in 1 .. 5 :
            /\ uint16_to_str(n) = SubSeq(D, f, 5)
            /\ f = 5 \/ D[f] # 0
            /\ \A k \in 1 .. f - 1 : D[k] = 0
  BY Written16, Zenon
<1>2. Numeral(SubSeq(D, f, 5), ByPlaces(D))
  BY <1>1, NumeralFrom, Zenon
<1> QED
  BY <1>1, <1>2, Zenon

LEMMA NumberWritten ==
    ASSUME NEW n \in Nat, n < 100000
    PROVE  Numeral(uint16_to_str(n), n)
<1>1. PICK D \in Seq(Nat) : D = Digits(n)
  BY DigitsAre, SMT
<1>2. Len(D) = 5 /\ n = ByPlaces(D)
  BY <1>1, DigitsAre, SMT DEF ByPlaces
<1>3. Numeral(uint16_to_str(n), ByPlaces(D))
  BY <1>1, <1>2, NumeralWritten, SMT
<1> QED
  BY <1>2, <1>3, SMT

\* The order of the versions is that of their weights.
LEMMA VersionOrder ==
    ASSUME NEW old \in [1 .. 3 -> Octets], NEW new \in [1 .. 3 -> Octets]
    PROVE  /\ version_cmp(old, new) > 0 <=> Weight(new) > Weight(old)
           /\ version_cmp(old, new) = 0 <=> new = old
<1>1. \A o \in Octets : o \in Nat /\ o < 256
  BY HelpersAssumption, SMT
<1>2. PICK a \in Nat, b \in Nat, c \in Nat :
          a = old[1] /\ b = old[2] /\ c = old[3] /\ a < 256 /\ b < 256 /\ c < 256
  BY <1>1
<1>3. PICK d \in Nat, e \in Nat, f \in Nat :
          d = new[1] /\ e = new[2] /\ f = new[3] /\ d < 256 /\ e < 256 /\ f < 256
  BY <1>1
<1>4. version_cmp(old, new) = IF d # a THEN d - a ELSE IF e # b THEN e - b ELSE f - c
  BY <1>2, <1>3 DEF version_cmp
<1>5. /\ Weight(old) = (a * 256 + b) * 256 + c
      /\ Weight(new) = (d * 256 + e) * 256 + f
  BY <1>2, <1>3, SMT DEF Weight
<1>6. new = old <=> d = a /\ e = b /\ f = c
  <2>1. \A i \in 1 .. 3 : i = 1 \/ i = 2 \/ i = 3
    OBVIOUS
  <2>2. d = a /\ e = b /\ f = c => \A i \in 1 .. 3 : new[i] = old[i]
    BY <1>2, <1>3, <2>1
  <2>3. (\A i \in 1 .. 3 : new[i] = old[i]) => new = old
    OBVIOUS
  <2> QED BY <1>2, <1>3, <2>2, <2>3
<1>7. (d * 256 + e) * 256 + f > (a * 256 + b) * 256 + c
      <=> d > a \/ (d = a /\ (e > b \/ (e = b /\ f > c)))
  BY <1>2, <1>3, SMT
<1>8. CASE d # a
  BY <1>4, <1>5, <1>6, <1>7, <1>8, SMT
<1>9. CASE d = a /\ e # b
  BY <1>4, <1>5, <1>6, <1>7, <1>9, SMT
<1>10. CASE d = a /\ e = b
  BY <1>4, <1>5, <1>6, <1>7, <1>10, SMT
<1> QED
  BY <1>8, <1>9, <1>10

-----------------------------------------------------------------------------
(* Numbers in hexadecimal.                                                 *)

LEMMA FunctionSeq ==
    ASSUME NEW T, NEW n \in Nat, NEW g \in [1 .. n -> T]
    PROVE  g \in Seq(T) /\ Len(g) = n
  OBVIOUS

LEMMA Ending ==
    ASSUME NEW m \in Seq(Nat), NEW f \in 1 .. Len(m)
    PROVE  /\ SubSeq(m, f, Len(m)) \in Seq(Nat) /\ Len(SubSeq(m, f, Len(m))) = Len(m) - f + 1
           /\ \A i \in 1 .. Len(m) - f + 1 : SubSeq(m, f, Len(m))[i] = m[f + i - 1]
<1>1. Len(m) \in Nat
  OBVIOUS
<1> QED
  BY <1>1

LEMMA NibblesAre ==
    ASSUME NEW num \in [1 .. 8 -> 0 .. 15]
    PROVE  num \in Seq(Nat) /\ Len(num) = 8 /\ \A i \in 1 .. 8 : num[i] \in 0 .. 15
<1>1. \A i \in 1 .. 8 : num[i] \in 0 .. 15
  BY Zenon
<1>2. \A x \in 0 .. 15 : x \in Nat
  OBVIOUS
<1>3. 8 \in Nat
  OBVIOUS
<1>4. PICK g \in [1 .. 8 -> Nat] : g = num
  BY <1>1, <1>2, Zenon
<1>5. g \in Seq(Nat) /\ Len(g) = 8
  BY <1>3, FunctionSeq
<1> QED
  BY <1>1, <1>4, <1>5, Zenon

\* The eight nibbles, two by two, are the number's bytes in hexadecimal.
LEMMA PairsAre ==
    ASSUME NEW num \in [1 .. 8 -> 0 .. 15]
    PROVE  /\ FlattenSeq([i \in 1 .. 4 |->
                  uint8_to_hex_str(16 * num[2 * i - 1] + num[2 * i])]) \in Seq(Nat)
           /\ Len(FlattenSeq([i \in 1 .. 4 |->
                  uint8_to_hex_str(16 * num[2 * i - 1] + num[2 * i])])) = 8
           /\ \A k \in 1 .. 8 : FlattenSeq([i \in 1 .. 4 |->
                  uint8_to_hex_str(16 * num[2 * i - 1] + num[2 * i])])[k] = num[k]
<1> DEFINE q(i) == uint8_to_hex_str(16 * num[2 * i - 1] + num[2 * i])
           p == [i \in 1 .. 4 |-> q(i)]
<1>1. \A a, b \in 0 .. 15 : uint8_to_hex_str(16 * a + b) = <<a, b>>
  <2> SUFFICES ASSUME NEW a \in 0 .. 15, NEW b \in 0 .. 15
               PROVE  uint8_to_hex_str(16 * a + b) = <<a, b>>
    OBVIOUS
  <2>1. (16 * a + b) \div 16 = a /\ (16 * a + b) % 16 = b
    BY SMT
  <2> QED BY <2>1, Zenon DEF uint8_to_hex_str
<1>2. ASSUME NEW i \in 1 .. 4
      PROVE  /\ q(i) \in Seq(Nat) /\ Len(q(i)) = 2
             /\ q(i)[1] = num[2 * i - 1] /\ q(i)[2] = num[2 * i]
  <2>1. 2 * i - 1 \in 1 .. 8 /\ 2 * i \in 1 .. 8
    OBVIOUS
  <2>2. PICK a \in 0 .. 15, b \in 0 .. 15 : a = num[2 * i - 1] /\ b = num[2 * i]
    BY <2>1, NibblesAre, Zenon
  <2>3. q(i) = <<a, b>>
    BY <1>1, <2>2, Zenon
  <2>4. PICK w : w = q(i)
    BY Zenon
  <2>5. w = <<a, b>>
    BY <2>3, <2>4, Zenon
  <2>6. w \in Seq(Nat) /\ Len(w) = 2 /\ w[1] = a /\ w[2] = b
    BY <2>5
  <2> QED BY <2>2, <2>4, <2>6, Zenon
<1> HIDE DEF q
<1>3. /\ p \in Seq(Seq(Nat)) /\ Len(p) = 4
      /\ \A i \in 1 .. 4 : p[i] = q(i)
  BY <1>2
<1>4. PICK r \in Seq(Seq(Nat)) : r = p
  BY <1>3
<1>5. Len(r) = 4 /\ \A i \in 1 .. 4 : r[i] = q(i)
  BY <1>3, <1>4
<1>6. PICK f : f = FlattenSeq(r)
  BY Zenon
<1>7. f \in Seq(Nat)
  BY <1>6, FlattenType
<1> DEFINE Pair(i) == /\ Len(Joined(r, i)) = Len(Joined(r, i - 1)) + 2
                      /\ f[Len(Joined(r, i - 1)) + 1] = num[2 * i - 1]
                      /\ f[Len(Joined(r, i - 1)) + 2] = num[2 * i]
<1>8. ASSUME NEW i \in 1 .. 4
      PROVE  Pair(i)
  <2>1. i \in 1 .. Len(r)
    BY <1>5
  <2>2. /\ Len(Joined(r, i)) = Len(Joined(r, i - 1)) + Len(r[i])
        /\ \A k \in 1 .. Len(r[i]) : f[Len(Joined(r, i - 1)) + k] = r[i][k]
    BY <1>6, <2>1, JoinedInside
  <2>3. Len(r[i]) = 2 /\ r[i][1] = num[2 * i - 1] /\ r[i][2] = num[2 * i]
    BY <1>2, <1>5
  <2>4. 1 \in 1 .. 2 /\ 2 \in 1 .. 2
    OBVIOUS
  <2> QED BY <2>2, <2>3, <2>4, Zenon
<1>9. Len(Joined(r, 0)) = 0
  <2>1. Joined(r, 0) = <<>>
    BY JoinedNone
  <2> QED BY <2>1
<1>10. Len(Joined(r, 1)) = 2 /\ f[1] = num[1] /\ f[2] = num[2]
  <2>1. Pair(1)
    <3> HIDE DEF Pair
    <3>1. 1 \in 1 .. 4
      OBVIOUS
    <3> QED BY <1>8, <3>1, Zenon
  <2>2. /\ 1 - 1 = 0 /\ 0 + 2 = 2 /\ 0 + 1 = 1
        /\ 2 * 1 - 1 = 1 /\ 2 * 1 = 2
    OBVIOUS
  <2> QED BY <1>9, <2>1, <2>2, Zenon
<1>11. Len(Joined(r, 2)) = 4 /\ f[3] = num[3] /\ f[4] = num[4]
  <2>1. Pair(2)
    <3> HIDE DEF Pair
    <3>1. 2 \in 1 .. 4
      OBVIOUS
    <3> QED BY <1>8, <3>1, Zenon
  <2>2. /\ 2 - 1 = 1 /\ 2 + 2 = 4 /\ 2 + 1 = 3
        /\ 2 * 2 - 1 = 3 /\ 2 * 2 = 4
    OBVIOUS
  <2> QED BY <1>10, <2>1, <2>2, Zenon
<1>12. Len(Joined(r, 3)) = 6 /\ f[5] = num[5] /\ f[6] = num[6]
  <2>1. Pair(3)
    <3> HIDE DEF Pair
    <3>1. 3 \in 1 .. 4
      OBVIOUS
    <3> QED BY <1>8, <3>1, Zenon
  <2>2. /\ 3 - 1 = 2 /\ 4 + 2 = 6 /\ 4 + 1 = 5
        /\ 2 * 3 - 1 = 5 /\ 2 * 3 = 6
    OBVIOUS
  <2> QED BY <1>11, <2>1, <2>2, Zenon
<1>13. Len(Joined(r, 4)) = 8 /\ f[7] = num[7] /\ f[8] = num[8]
  <2>1. Pair(4)
    <3> HIDE DEF Pair
    <3>1. 4 \in 1 .. 4
      OBVIOUS
    <3> QED BY <1>8, <3>1, Zenon
  <2>2. /\ 4 - 1 = 3 /\ 6 + 2 = 8 /\ 6 + 1 = 7
        /\ 2 * 4 - 1 = 7 /\ 2 * 4 = 8
    OBVIOUS
  <2> QED BY <1>12, <2>1, <2>2, Zenon
<1>14. Len(f) = 8
  BY <1>5, <1>6, <1>13, JoinedAll
<1>16. \A k \in 1 .. 8 : f[k] = num[k]
  BY <1>10, <1>11, <1>12, <1>13
<1>17. f = FlattenSeq([i \in 1 .. 4 |-> uint8_to_hex_str(16 * num[2 * i - 1] + num[2 * i])])
  BY <1>4, <1>6, Zenon DEF q
<1> QED
  BY <1>7, <1>14, <1>16, <1>17, Zenon

\* Where the hexadecimal number starts, and that what is before it is 0.
LEMMA HexStart ==
    ASSUME NEW num \in [1 .. 8 -> 0 .. 15], NEW pad \in 0 .. 8
    PROVE  \E f \in 1 .. 8 :
              /\ uint32_to_hex_str(num, pad) = SubSeq(num, f, 8)
              /\ \A k \in 1 .. f - 1 : num[k] = 0 /\ 8 - k >= pad
              /\ num[f] # 0 \/ 8 - f < pad \/ f = 8
<1> DEFINE written(i) == \/ \E k \in 1 .. i : num[k] # 0
                         \/ 8 - i < pad
                         \/ i = 8
           First(i) == written(i) /\ \A k \in 1 .. i - 1 : ~written(k)
           f == CHOOSE i \in 1 .. 8 : First(i)
<1>1. uint32_to_hex_str(num, pad) = SubSeq(num, f, 8)
  BY Zenon DEF uint32_to_hex_str
<1>2. \E i \in 1 .. 8 : First(i)
  <2> DEFINE W == {i \in 1 .. 8 : written(i)}
  <2>1. W \in SUBSET Nat /\ 8 \in W
    <3>1. 8 \in 1 .. 8 /\ \A i \in 1 .. 8 : i \in Nat
      OBVIOUS
    <3>2. written(8)
      OBVIOUS
    <3> HIDE DEF written
    <3> QED BY <3>1, <3>2
  <2> HIDE DEF written
  <2>2. PICK i \in W : \A k \in W : i <= k
    <3> HIDE DEF W
    <3> QED BY <2>1, LeastNumber
  <2>3. i \in 1 .. 8 /\ written(i)
    BY <2>2
  <2>4. ASSUME NEW k \in 1 .. i - 1
        PROVE  ~written(k)
    <3>1. k \in 1 .. 8 /\ ~(i <= k)
      BY <2>3
    <3> QED BY <2>2, <3>1
  <2> QED BY <2>3, <2>4
<1>3. f \in 1 .. 8 /\ First(f)
  <2> HIDE DEF First
  <2> QED BY <1>2
<1> HIDE DEF f
<1>4. ASSUME NEW k \in 1 .. f - 1
      PROVE  num[k] = 0 /\ 8 - k >= pad
  <2>1. ~written(k) /\ k \in 1 .. k /\ k \in Nat
    BY <1>3
  <2> QED BY <2>1
<1>5. num[f] # 0 \/ 8 - f < pad \/ f = 8
  <2>1. CASE \E k \in 1 .. f : num[k] # 0
    <3>1. PICK k \in 1 .. f : num[k] # 0
      BY <2>1
    <3>2. k = f \/ k \in 1 .. f - 1
      BY <1>3
    <3> QED BY <1>4, <3>1, <3>2
  <2> QED BY <1>3, <2>1
<1> QED
  BY <1>1, <1>3, <1>4, <1>5

LEMMA HexWritten ==
    ASSUME NEW num \in [1 .. 8 -> 0 .. 15], NEW pad \in 0 .. 8
    PROVE  HexNumeral(uint32_to_hex_str(num, pad), num, pad)
<1>1. PICK f \in 1 .. 8 :
            /\ uint32_to_hex_str(num, pad) = SubSeq(num, f, 8)
            /\ \A k \in 1 .. f - 1 : num[k] = 0 /\ 8 - k >= pad
            /\ num[f] # 0 \/ 8 - f < pad \/ f = 8
  BY HexStart
<1>2. PICK s : s = uint32_to_hex_str(num, pad)
  BY Zenon
<1>3. PICK m \in Seq(Nat) : m = num
  <2>1. num \in Seq(Nat)
    BY NibblesAre, Zenon
  <2> QED BY <2>1, Zenon
<1>4. Len(m) = 8 /\ \A i \in 1 .. 8 : m[i] = num[i] /\ num[i] \in Nat
  <2>1. \A x \in 0 .. 15 : x \in Nat
    OBVIOUS
  <2> QED BY <1>3, <2>1, NibblesAre, Zenon
<1>5. /\ s \in Seq(Nat) /\ Len(s) = 9 - f
      /\ \A i \in 1 .. 9 - f : s[i] = num[f + i - 1]
  <2>1. s = SubSeq(m, f, 8)
    BY <1>1, <1>2, <1>3, Zenon
  <2>2. f \in 1 .. Len(m) /\ s = SubSeq(m, f, Len(m))
    BY <1>4, <2>1
  <2>3. /\ s \in Seq(Nat) /\ Len(s) = Len(m) - f + 1
        /\ \A i \in 1 .. Len(m) - f + 1 : s[i] = m[f + i - 1]
    BY <2>2, Ending, Zenon
  <2>4. /\ s \in Seq(Nat) /\ Len(s) = 8 - f + 1
        /\ \A i \in 1 .. 8 - f + 1 : s[i] = m[f + i - 1]
    BY <1>4, <2>3
  <2>5. \A i \in 1 .. 9 - f : i \in 1 .. 8 - f + 1 /\ f + i - 1 \in 1 .. 8
    OBVIOUS
  <2>6. \A i \in 1 .. 9 - f : s[i] = num[f + i - 1]
    BY <1>4, <2>4, <2>5, Zenon
  <2> QED BY <2>4, <2>6, SMT
<1>6. \A i \in 1 .. 8 : num[i] = IF i <= 8 - Len(s) THEN 0 ELSE s[i - 8 + Len(s)]
  <2> SUFFICES ASSUME NEW i \in 1 .. 8
               PROVE  num[i] = IF i <= 8 - Len(s) THEN 0 ELSE s[i - 8 + Len(s)]
    OBVIOUS
  <2>1. CASE i < f
    BY <1>1, <1>5, <2>1
  <2>2. CASE i >= f
    <3>1. i - 8 + Len(s) = i - f + 1 /\ i - f + 1 \in 1 .. 9 - f /\ ~(i <= 8 - Len(s))
      BY <1>5, <2>2
    <3>2. s[i - f + 1] = num[i]
      BY <1>5, <3>1
    <3> QED BY <3>1, <3>2
  <2> QED BY <2>1, <2>2
<1>7. Len(s) >= pad
  <2>1. f > 1 => f - 1 \in 1 .. f - 1 /\ 8 - (f - 1) >= pad
    BY <1>1
  <2> QED BY <1>5, <2>1
<1>8. s # <<>>
  BY <1>5
<1>9. Len(s) > pad => s[1] # 0 \/ Len(s) = 1
  <2>1. s[1] = num[f]
    BY <1>5
  <2> QED BY <1>1, <1>5, <2>1
<1>10. pad = 8 => s = FlattenSeq([i \in 1 .. 4 |->
                          uint8_to_hex_str(16 * num[2 * i - 1] + num[2 * i])])
  <2> SUFFICES ASSUME pad = 8
               PROVE  s = FlattenSeq([i \in 1 .. 4 |->
                          uint8_to_hex_str(16 * num[2 * i - 1] + num[2 * i])])
    OBVIOUS
  <2>1. PICK t : t = FlattenSeq([i \in 1 .. 4 |->
                          uint8_to_hex_str(16 * num[2 * i - 1] + num[2 * i])])
    BY Zenon
  <2>2. t \in Seq(Nat) /\ Len(t) = 8 /\ \A k \in 1 .. 8 : t[k] = num[k]
    BY <2>1, PairsAre, Zenon
  <2>3. f = 1
    BY <1>5, <1>7
  <2>4. Len(s) = 8 /\ \A k \in 1 .. 8 : s[k] = num[k]
    BY <1>5, <2>3
  <2>5. s = t
    BY <1>5, <2>2, <2>4, SeqEqual
  <2> QED BY <2>1, <2>5, Zenon
<1>11. HexNumeral(s, num, pad)
  BY <1>6, <1>7, <1>8, <1>9, <1>10, Zenon DEF HexNumeral
<1> QED
  BY <1>2, <1>11, Zenon

-----------------------------------------------------------------------------
(* Numbers and versions.                                                   *)

LEMMA NumbersOfGiven ==
    ASSUME Given
    PROVE  NumbersRead
<1>1. ASSUME given.to = "number"
      PROVE  Numeral(uint16_to_str(given.args), given.args)
  <2>1. given.args \in 0 .. Word - 1
    <3>1. given.args \in Numbers
      BY <1>1, Zenon DEF Given
    <3>2. Numbers \subseteq 0 .. Word - 1
      BY HelpersAssumption, Zenon
    <3> QED BY <3>1, <3>2, Zenon
  <2>2. given.args \in Nat /\ given.args < 100000
    BY <2>1, WordIs, SMT
  <2> QED BY <2>2, NumberWritten, SMT
<1>2. ASSUME given.to = "hex"
      PROVE  HexNumeral(uint32_to_hex_str(given.args[1], given.args[2]),
                        given.args[1], given.args[2])
  <2>1. given.args[1] \in [1 .. 8 -> Nibbles] /\ given.args[2] \in 0 .. 8
    BY <1>2, Zenon DEF Given
  <2>2. given.args[1] \in [1 .. 8 -> 0 .. 15]
    BY <2>1, HelpersAssumption, Zenon
  <2> QED BY <2>1, <2>2, HexWritten, Zenon
<1>3. ASSUME given.to = "versions"
      PROVE  LET old == given.args[1]
                 new == given.args[2]
             IN  /\ version_cmp(old, new) > 0 <=> Weight(new) > Weight(old)
                 /\ version_cmp(old, new) = 0 <=> new = old
  <2>1. given.args[1] \in [1 .. 3 -> Octets] /\ given.args[2] \in [1 .. 3 -> Octets]
    BY <1>3, Zenon DEF Given
  <2> QED BY <2>1, VersionOrder, Zenon
<1> QED
  BY <1>1, <1>2, <1>3, Zenon DEF NumbersRead

\* Every number of 16 bits is written as its numeral, every number of 32 bits as
\* its hexadecimal numeral of at least the digits asked for, and versions are
\* ordered by their numbers (uint16_to_str(), uint32_to_hex_str(), version_cmp()).
THEOREM NumbersAreRead == Spec => []NumbersRead
<1>1. Given => NumbersRead
  BY NumbersOfGiven
<1> QED
  BY <1>1, GivenAlways, PTL

-----------------------------------------------------------------------------
(* The pool, in the run of the helpers.                                    *)

LEMMA PoolOfHelpers == Spec => PoolSpec
<1>1. Init => PoolInit
  BY DEF Init
<1>2. [Next]_vars => [PoolNext]_poolVars
  BY Zenon DEF Next, vars, PoolRuns, Address, Number, Hex, Versions, Request, Servers, Scan,
               Give
<1> QED
  BY <1>1, <1>2, PTL DEF Spec, PoolSpec

-----------------------------------------------------------------------------
(* The strings of a message.                                               *)

LEMMA WiderSeq ==
    ASSUME NEW S, NEW T, S \subseteq T, NEW s \in Seq(S)
    PROVE  s \in Seq(T) /\ \A k \in 1 .. Len(s) : s[k] \in S
  OBVIOUS

\* No string holds a terminator.
LEMMA StringsAre ==
    ASSUME NEW s \in Strings
    PROVE  s \in Seq(Nat) /\ \A k \in 1 .. Len(s) : s[k] # Nul
<1>1. \A x \in 1 .. 255 : x \in Nat /\ x # Nul
  BY SMT DEF Nul
<1>2. s \in Seq(1 .. 255)
  BY HelpersAssumption, Zenon
<1>3. 1 .. 255 \subseteq Nat
  BY <1>1, Zenon
<1>4. s \in Seq(Nat) /\ \A k \in 1 .. Len(s) : s[k] \in 1 .. 255
  BY <1>2, <1>3, WiderSeq, Zenon
<1> QED
  BY <1>1, <1>4, Zenon

\* A string ends at the first terminator.
LEMMA StringIs ==
    ASSUME NEW in \in Seq(Nat), NEW i \in Nat \ {0}, NEW s \in Seq(Nat),
           \A k \in 1 .. Len(s) : s[k] # Nul /\ in[i + k - 1] = s[k],
           i + Len(s) <= Len(in), in[i + Len(s)] = Nul
    PROVE  StringAt(in, i) = s
<1> DEFINE N == {j \in i .. Len(in) : in[j] = Nul}
           e == i + Len(s)
<1>1. Len(s) \in Nat /\ Len(in) \in Nat /\ e \in Nat /\ i \in Nat /\ i >= 1
  OBVIOUS
<1>2. e \in N
  BY <1>1
<1>3. \A j \in N : e <= j
  <2> SUFFICES ASSUME NEW j \in N, ~(e <= j)
               PROVE  FALSE
    OBVIOUS
  <2>1. j \in Nat /\ i <= j /\ in[j] = Nul
    BY <1>1
  <2>2. j - i + 1 \in 1 .. Len(s) /\ i + (j - i + 1) - 1 = j
    BY <1>1, <2>1
  <2>3. s[j - i + 1] # Nul /\ in[i + (j - i + 1) - 1] = s[j - i + 1]
    BY <2>2
  <2> QED BY <2>1, <2>2, <2>3
<1>4. Min(N) = e
  <2>1. \A j \in N : j \in Int
    BY <1>1
  <2> HIDE DEF N, e
  <2>2. \A x \in N : (\A y \in N : x <= y) => x = e
    <3> SUFFICES ASSUME NEW x \in N, x <= e
                 PROVE  x = e
      BY <1>2
    <3> QED BY <1>1, <1>2, <1>3, <2>1
  <2> QED BY <1>2, <1>3, <2>2, Zenon DEF Min
<1>5. StringAt(in, i) = SubSeq(in, i, e - 1)
  <2> HIDE DEF e
  <2> QED BY <1>4, Zenon DEF StringAt
<1>6. SubSeq(in, (i - 1) + 1, (i - 1) + Len(s)) = s
  <2>1. i - 1 \in Nat /\ (i - 1) + Len(s) <= Len(in)
    BY <1>1
  <2>2. \A k \in 1 .. Len(s) : in[(i - 1) + k] = s[k]
    BY <1>1
  <2> QED BY <1>1, <2>1, <2>2, PartIs
<1>7. (i - 1) + 1 = i /\ (i - 1) + Len(s) = e - 1
  BY <1>1
<1> QED
  BY <1>5, <1>6, <1>7, Zenon

\* Where the token behind the one at p begins, 0 if there is none.
NextToken(in, p) == IF p = 0 \/ StringAt(in, p) = <<>> THEN 0 ELSE After(in, p)

TokenAt(in, p) == IF p = 0 THEN Null ELSE StringAt(in, p)

\* The four tokens are taken one after the other.
LEMMA TokensAre ==
    ASSUME NEW in, NEW p1, p1 = 1, NEW p2, p2 = NextToken(in, p1),
           NEW p3, p3 = NextToken(in, p2), NEW p4, p4 = NextToken(in, p3)
    PROVE  /\ tokens_get(in)[1] = TokenAt(in, p1)
           /\ tokens_get(in)[2] = TokenAt(in, p2)
           /\ tokens_get(in)[3] = TokenAt(in, p3)
           /\ tokens_get(in)[4] = TokenAt(in, p4)
<1> DEFINE Body(h, i) == IF i = 1 THEN 1
                         ELSE IF h[i - 1] = 0 \/ StringAt(in, h[i - 1]) = <<>> THEN 0
                         ELSE After(in, h[i - 1])
           Rec(h) == h = [i \in 1 .. 4 |-> Body(h, i)]
           at == CHOOSE h : Rec(h)
           a == [i \in 1 .. 4 |-> IF i = 1 THEN p1 ELSE IF i = 2 THEN p2
                                  ELSE IF i = 3 THEN p3 ELSE p4]
<1>1. tokens_get(in) = [i \in 1 .. 4 |-> IF at[i] = 0 THEN Null ELSE StringAt(in, at[i])]
  BY Zenon DEF tokens_get
<1>2. /\ 1 \in 1 .. 4 /\ 2 \in 1 .. 4 /\ 3 \in 1 .. 4 /\ 4 \in 1 .. 4
      /\ 2 # 1 /\ 3 # 1 /\ 4 # 1 /\ 3 # 2 /\ 4 # 2 /\ 4 # 3
      /\ 2 - 1 = 1 /\ 3 - 1 = 2 /\ 4 - 1 = 3
      /\ \A i \in 1 .. 4 : i = 1 \/ i = 2 \/ i = 3 \/ i = 4
  OBVIOUS
<1>3. a[1] = p1 /\ a[2] = p2 /\ a[3] = p3 /\ a[4] = p4
  BY <1>2, Zenon
<1>4. /\ \A h : Body(h, 1) = 1
      /\ \A h : Body(h, 2) = NextToken(in, h[1])
      /\ \A h : Body(h, 3) = NextToken(in, h[2])
      /\ \A h : Body(h, 4) = NextToken(in, h[3])
  BY <1>2, Zenon DEF NextToken
<1>5. Rec(a)
  <2> HIDE DEF Body
  <2>1. \A i \in 1 .. 4 : a[i] = Body(a, i)
    <3> HIDE DEF a
    <3> QED BY <1>2, <1>3, <1>4, Zenon
  <2>2. a = [i \in 1 .. 4 |-> a[i]]
    BY Zenon
  <2> HIDE DEF a
  <2> QED BY <2>1, <2>2, Zenon
<1>6. Rec(at)
  <2> HIDE DEF Rec, a
  <2> QED BY <1>5, Zenon
<1> HIDE DEF at
<1>7. \A i \in 1 .. 4 : at[i] = Body(at, i)
  <2> HIDE DEF Body
  <2> QED BY <1>6, Zenon
<1>8. at[1] = p1 /\ at[2] = p2 /\ at[3] = p3 /\ at[4] = p4
  <2> HIDE DEF Body
  <2>1. at[1] = p1
    BY <1>2, <1>4, <1>7, Zenon
  <2>2. at[2] = p2
    BY <1>2, <1>4, <1>7, <2>1, Zenon
  <2>3. at[3] = p3
    BY <1>2, <1>4, <1>7, <2>2, Zenon
  <2>4. at[4] = p4
    BY <1>2, <1>4, <1>7, <2>3, Zenon
  <2> QED BY <2>1, <2>2, <2>3, <2>4
<1>9. \A i \in 1 .. 4 : tokens_get(in)[i] = TokenAt(in, at[i])
  BY <1>1, Zenon DEF TokenAt
<1> QED
  BY <1>2, <1>8, <1>9, Zenon

\* Strings one after the other, each with its terminator, and one terminator more.
Ends(r, strs) == /\ r \in Seq(Seq(Nat)) /\ Len(r) = Len(strs)
                 /\ \A k \in 1 .. Len(strs) : r[k] = Terminated(strs[k])

LEMMA TerminatedIs ==
    ASSUME NEW s \in Seq(Nat)
    PROVE  /\ Terminated(s) \in Seq(Nat) /\ Len(Terminated(s)) = Len(s) + 1
           /\ \A k \in 1 .. Len(s) : Terminated(s)[k] = s[k]
           /\ Terminated(s)[Len(s) + 1] = Nul
  BY DEF Terminated, Nul

\* The k-th of them is t and stands at b + 1 of all, f.
Inside(r, k, t, b, f) ==
    /\ Len(Joined(r, k)) = b + Len(t)
    /\ Len(Joined(r, k)) <= Len(f)
    /\ \A j \in 1 .. Len(t) : f[b + j] = t[j]

LEMMA InsideIs ==
    ASSUME NEW T, NEW r \in Seq(Seq(T)), NEW k \in 1 .. Len(r)
    PROVE  Inside(r, k, r[k], Len(Joined(r, k - 1)), FlattenSeq(r))
  BY JoinedInside DEF Inside

\* They are read where they stand, behind a head of x bytes.
Stand(strs, r, x, in) ==
    /\ \A k \in 1 .. Len(strs) :
          /\ StringAt(in, x + Len(Joined(r, k - 1)) + 1) = strs[k]
          /\ Len(Joined(r, k)) = Len(Joined(r, k - 1)) + Len(strs[k]) + 1
    /\ StringAt(in, x + Len(Joined(r, Len(strs))) + 1) = <<>>
    /\ \A k \in 0 .. Len(strs) : Len(Joined(r, k)) \in Nat

Sends(strs, r, x, in) ==
    /\ \A k \in 1 .. Len(strs) : \A j \in 1 .. Len(strs[k]) : strs[k][j] # Nul
    /\ Ends(r, strs)
    /\ in \in Seq(Nat)
    /\ Len(in) = x + Len(FlattenSeq(r)) + 1
    /\ \A k \in 1 .. Len(FlattenSeq(r)) : in[x + k] = FlattenSeq(r)[k]
    /\ in[x + Len(FlattenSeq(r)) + 1] = Nul

LEMMA MessageBehind ==
    ASSUME NEW strs \in Seq(Seq(Nat)), NEW r, NEW x \in Nat, NEW in, Sends(strs, r, x, in)
    PROVE  Stand(strs, r, x, in)
<1>1. r \in Seq(Seq(Nat)) /\ Len(r) = Len(strs) /\ Len(strs) \in Nat
  BY DEF Ends, Sends
<1>2. PICK f \in Seq(Nat) : f = FlattenSeq(r)
  BY <1>1, FlattenType
<1>3. PICK n \in Nat : n = Len(f)
  BY <1>2
<1>4. /\ Len(in) = x + n + 1
      /\ \A k \in 1 .. n : in[x + k] = f[k]
      /\ in[x + n + 1] = Nul
      /\ in \in Seq(Nat)
  BY <1>2, <1>3, Zenon DEF Sends
<1>5. \A k \in 0 .. Len(strs) : Joined(r, k) \in Seq(Nat) /\ Len(Joined(r, k)) \in Nat
  BY <1>1, JoinedType
<1>6. ASSUME NEW k \in 1 .. Len(strs)
      PROVE  /\ StringAt(in, x + Len(Joined(r, k - 1)) + 1) = strs[k]
             /\ Len(Joined(r, k)) = Len(Joined(r, k - 1)) + Len(strs[k]) + 1
  <2>1. k \in 1 .. Len(r) /\ k - 1 \in 0 .. Len(strs) /\ r[k] = Terminated(strs[k])
    BY <1>1 DEF Ends, Sends
  <2>2. PICK s \in Seq(Nat) : s = strs[k]
    OBVIOUS
  <2>3. PICK t : t = r[k]
    BY Zenon
  <2>4. PICK m \in Nat :
           /\ m = Len(s) /\ t \in Seq(Nat) /\ Len(t) = m + 1
           /\ \A j \in 1 .. m : t[j] = s[j]
           /\ t[m + 1] = Nul
    <3>1. t = Terminated(s)
      BY <2>1, <2>2, <2>3, Zenon
    <3>2. Len(s) \in Nat
      OBVIOUS
    <3> QED BY <3>1, <3>2, TerminatedIs, Zenon
  <2>5. PICK b \in Nat : b = Len(Joined(r, k - 1))
    BY <1>5, <2>1
  <2>6. PICK e \in Nat : e = x + b + 1
    OBVIOUS
  <2>7. /\ Len(Joined(r, k)) = b + Len(t)
        /\ Len(Joined(r, k)) <= n
        /\ \A j \in 1 .. Len(t) : f[b + j] = t[j]
    <3>1. Inside(r, k, r[k], Len(Joined(r, k - 1)), FlattenSeq(r))
      BY <1>1, <2>1, InsideIs, Zenon
    <3>2. Inside(r, k, t, b, f)
      BY <1>2, <2>3, <2>5, <3>1, Zenon
    <3> QED BY <1>2, <1>3, <3>2, Zenon DEF Inside
  <2>8. Len(Joined(r, k)) = b + m + 1 /\ b + m + 1 <= n
    <3>1. b + Len(t) = b + m + 1
      BY <2>4
    <3> QED BY <2>7, <3>1, Zenon
  <2>9. \A j \in 1 .. m : s[j] # Nul /\ in[e + j - 1] = s[j]
    <3> SUFFICES ASSUME NEW j \in 1 .. m
                 PROVE  s[j] # Nul /\ in[e + j - 1] = s[j]
      OBVIOUS
    <3>1. /\ e + j - 1 = x + (b + j) /\ b + j \in 1 .. n /\ j \in 1 .. Len(t)
      BY <2>4, <2>6, <2>8
    <3>2. s[j] # Nul
      BY <2>2, <2>4, Zenon DEF Sends
    <3>3. in[x + (b + j)] = f[b + j]
      BY <1>4, <3>1, Zenon
    <3>4. f[b + j] = t[j]
      BY <2>7, <3>1, Zenon
    <3>5. t[j] = s[j]
      BY <2>4, Zenon
    <3> QED BY <3>1, <3>2, <3>3, <3>4, <3>5, Zenon
  <2>10. in[e + m] = Nul /\ e + m <= Len(in)
    <3>1. /\ e + m = x + (b + (m + 1)) /\ b + (m + 1) \in 1 .. n /\ m + 1 \in 1 .. Len(t)
          /\ e + m <= x + n + 1
      <4>1. e + m = x + (b + (m + 1)) /\ b + (m + 1) \in 1 .. n /\ e + m <= x + n + 1
        BY <2>6, <2>8
      <4>2. m + 1 \in 1 .. m + 1
        OBVIOUS
      <4> QED BY <2>4, <4>1, <4>2, Zenon
    <3>2. in[x + (b + (m + 1))] = f[b + (m + 1)]
      BY <1>4, <3>1, Zenon
    <3>3. f[b + (m + 1)] = t[m + 1]
      BY <2>7, <3>1, Zenon
    <3> QED BY <1>4, <2>4, <3>1, <3>2, <3>3, Zenon
  <2>11. e \in Nat \ {0}
    BY <2>6
  <2>12. StringAt(in, e) = s
    <3>1. \A j \in 1 .. Len(s) : s[j] # Nul /\ in[e + j - 1] = s[j]
      BY <2>4, <2>9, Zenon
    <3>2. e + Len(s) <= Len(in) /\ in[e + Len(s)] = Nul
      BY <2>4, <2>10, Zenon
    <3> QED BY <1>4, <2>11, <3>1, <3>2, StringIs, Zenon
  <2> QED BY <2>2, <2>4, <2>5, <2>6, <2>8, <2>12, Zenon
<1>7. StringAt(in, x + Len(Joined(r, Len(strs))) + 1) = <<>>
  <2>1. Len(Joined(r, Len(strs))) = n
    BY <1>1, <1>2, <1>3, JoinedAll
  <2>2. PICK e \in Nat \ {0} : e = x + n + 1
    OBVIOUS
  <2>3. PICK s \in Seq(Nat) : s = <<>>
    <3>1. <<>> \in Seq(Nat)
      OBVIOUS
    <3> QED BY <3>1, Zenon
  <2>4. Len(s) = 0 /\ \A k \in 1 .. Len(s) : s[k] # Nul /\ in[e + k - 1] = s[k]
    BY <2>3
  <2>5. in[e + Len(s)] = Nul /\ e + Len(s) <= Len(in)
    <3>1. e + Len(s) = e /\ e <= e
      BY <2>4
    <3> QED BY <1>4, <2>2, <3>1, Zenon
  <2>6. StringAt(in, e) = s
    BY <1>4, <2>4, <2>5, StringIs, Zenon
  <2> QED BY <2>1, <2>2, <2>3, <2>6, Zenon
<1> QED
  BY <1>5, <1>6, <1>7, Zenon DEF Stand

LEMMA MessageIs ==
    ASSUME NEW strs \in Seq(Seq(Nat)),
           \A k \in 1 .. Len(strs) : \A j \in 1 .. Len(strs[k]) : strs[k][j] # Nul,
           NEW r, Ends(r, strs), NEW in, in = Terminated(FlattenSeq(r))
    PROVE  /\ \A k \in 1 .. Len(strs) :
                 /\ StringAt(in, Len(Joined(r, k - 1)) + 1) = strs[k]
                 /\ Len(Joined(r, k)) = Len(Joined(r, k - 1)) + Len(strs[k]) + 1
           /\ StringAt(in, Len(Joined(r, Len(strs))) + 1) = <<>>
           /\ \A k \in 0 .. Len(strs) : Len(Joined(r, k)) \in Nat
<1>1. r \in Seq(Seq(Nat)) /\ Len(strs) \in Nat
  BY DEF Ends
<1>2. PICK f \in Seq(Nat) : f = FlattenSeq(r)
  BY <1>1, FlattenType
<1>3. PICK n \in Nat : n = Len(f)
  OBVIOUS
<1>4. /\ in \in Seq(Nat) /\ Len(in) = n + 1
      /\ \A k \in 1 .. n : in[k] = f[k]
      /\ in[n + 1] = Nul
  BY <1>2, <1>3, TerminatedIs, Zenon
<1>5. 0 \in Nat /\ \A y \in Nat : 0 + y = y
  OBVIOUS
<1>6. \A k \in 1 .. n : k \in Nat
  OBVIOUS
<1>7. /\ Len(in) = 0 + Len(f) + 1
      /\ \A k \in 1 .. Len(f) : in[0 + k] = f[k]
      /\ in[0 + Len(f) + 1] = Nul
  BY <1>3, <1>4, <1>5, <1>6, Zenon
<1>8. Stand(strs, r, 0, in)
  <2>1. Sends(strs, r, 0, in)
    BY <1>2, <1>4, <1>7, Zenon DEF Sends
  <2> QED BY <1>5, <2>1, MessageBehind, Zenon
<1>9. /\ Len(strs) \in 0 .. Len(strs)
      /\ \A k \in 1 .. Len(strs) : k - 1 \in 0 .. Len(strs)
  BY <1>1
<1> QED
  BY <1>5, <1>8, <1>9, Zenon DEF Stand

\* The message of the time zone and the n servers before the first that is missing.
LEMMA CfgIs ==
    ASSUME NEW tz \in Strings, NEW server \in [1 .. 3 -> Strings \cup {Null}]
    PROVE  \E n \in 0 .. 3 :
              /\ n = 3 \/ server[n + 1] \in {Null, <<>>}
              /\ \A i \in 1 .. n : server[i] \notin {Null, <<>>}
              /\ SntpCfg(tz, server) = Terminated(FlattenSeq([i \in 1 .. n + 1 |->
                       Terminated(IF i = 1 THEN tz ELSE server[i - 1])]))
<1> DEFINE Before(n) == /\ n = 3 \/ server[n + 1] \in {Null, <<>>}
                        /\ \A i \in 1 .. n : server[i] \notin {Null, <<>>}
           m == CHOOSE n \in 0 .. 3 : Before(n)
<1>1. SntpCfg(tz, server) = Terminated(FlattenSeq([i \in 1 .. m + 1 |->
                       Terminated(IF i = 1 THEN tz ELSE server[i - 1])]))
  BY Zenon DEF SntpCfg
<1>2. \E n \in 0 .. 3 : Before(n)
  <2> DEFINE Bad(i) == server[i] \in {Null, <<>>}
  <2>1. CASE Bad(1)
    <3>1. Before(0)
      BY <2>1
    <3>2. 0 \in 0 .. 3
      OBVIOUS
    <3> HIDE DEF Before
    <3> QED BY <3>1, <3>2, Zenon
  <2>2. CASE ~Bad(1) /\ Bad(2)
    <3>1. Before(1)
      BY <2>2
    <3>2. 1 \in 0 .. 3
      OBVIOUS
    <3> HIDE DEF Before
    <3> QED BY <3>1, <3>2, Zenon
  <2>3. CASE ~Bad(1) /\ ~Bad(2) /\ Bad(3)
    <3>1. Before(2)
      BY <2>3
    <3>2. 2 \in 0 .. 3
      OBVIOUS
    <3> HIDE DEF Before
    <3> QED BY <3>1, <3>2, Zenon
  <2>4. CASE ~Bad(1) /\ ~Bad(2) /\ ~Bad(3)
    <3>1. Before(3)
      BY <2>4
    <3>2. 3 \in 0 .. 3
      OBVIOUS
    <3> HIDE DEF Before
    <3> QED BY <3>1, <3>2, Zenon
  <2> HIDE DEF Bad, Before
  <2> QED BY <2>1, <2>2, <2>3, <2>4, Zenon
<1>3. m \in 0 .. 3 /\ Before(m)
  <2> HIDE DEF Before
  <2> QED BY <1>2, Zenon
<1> HIDE DEF m
<1> QED
  BY <1>1, <1>3, Zenon

\* What is read back of this time zone and these servers.
ReadBack(tz, server) ==
    /\ tokens_get(SntpCfg(tz, server))[1] = tz
    /\ \A i \in 1 .. 3 :
          tokens_get(SntpCfg(tz, server))[i + 1] =
              IF ~Missing(tz, server, i) THEN server[i]
              ELSE IF Missing(tz, server, i - 1) THEN Null
              ELSE <<>>

LEMMA ServersRead ==
    ASSUME NEW tz \in Strings, NEW server \in [1 .. 3 -> Strings \cup {Null}]
    PROVE  ReadBack(tz, server)
<1>1. PICK n \in 0 .. 3 :
              /\ n = 3 \/ server[n + 1] \in {Null, <<>>}
              /\ \A i \in 1 .. n : server[i] \notin {Null, <<>>}
              /\ SntpCfg(tz, server) = Terminated(FlattenSeq([i \in 1 .. n + 1 |->
                       Terminated(IF i = 1 THEN tz ELSE server[i - 1])]))
  BY CfgIs
<1>2. n \in Nat /\ n <= 3
  OBVIOUS
<1> DEFINE q == [i \in 1 .. n + 1 |-> IF i = 1 THEN tz ELSE server[i - 1]]
<1>3. ASSUME NEW i \in 1 .. n + 1
      PROVE  /\ q[i] \in Strings
             /\ i > 1 => q[i] # <<>> /\ q[i] = server[i - 1]
  <2>1. CASE i = 1
    BY <2>1
  <2>2. CASE i # 1
    <3>1. q[i] = server[i - 1] /\ i - 1 \in 1 .. n /\ i - 1 \in 1 .. 3
      BY <1>2, <2>2
    <3>2. server[i - 1] \in Strings \cup {Null}
      BY <3>1, Zenon
    <3>3. server[i - 1] \notin {Null, <<>>}
      BY <1>1, <3>1, Zenon
    <3> QED BY <3>1, <3>2, <3>3, Zenon
  <2> QED BY <2>1, <2>2, Zenon
<1>4. q[1] = tz
  BY <1>2
<1> HIDE DEF q
<1>5. PICK strs \in Seq(Seq(Nat)) : strs = q /\ Len(strs) = n + 1
  <2>1. \A i \in 1 .. n + 1 : q[i] \in Seq(Nat)
    BY <1>3, StringsAre, Zenon
  <2>2. q \in [1 .. n + 1 -> Seq(Nat)]
    BY <2>1, Zenon DEF q
  <2>3. n + 1 \in Nat
    BY <1>2
  <2>4. q \in Seq(Seq(Nat)) /\ Len(q) = n + 1
    BY <2>2, <2>3, FunctionSeq, Zenon
  <2> QED BY <2>4, Zenon
<1>6. \A k \in 1 .. n + 1 : \A j \in 1 .. Len(strs[k]) : strs[k][j] # Nul
  BY <1>3, <1>5, StringsAre, Zenon
<1>7. \A k \in 1 .. n + 1 : k > 1 => strs[k] # <<>>
  BY <1>3, <1>5, Zenon
<1> DEFINE rr == [i \in 1 .. n + 1 |-> Terminated(IF i = 1 THEN tz ELSE server[i - 1])]
<1>8. PICK r : r = rr
  BY Zenon
<1>9. Ends(r, strs)
  <2>1. \A i \in 1 .. n + 1 : r[i] = Terminated(strs[i])
    BY <1>5, <1>8, Zenon DEF q
  <2>2. \A i \in 1 .. n + 1 : strs[i] \in Seq(Nat)
    BY <1>5
  <2>3. \A i \in 1 .. n + 1 : r[i] \in Seq(Nat)
    BY <2>1, <2>2, TerminatedIs, Zenon
  <2>4. r \in [1 .. n + 1 -> Seq(Nat)]
    BY <1>8, <2>3, Zenon
  <2>5. n + 1 \in Nat
    BY <1>2
  <2>6. r \in Seq(Seq(Nat)) /\ Len(r) = n + 1
    BY <2>4, <2>5, FunctionSeq, Zenon
  <2> QED BY <1>5, <2>1, <2>6, Zenon DEF Ends
<1> DEFINE b(k) == Len(Joined(r, k))
<1>10. PICK in : in = SntpCfg(tz, server)
  BY Zenon
<1>11. in = Terminated(FlattenSeq(r))
  BY <1>1, <1>8, <1>10, Zenon
<1> HIDE DEF rr
<1>12. /\ \A k \in 1 .. n + 1 : /\ StringAt(in, b(k - 1) + 1) = strs[k]
                                /\ b(k) = b(k - 1) + Len(strs[k]) + 1
       /\ StringAt(in, b(n + 1) + 1) = <<>>
       /\ \A k \in 0 .. n + 1 : b(k) \in Nat
  <2>1. \A k \in 1 .. Len(strs) : \A j \in 1 .. Len(strs[k]) : strs[k][j] # Nul
    BY <1>5, <1>6, Zenon
  <2>2. /\ \A k \in 1 .. Len(strs) :
                 /\ StringAt(in, Len(Joined(r, k - 1)) + 1) = strs[k]
                 /\ Len(Joined(r, k)) = Len(Joined(r, k - 1)) + Len(strs[k]) + 1
        /\ StringAt(in, Len(Joined(r, Len(strs))) + 1) = <<>>
        /\ \A k \in 0 .. Len(strs) : Len(Joined(r, k)) \in Nat
    BY <1>9, <1>11, <2>1, MessageIs, Zenon
  <2> QED BY <1>5, <2>2, Zenon
<1>13. b(0) = 0
  <2>1. Joined(r, 0) = <<>>
    BY <1>9, JoinedNone DEF Ends
  <2> QED BY <2>1
<1> HIDE DEF b
\* Behind an empty time zone nothing is read.
<1>19. CASE tz = <<>>
  <2>1. StringAt(in, 1) = <<>>
    <3>1. 1 \in 1 .. n + 1 /\ 1 - 1 = 0
      BY <1>2
    <3>2. StringAt(in, b(0) + 1) = strs[1]
      BY <1>12, <3>1, Zenon
    <3>3. b(0) + 1 = 1
      BY <1>13
    <3> QED BY <1>4, <1>5, <1>19, <3>2, <3>3, Zenon
  <2>2. NextToken(in, 1) = 0 /\ TokenAt(in, 1) = <<>>
    <3>1. 1 # 0
      OBVIOUS
    <3> QED BY <2>1, <3>1, Zenon DEF NextToken, TokenAt
  <2>3. NextToken(in, 0) = 0 /\ TokenAt(in, 0) = Null
    BY Zenon DEF NextToken, TokenAt
  <2>4. /\ tokens_get(in)[1] = <<>> /\ tokens_get(in)[2] = Null
        /\ tokens_get(in)[3] = Null /\ tokens_get(in)[4] = Null
    <3>1. PICK z : z = 0
      OBVIOUS
    <3>2. NextToken(in, 1) = z /\ NextToken(in, z) = z /\ TokenAt(in, z) = Null
      BY <2>2, <2>3, <3>1, Zenon
    <3>3. /\ tokens_get(in)[1] = TokenAt(in, 1)
          /\ tokens_get(in)[2] = TokenAt(in, z)
          /\ tokens_get(in)[3] = TokenAt(in, z)
          /\ tokens_get(in)[4] = TokenAt(in, z)
      BY <3>2, TokensAre
    <3> QED BY <2>2, <3>2, <3>3, Zenon
  <2>5. ASSUME NEW i \in 1 .. 3
        PROVE  tokens_get(in)[i + 1] = Null
    <3>1. i = 1 \/ i = 2 \/ i = 3
      OBVIOUS
    <3>2. 1 + 1 = 2 /\ 2 + 1 = 3 /\ 3 + 1 = 4
      OBVIOUS
    <3> QED BY <2>4, <3>1, <3>2, Zenon
  <2>6. \A i : Missing(tz, server, i)
    BY <1>19, Zenon DEF Missing
  <2> QED BY <1>10, <1>19, <2>4, <2>5, <2>6, Zenon DEF ReadBack
<1> SUFFICES ASSUME tz # <<>>
             PROVE  ReadBack(tz, server)
  BY <1>19
<1>20. \A k \in 1 .. n + 1 : strs[k] # <<>>
  <2> SUFFICES ASSUME NEW k \in 1 .. n + 1
               PROVE  strs[k] # <<>>
    OBVIOUS
  <2>1. k = 1 \/ k > 1
    BY <1>2
  <2> QED BY <1>4, <1>5, <1>7, <2>1, Zenon
<1> DEFINE P(i) == IF i <= n + 2 THEN b(i - 1) + 1 ELSE 0
           Is(i) == IF i <= n + 1 THEN strs[i] ELSE IF i = n + 2 THEN <<>> ELSE Null
<1>14. ASSUME NEW i \in 1 .. 4
       PROVE  NextToken(in, P(i)) = P(i + 1) /\ TokenAt(in, P(i)) = Is(i)
  <2>1. i \in Nat /\ i >= 1 /\ (i + 1) - 1 = i
    OBVIOUS
  <2>2. CASE i <= n + 1
    <3>1. i \in 1 .. n + 1 /\ i - 1 \in 0 .. n + 1 /\ i \in 0 .. n + 1 /\ i + 1 <= n + 2 /\ i <= n + 2
      BY <1>2, <2>1, <2>2
    <3>2. PICK p \in Nat : p = b(i - 1) + 1
      BY <1>12, <3>1
    <3>3. p # 0
      BY <1>12, <3>1, <3>2
    <3>4. StringAt(in, p) = strs[i] /\ strs[i] # <<>>
      BY <1>12, <1>20, <3>1, <3>2, Zenon
    <3>5. P(i) = p /\ P(i + 1) = b(i) + 1 /\ Is(i) = strs[i]
      BY <2>1, <2>2, <3>1, <3>2, Zenon
    <3>6. p + Len(strs[i]) + 1 = b(i) + 1
      <4>1. b(i) = b(i - 1) + Len(strs[i]) + 1
        BY <1>12, <3>1, Zenon
      <4>2. b(i - 1) \in Nat
        BY <1>12, <3>1, Zenon
      <4>3. PICK s \in Seq(Nat) : s = strs[i]
        BY <1>5, <3>1
      <4>4. PICK c \in Nat : c = b(i - 1)
        BY <4>2, Zenon
      <4>5. PICK d : d = b(i)
        BY Zenon
      <4>6. d = c + Len(s) + 1 /\ p = c + 1
        BY <3>2, <4>1, <4>3, <4>4, <4>5, Zenon
      <4>7. p + Len(s) + 1 = d + 1
        BY <4>6
      <4> QED BY <4>3, <4>5, <4>7, Zenon
    <3>7. NextToken(in, p) = p + Len(strs[i]) + 1
      BY <3>3, <3>4, Zenon DEF NextToken, After
    <3>8. TokenAt(in, p) = strs[i]
      BY <3>3, <3>4, Zenon DEF TokenAt
    <3> QED BY <3>5, <3>6, <3>7, <3>8, Zenon
  <2>3. CASE i = n + 2
    <3>1. ~(i + 1 <= n + 2) /\ i <= n + 2 /\ ~(i <= n + 1) /\ i - 1 = n + 1 /\ n + 1 \in 0 .. n + 1
      BY <1>2, <2>3
    <3>2. P(i) = b(n + 1) + 1 /\ P(i + 1) = 0 /\ Is(i) = <<>>
      BY <2>3, <3>1, Zenon
    <3>3. b(n + 1) + 1 # 0
      BY <1>12, <3>1
    <3>4. StringAt(in, b(n + 1) + 1) = <<>>
      BY <1>12, Zenon
    <3>5. NextToken(in, b(n + 1) + 1) = 0
      BY <3>4, Zenon DEF NextToken
    <3>6. TokenAt(in, b(n + 1) + 1) = <<>>
      BY <3>3, <3>4, Zenon DEF TokenAt
    <3> QED BY <3>2, <3>5, <3>6, Zenon
  <2>4. CASE i > n + 2
    <3>1. ~(i + 1 <= n + 2) /\ ~(i <= n + 2) /\ ~(i <= n + 1) /\ i # n + 2
      BY <1>2, <2>1, <2>4
    <3>2. P(i) = 0 /\ P(i + 1) = 0 /\ Is(i) = Null
      BY <3>1, Zenon
    <3>3. NextToken(in, 0) = 0 /\ TokenAt(in, 0) = Null
      BY Zenon DEF NextToken, TokenAt
    <3> QED BY <3>2, <3>3, Zenon
  <2> QED BY <1>2, <2>1, <2>2, <2>3, <2>4
<1>15. P(1) = 1
  BY <1>2, <1>13
<1> HIDE DEF P
<1>16. \A i \in 1 .. 4 : tokens_get(in)[i] = Is(i)
  <2> HIDE DEF Is
  <2>1. /\ 1 \in 1 .. 4 /\ 2 \in 1 .. 4 /\ 3 \in 1 .. 4 /\ 4 \in 1 .. 4
        /\ 1 + 1 = 2 /\ 2 + 1 = 3 /\ 3 + 1 = 4
        /\ \A i \in 1 .. 4 : i = 1 \/ i = 2 \/ i = 3 \/ i = 4
    OBVIOUS
  <2>2. P(2) = NextToken(in, P(1)) /\ P(3) = NextToken(in, P(2)) /\ P(4) = NextToken(in, P(3))
    BY <1>14, <2>1, Zenon
  <2>3. /\ tokens_get(in)[1] = TokenAt(in, P(1)) /\ tokens_get(in)[2] = TokenAt(in, P(2))
        /\ tokens_get(in)[3] = TokenAt(in, P(3)) /\ tokens_get(in)[4] = TokenAt(in, P(4))
    <3>1. PICK p1 : p1 = P(1)
      BY Zenon
    <3>2. PICK p2 : p2 = P(2)
      BY Zenon
    <3>3. PICK p3 : p3 = P(3)
      BY Zenon
    <3>4. PICK p4 : p4 = P(4)
      BY Zenon
    <3>5. p1 = 1 /\ p2 = NextToken(in, p1) /\ p3 = NextToken(in, p2) /\ p4 = NextToken(in, p3)
      BY <1>15, <2>2, <3>1, <3>2, <3>3, <3>4, Zenon
    <3>6. /\ tokens_get(in)[1] = TokenAt(in, p1)
          /\ tokens_get(in)[2] = TokenAt(in, p2)
          /\ tokens_get(in)[3] = TokenAt(in, p3)
          /\ tokens_get(in)[4] = TokenAt(in, p4)
      BY <3>5, TokensAre
    <3> QED BY <3>1, <3>2, <3>3, <3>4, <3>6, Zenon
  <2> QED BY <1>14, <2>1, <2>3, Zenon
<1>17. tokens_get(in)[1] = tz
  <2>1. 1 \in 1 .. 4 /\ 1 <= n + 1
    BY <1>2
  <2> QED BY <1>4, <1>5, <1>16, <2>1, Zenon
<1>18. ASSUME NEW i \in 1 .. 3
       PROVE  tokens_get(in)[i + 1] =
                  IF ~Missing(tz, server, i) THEN server[i]
                  ELSE IF Missing(tz, server, i - 1) THEN Null
                  ELSE <<>>
  <2>1. i + 1 \in 1 .. 4 /\ i \in Nat
    OBVIOUS
  <2>2. CASE i <= n
    <3>1. i + 1 <= n + 1 /\ i + 1 \in 1 .. n + 1 /\ i + 1 > 1 /\ (i + 1) - 1 = i
      BY <1>2, <2>1, <2>2
    <3>2. tokens_get(in)[i + 1] = strs[i + 1]
      BY <1>16, <2>1, <3>1, Zenon
    <3>3. strs[i + 1] = server[i]
      BY <1>3, <1>5, <3>1, Zenon
    <3>4. \A k \in 1 .. i : k \in 1 .. n
      BY <1>2, <2>1, <2>2
    <3>5. ~Missing(tz, server, i)
      BY <1>1, <3>4, Zenon DEF Missing
    <3> QED BY <3>2, <3>3, <3>5, Zenon
  <2>3. CASE i > n
    <3>1. ~(i + 1 <= n + 1) /\ n + 1 \in 1 .. i /\ n # 3
      BY <1>2, <2>1, <2>3
    <3>2. server[n + 1] \in {Null, <<>>}
      BY <1>1, <3>1, Zenon
    <3>3. Missing(tz, server, i)
      BY <3>1, <3>2, Zenon DEF Missing
    <3>4. CASE i = n + 1
      <4>1. i + 1 = n + 2 /\ \A k \in 1 .. i - 1 : k \in 1 .. n
        BY <1>2, <3>4
      <4>2. tokens_get(in)[i + 1] = <<>>
        BY <1>16, <2>1, <3>1, <4>1, Zenon
      <4>3. ~Missing(tz, server, i - 1)
        BY <1>1, <4>1, Zenon DEF Missing
      <4> QED BY <3>3, <4>2, <4>3, Zenon
    <3>5. CASE i # n + 1
      <4>1. i + 1 # n + 2 /\ n + 1 \in 1 .. i - 1
        BY <1>2, <2>1, <2>3, <3>5
      <4>2. tokens_get(in)[i + 1] = Null
        BY <1>16, <2>1, <3>1, <4>1, Zenon
      <4>3. Missing(tz, server, i - 1)
        BY <3>2, <4>1, Zenon DEF Missing
      <4> QED BY <3>3, <4>2, <4>3, Zenon
    <3> QED BY <3>4, <3>5, Zenon
  <2> QED BY <1>2, <2>1, <2>2, <2>3
<1> QED
  BY <1>10, <1>17, <1>18, Zenon DEF ReadBack

\* The time zone and the servers that mw_sntp_cfg_set() sends, whatever their
\* number and their bytes, mw_sntp_cfg_get() reads back as ServersReadBack says.
THEOREM ServersAreReadBack == Spec => []ServersReadBack
<1>1. ASSUME Given
      PROVE  ServersReadBack
  <2>1. ASSUME given.to = "servers"
        PROVE  ReadBack(given.args[1], given.args[2])
    <3>1. /\ given.args[1] \in Strings
          /\ given.args[2] \in [1 .. 3 -> Strings \cup {Null}]
      BY <1>1, <2>1, Zenon DEF Given
    <3> QED BY <3>1, ServersRead, Zenon
  <2> QED BY <2>1, Zenon DEF ServersReadBack, ReadBack
<1> QED
  BY <1>1, GivenAlways, PTL

-----------------------------------------------------------------------------
(* A walk through the data, forwards.                                      *)

\* h finds, from each place of a .. len on, the items up to the end.
Found(h, nx, it, len, p) ==
    IF nx[p] <= 0 THEN <<>>
    ELSE <<it[p]>> \o (IF nx[p] < len THEN h[nx[p]] ELSE <<>>)

Walks(h, nx, it, a, len) == h = [p \in a .. len |-> Found(h, nx, it, len, p)]

Forward(nx, len) ==
    \A p \in 0 .. len : nx[p] \in Int /\ (0 < nx[p] /\ nx[p] < len => p < nx[p])

LEMMA WalkAt ==
    ASSUME NEW h, NEW nx, NEW it, NEW a, NEW len, Walks(h, nx, it, a, len), NEW p \in a .. len
    PROVE  h[p] = Found(h, nx, it, len, p)
  BY Zenon DEF Walks

LEMMA WalkOne ==
    ASSUME NEW nx, NEW it, NEW len \in Nat, Forward(nx, len),
           NEW a \in 0 .. len, NEW g, Walks(g, nx, it, a + 1, len)
    PROVE  \E h : Walks(h, nx, it, a, len)
<1> DEFINE h == [p \in a .. len |-> IF p = a THEN Found(g, nx, it, len, a) ELSE g[p]]
<1>1. ASSUME NEW p \in a .. len
      PROVE  h[p] = Found(h, nx, it, len, p)
  <2>1. p \in 0 .. len
    OBVIOUS
  <2>2. Found(h, nx, it, len, p) = Found(g, nx, it, len, p)
    <3>1. CASE nx[p] <= 0 \/ ~(nx[p] < len)
      BY <3>1, Zenon DEF Found
    <3>2. CASE ~(nx[p] <= 0) /\ nx[p] < len
      <4>1. nx[p] \in a .. len /\ nx[p] # a
        BY <2>1, <3>2 DEF Forward
      <4>2. h[nx[p]] = g[nx[p]]
        BY <4>1, Zenon
      <4> HIDE DEF h
      <4> QED BY <4>2, Zenon DEF Found
    <3> QED BY <3>1, <3>2, Zenon
  <2>3. CASE p = a
    BY <2>2, <2>3, Zenon
  <2>4. CASE p # a
    <3>1. p \in a + 1 .. len
      BY <2>4
    <3>2. g[p] = Found(g, nx, it, len, p)
      BY <3>1, WalkAt
    <3> QED BY <2>2, <2>4, <3>2, Zenon
  <2> QED BY <2>3, <2>4, Zenon
<1>2. h = [p \in a .. len |-> h[p]]
  BY Zenon
<1> HIDE DEF h
<1>3. Walks(h, nx, it, a, len)
  BY <1>1, <1>2, Zenon DEF Walks
<1> QED
  BY <1>3, Zenon

LEMMA WalkExists ==
    ASSUME NEW nx, NEW it, NEW len \in Nat, Forward(nx, len)
    PROVE  \E h : Walks(h, nx, it, 0, len)
<1> DEFINE Partial(k) == \E h : Walks(h, nx, it, len - k, len)
           S == {k \in Nat : k <= len => Partial(k)}
<1>1. Partial(0)
  <2> DEFINE g == [p \in {} |-> p]
  <2>1. len + 1 .. len = {}
    OBVIOUS
  <2>2. Walks(g, nx, it, len + 1, len)
    BY <2>1, Zenon DEF Walks
  <2> HIDE DEF g
  <2>3. len \in 0 .. len
    OBVIOUS
  <2>4. \E h : Walks(h, nx, it, len, len)
    BY <2>2, <2>3, WalkOne, Zenon
  <2>5. len - 0 = len
    OBVIOUS
  <2> QED BY <2>4, <2>5, Zenon
<1>2. ASSUME NEW k \in Nat \ {0}, k - 1 \in S
      PROVE  k \in S
  <2> SUFFICES ASSUME k <= len
               PROVE  Partial(k)
    OBVIOUS
  <2>1. k - 1 <= len /\ len - k \in 0 .. len /\ len - (k - 1) = (len - k) + 1
    OBVIOUS
  <2>2. PICK g : Walks(g, nx, it, len - (k - 1), len)
    BY <1>2, <2>1, Zenon
  <2>3. Walks(g, nx, it, (len - k) + 1, len)
    BY <2>1, <2>2, Zenon
  <2> QED BY <2>1, <2>3, WalkOne, Zenon
<1> HIDE DEF Partial
<1>3. 0 \in S /\ S \in SUBSET Nat
  BY <1>1
<1>4. S = Nat
  <2> HIDE DEF S
  <2> QED BY <1>2, <1>3, Induction
<1>5. Partial(len)
  BY <1>4
<1>6. len - len = 0
  OBVIOUS
<1> QED
  BY <1>5, <1>6, Zenon DEF Partial

\* Where the walk goes from a position of the data.
Nexts(data, len) == [p \in 0 .. len |-> ap_fill_next(data, p, len)]
Items(data, len) == [p \in 0 .. len |-> ApData(data, p)]

LEMMA ApWalkIs ==
    ASSUME NEW data, NEW len \in Nat, Forward(Nexts(data, len), len)
    PROVE  \E h : /\ Walks(h, Nexts(data, len), Items(data, len), 0, len)
                  /\ ApWalk(data, len) = h[0]
<1> DEFINE nx == Nexts(data, len)
           it == Items(data, len)
           Rec(h) == h = [p \in 0 .. len |->
                              IF ap_fill_next(data, p, len) <= 0 THEN <<>>
                              ELSE <<ApData(data, p)>> \o
                                       (IF ap_fill_next(data, p, len) < len
                                        THEN h[ap_fill_next(data, p, len)] ELSE <<>>)]
           from == CHOOSE h : Rec(h)
<1>1. ApWalk(data, len) = from[0]
  BY Zenon DEF ApWalk
<1>2. ASSUME NEW h
      PROVE  Rec(h) <=> Walks(h, nx, it, 0, len)
  <2>1. \A p \in 0 .. len : nx[p] = ap_fill_next(data, p, len) /\ it[p] = ApData(data, p)
    BY Zenon DEF Nexts, Items
  <2> HIDE DEF nx, it
  <2> QED BY <2>1, Zenon DEF Walks, Found
<1>3. \E h : Walks(h, nx, it, 0, len)
  BY WalkExists, Zenon
<1> HIDE DEF Rec, nx, it
<1>4. Rec(from)
  BY <1>2, <1>3, Zenon
<1> HIDE DEF from
<1> QED
  BY <1>1, <1>2, <1>4, Zenon DEF nx, it

-----------------------------------------------------------------------------
(* The access points in the data.                                          *)

LEMMA BytesAre ==
    /\ \A ssid \in Ssids : ssid \in Seq(Nat) /\ Len(ssid) \in 0 .. 32
    /\ \A stale \in Stale : stale \in Nat /\ stale <= 255
<1>1. \A x \in 0 .. 255 : x \in Nat /\ x <= 255
  BY SMT
<1>2. 0 .. 255 \subseteq Nat
  BY <1>1, Zenon
<1>3. ASSUME NEW ssid \in Ssids
      PROVE  ssid \in Seq(Nat) /\ Len(ssid) \in 0 .. 32
  <2>1. ssid \in Seq(0 .. 255) /\ Len(ssid) <= 32
    BY <1>3, HelpersAssumption, Zenon
  <2>2. ssid \in Seq(Nat)
    <3>1. PICK B : B = 0 .. 255
      BY Zenon
    <3>2. ssid \in Seq(B) /\ B \subseteq Nat
      BY <1>2, <2>1, <3>1, Zenon
    <3> QED BY <3>2, WiderSeq, Zenon
  <2>3. \A s \in Seq(Nat) : Len(s) \in Nat
    OBVIOUS
  <2>4. \A m \in Nat : m <= 32 => m \in 0 .. 32
    BY SMT
  <2> QED BY <2>1, <2>2, <2>3, <2>4, Zenon
<1>4. \A stale \in Stale : stale \in 0 .. 255
  BY HelpersAssumption, Zenon
<1> QED
  BY <1>1, <1>3, <1>4, Zenon

LEMMA NatParts ==
    \A a, b \in Seq(Nat) :
        /\ a \o b \in Seq(Nat) /\ Len(a \o b) = Len(a) + Len(b)
        /\ \A k \in 1 .. Len(a) : (a \o b)[k] = a[k]
        /\ \A k \in 1 .. Len(b) : (a \o b)[Len(a) + k] = b[k]
<1> SUFFICES ASSUME NEW a \in Seq(Nat), NEW b \in Seq(Nat)
             PROVE  /\ a \o b \in Seq(Nat) /\ Len(a \o b) = Len(a) + Len(b)
                    /\ \A k \in 1 .. Len(a) : (a \o b)[k] = a[k]
                    /\ \A k \in 1 .. Len(b) : (a \o b)[Len(a) + k] = b[k]
  OBVIOUS
<1> QED
  BY ConcatParts

LEMMA ApIs ==
    ASSUME NEW ssid \in Seq(Nat)
    PROVE  /\ Ap(ssid) \in Seq(Nat) /\ Len(Ap(ssid)) = 4 + Len(ssid)
           /\ Ap(ssid)[1] = Auth /\ Ap(ssid)[2] = Channel /\ Ap(ssid)[3] = Rssi
           /\ Ap(ssid)[4] = Len(ssid)
           /\ \A j \in 1 .. Len(ssid) : Ap(ssid)[4 + j] = ssid[j]
<1>1. PICK m \in Nat : m = Len(ssid)
  OBVIOUS
<1>2. PICK h : h = <<Auth, Channel, Rssi, m>>
  BY Zenon
<1>3. h \in Seq(Nat) /\ Len(h) = 4 /\ h[1] = Auth /\ h[2] = Channel /\ h[3] = Rssi /\ h[4] = m
  <2>1. Auth \in Nat /\ Channel \in Nat /\ Rssi \in Nat
    BY SMT DEF Auth, Channel, Rssi
  <2> QED BY <1>2, <2>1
<1>4. Ap(ssid) = h \o ssid
  BY <1>1, <1>2, Zenon DEF Ap
<1>5. h \in Seq(Nat)
  BY <1>3
<1>6. /\ h \o ssid \in Seq(Nat) /\ Len(h \o ssid) = Len(h) + Len(ssid)
      /\ \A k \in 1 .. Len(h) : (h \o ssid)[k] = h[k]
      /\ \A k \in 1 .. Len(ssid) : (h \o ssid)[Len(h) + k] = ssid[k]
  BY <1>5, NatParts, Zenon
<1>7. 1 \in 1 .. 4 /\ 2 \in 1 .. 4 /\ 3 \in 1 .. 4 /\ 4 \in 1 .. 4
  OBVIOUS
<1>8. PICK a : a = Ap(ssid)
  BY Zenon
<1>9. /\ a \in Seq(Nat) /\ Len(a) = 4 + Len(ssid)
      /\ a[1] = h[1] /\ a[2] = h[2] /\ a[3] = h[3] /\ a[4] = h[4]
      /\ \A j \in 1 .. Len(ssid) : a[4 + j] = ssid[j]
  <2>1. Len(h) = 4
    BY <1>3
  <2> QED BY <1>4, <1>6, <1>7, <1>8, <2>1, Zenon
<1>10. a[1] = Auth /\ a[2] = Channel /\ a[3] = Rssi /\ a[4] = Len(ssid)
  BY <1>1, <1>3, <1>9, SMT
<1> QED
  BY <1>8, <1>9, <1>10, SMT

LEMMA FirstPart ==
    ASSUME NEW s \in Seq(Nat), NEW k \in 0 .. Len(s)
    PROVE  /\ SubSeq(s, 1, k) \in Seq(Nat) /\ Len(SubSeq(s, 1, k)) = k
           /\ \A i \in 1 .. k : SubSeq(s, 1, k)[i] = s[i]
<1>1. PICK v : v = SubSeq(s, 1, k)
  BY Zenon
<1>2. v \in Seq(Nat) /\ Len(v) = k /\ \A i \in 1 .. k : v[i] = s[i]
  BY <1>1
<1> QED
  BY <1>1, <1>2, Zenon

LEMMA FirstOnes ==
    ASSUME NEW T, NEW s \in Seq(T), NEW k \in 0 .. Len(s)
    PROVE  /\ SubSeq(s, 1, k) \in [1 .. k -> T]
           /\ \A i \in 1 .. k : SubSeq(s, 1, k)[i] = s[i]
<1>1. PICK v : v = SubSeq(s, 1, k)
  BY Zenon
<1>2. v \in Seq(T) /\ Len(v) = k /\ \A i \in 1 .. k : v[i] = s[i]
  BY <1>1
<1>3. v \in [1 .. k -> T]
  BY <1>2, LenProperties
<1> QED
  BY <1>1, <1>2, <1>3, Zenon

LEMMA ApsAre ==
    ASSUME NEW ssids \in Seq(Ssids)
    PROVE  \E r \in Seq(Seq(Nat)) :
              /\ Len(r) = Len(ssids)
              /\ \A k \in 1 .. Len(ssids) : r[k] = Ap(ssids[k])
              /\ Aps(ssids) = FlattenSeq(r)
              /\ \A k \in 0 .. Len(ssids) : Aps(SubSeq(ssids, 1, k)) = Joined(r, k)
<1>1. PICK n \in Nat : n = Len(ssids) /\ DOMAIN ssids = 1 .. n
  OBVIOUS
<1>2. PICK r : r = [i \in DOMAIN ssids |-> Ap(ssids[i])]
  BY Zenon
<1>3. \A k \in 1 .. n : r[k] = Ap(ssids[k])
  BY <1>1, <1>2, Zenon
<1>4. \A k \in 1 .. n : ssids[k] \in Seq(Nat)
  <2>1. \A k \in 1 .. n : ssids[k] \in Ssids
    BY <1>1
  <2> QED BY <2>1, BytesAre, Zenon
<1>5. r \in Seq(Seq(Nat)) /\ Len(r) = n
  <2>1. \A s \in Seq(Nat) : Ap(s) \in Seq(Nat)
    BY ApIs, SMT
  <2>2. \A k \in 1 .. n : r[k] \in Seq(Nat)
    BY <1>3, <1>4, <2>1, Zenon
  <2>3. r \in [1 .. n -> Seq(Nat)]
    BY <1>1, <1>2, <2>2, Zenon
  <2> QED BY <2>3, FunctionSeq, Zenon
<1>6. Aps(ssids) = FlattenSeq(r)
  BY <1>2, Zenon DEF Aps
<1>7. ASSUME NEW k \in 0 .. n
      PROVE  Aps(SubSeq(ssids, 1, k)) = Joined(r, k)
  <2>1. PICK t : t = SubSeq(ssids, 1, k)
    BY Zenon
  <2>2. DOMAIN t = 1 .. k /\ \A i \in 1 .. k : t[i] = ssids[i] /\ i \in 1 .. n
    BY <1>1, <2>1
  <2>3. PICK u : u = [i \in DOMAIN t |-> Ap(t[i])]
    BY Zenon
  <2>4. DOMAIN u = 1 .. k /\ \A i \in 1 .. k : u[i] = r[i]
    BY <1>3, <2>2, <2>3, Zenon
  <2>5. PICK v : v = SubSeq(r, 1, k)
    BY Zenon
  <2>6. v \in [1 .. k -> Seq(Nat)] /\ \A i \in 1 .. k : v[i] = r[i]
    <3>1. k \in 0 .. Len(r)
      BY <1>5
    <3>2. /\ SubSeq(r, 1, k) \in [1 .. k -> Seq(Nat)]
          /\ \A i \in 1 .. k : SubSeq(r, 1, k)[i] = r[i]
      <4>1. r \in Seq(Seq(Nat))
        BY <1>5, Zenon
      <4> QED BY <3>1, <4>1, FirstOnes
    <3> QED BY <2>5, <3>2, Zenon
  <2>7. u = v
    <3>1. u = [i \in 1 .. k |-> r[i]]
      BY <2>3, <2>4, Zenon
    <3>2. v = [i \in 1 .. k |-> r[i]]
      BY <2>6, Zenon
    <3> QED BY <3>1, <3>2, Zenon
  <2> QED BY <2>1, <2>3, <2>5, <2>7, Zenon DEF Aps, Joined
<1> QED
  BY <1>1, <1>3, <1>5, <1>6, <1>7, Zenon

\* Where each access point of the data ends, and what is where.
Laid(e, ssids, len, stale, d) ==
    /\ \A k \in 0 .. Len(ssids) : e[k] \in Nat /\ e[k] = Len(Aps(SubSeq(ssids, 1, k)))
    /\ e[0] = 0 /\ e[Len(ssids)] = Len(Aps(ssids))
    /\ \A k \in 1 .. Len(ssids) :
          /\ e[k] = e[k - 1] + 4 + Len(ssids[k])
          /\ e[k - 1] + 4 <= len => d[e[k - 1] + 4] = Len(ssids[k])
          /\ e[k] <= len =>
                /\ d[e[k - 1] + 1] = Auth /\ d[e[k - 1] + 2] = Channel
                /\ d[e[k - 1] + 3] = Rssi
                /\ SubSeq(d, e[k - 1] + 4 + 1, e[k - 1] + 4 + Len(ssids[k])) = ssids[k]
    /\ \A k \in 0 .. Len(ssids) : \A m \in k .. Len(ssids) : e[k] <= e[m]
    /\ \A i \in len + 1 .. len + 8 : d[i] = stale
    /\ d \in Seq(Nat) /\ Len(d) = len + 8

LEMMA ScanData ==
    ASSUME NEW ssids \in Seq(Ssids), NEW len \in 0 .. Len(Aps(ssids)), NEW stale \in Stale,
           NEW d, d = Cut(ssids, len, stale)
    PROVE  \E e : Laid(e, ssids, len, stale, d)
<1>1. PICK n \in Nat : n = Len(ssids)
  OBVIOUS
<1>2. PICK r \in Seq(Seq(Nat)) :
          /\ Len(r) = n
          /\ \A k \in 1 .. n : r[k] = Ap(ssids[k])
          /\ Aps(ssids) = FlattenSeq(r)
          /\ \A k \in 0 .. n : Aps(SubSeq(ssids, 1, k)) = Joined(r, k)
  BY <1>1, ApsAre, Zenon
<1>3. PICK w \in Seq(Nat) : w = Aps(ssids) /\ w = FlattenSeq(r)
  BY <1>2, FlattenType
<1>4. len \in Nat /\ len <= Len(w) /\ Len(w) \in Nat
  BY <1>3
<1>5. PICK s \in Nat : s = stale
  BY BytesAre, Zenon
<1>6. PICK a \in Seq(Nat) : a = SubSeq(w, 1, len) /\ Len(a) = len /\ \A i \in 1 .. len : a[i] = w[i]
  <2>1. len \in 0 .. Len(w)
    BY <1>4
  <2> QED BY <2>1, FirstPart, Zenon
<1>7. PICK b \in Seq(Nat) : /\ b = [i \in 1 .. 8 |-> stale]
                            /\ Len(b) = 8 /\ \A i \in 1 .. 8 : b[i] = stale
  <2>1. PICK x \in [1 .. 8 -> Nat] : x = [i \in 1 .. 8 |-> stale]
    BY <1>5, Zenon
  <2>2. 8 \in Nat
    OBVIOUS
  <2>3. x \in Seq(Nat) /\ Len(x) = 8
    BY <2>2, FunctionSeq
  <2> QED BY <2>1, <2>3, Zenon
<1>8. d = a \o b
  BY <1>3, <1>6, <1>7, Zenon DEF Cut
<1>9. /\ d \in Seq(Nat) /\ Len(d) = len + 8
      /\ \A i \in 1 .. len : d[i] = w[i]
      /\ \A i \in 1 .. 8 : d[len + i] = stale
  <2>1. /\ a \o b \in Seq(Nat) /\ Len(a \o b) = Len(a) + Len(b)
        /\ \A i \in 1 .. Len(a) : (a \o b)[i] = a[i]
        /\ \A i \in 1 .. Len(b) : (a \o b)[Len(a) + i] = b[i]
    BY NatParts, Zenon
  <2> QED BY <1>6, <1>7, <1>8, <2>1, Zenon
<1>10. \A i \in len + 1 .. len + 8 : d[i] = stale
  <2> SUFFICES ASSUME NEW i \in len + 1 .. len + 8
               PROVE  d[i] = stale
    OBVIOUS
  <2>1. i - len \in 1 .. 8 /\ len + (i - len) = i
    BY <1>4
  <2>2. d[len + (i - len)] = stale
    BY <1>9, <2>1, Zenon
  <2> QED BY <2>1, <2>2, Zenon
<1> DEFINE e == [k \in 0 .. n |-> Len(Joined(r, k))]
<1>11. \A k \in 0 .. n : e[k] = Len(Joined(r, k)) /\ Len(Joined(r, k)) \in Nat
  <2>1. \A k \in 0 .. n : Joined(r, k) \in Seq(Nat)
    BY <1>2, JoinedType, Zenon
  <2>2. \A x \in Seq(Nat) : Len(x) \in Nat
    OBVIOUS
  <2> QED BY <2>1, <2>2, Zenon
<1> HIDE DEF e
<1>12. 0 \in 0 .. n /\ n \in 0 .. n
  BY <1>1
<1>13. e[0] = 0
  <2>1. Joined(r, 0) = <<>>
    BY JoinedNone
  <2>2. Len(Joined(r, 0)) = 0
    BY <2>1
  <2> QED BY <1>11, <1>12, <2>2, Zenon
<1>14. e[n] = Len(w)
  BY <1>2, <1>3, <1>11, <1>12, JoinedAll, Zenon
<1>15. ASSUME NEW k \in 1 .. n
       PROVE  /\ e[k] = e[k - 1] + 4 + Len(ssids[k])
              /\ e[k - 1] + 4 <= len => d[e[k - 1] + 4] = Len(ssids[k])
              /\ e[k] <= len =>
                    /\ d[e[k - 1] + 1] = Auth /\ d[e[k - 1] + 2] = Channel /\ d[e[k - 1] + 3] = Rssi
                    /\ SubSeq(d, e[k - 1] + 4 + 1, e[k - 1] + 4 + Len(ssids[k])) = ssids[k]
  <2>1. k \in 0 .. n /\ k - 1 \in 0 .. n /\ k \in 1 .. Len(r) /\ k \in 1 .. Len(ssids)
    BY <1>1, <1>2
  <2>2. ssids[k] \in Ssids
    BY <2>1, ElementOfSeq
  <2>3. PICK t \in Seq(Nat) : t = ssids[k]
    BY <2>2, BytesAre, Zenon
  <2>4. PICK m \in Nat : m = Len(t)
    OBVIOUS
  <2>5. PICK h : h = r[k]
    BY Zenon
  <2>6. /\ Len(h) = 4 + m /\ h[1] = Auth /\ h[2] = Channel /\ h[3] = Rssi /\ h[4] = m
        /\ \A j \in 1 .. m : h[4 + j] = t[j]
    <3>1. h = Ap(t)
      BY <1>2, <2>3, <2>5, Zenon
    <3> QED BY <2>4, <3>1, ApIs, Zenon
  <2>7. PICK o \in Nat : o = e[k - 1]
    BY <1>11, <2>1, Zenon
  <2>8. /\ e[k] = o + (4 + m) /\ o + (4 + m) <= Len(w)
        /\ \A j \in 1 .. 4 + m : w[o + j] = h[j]
    <3>1. /\ Len(Joined(r, k)) = Len(Joined(r, k - 1)) + Len(r[k])
          /\ Len(Joined(r, k)) <= Len(FlattenSeq(r))
          /\ \A j \in 1 .. Len(r[k]) : FlattenSeq(r)[Len(Joined(r, k - 1)) + j] = r[k][j]
      BY <2>1, JoinedInside
    <3>2. Len(Joined(r, k)) = e[k] /\ Len(Joined(r, k - 1)) = o /\ Len(r[k]) = 4 + m
      BY <1>11, <2>1, <2>5, <2>6, <2>7, Zenon
    <3> QED BY <1>3, <2>5, <3>1, <3>2, Zenon
  <2>9. ASSUME NEW j \in 1 .. 4 + m, o + j <= len
        PROVE  d[o + j] = h[j]
    <3>1. o + j \in 1 .. len
      BY <2>9, <1>4
    <3> QED BY <1>9, <2>8, <3>1, Zenon
  <2>10. e[k] = o + 4 + m
    BY <2>8
  <2>11. o + 4 <= len => d[o + 4] = m
    <3>1. 4 \in 1 .. 4 + m
      OBVIOUS
    <3> QED BY <2>6, <2>9, <3>1, Zenon
  <2>12. ASSUME e[k] <= len
         PROVE  /\ d[o + 1] = Auth /\ d[o + 2] = Channel /\ d[o + 3] = Rssi
                /\ SubSeq(d, o + 4 + 1, o + 4 + m) = t
    <3>1. o + 1 <= len /\ o + 2 <= len /\ o + 3 <= len /\ (o + 4) + m <= len
      BY <1>4, <2>10, <2>12
    <3>2. 1 \in 1 .. 4 + m /\ 2 \in 1 .. 4 + m /\ 3 \in 1 .. 4 + m
      OBVIOUS
    <3>3. d[o + 1] = h[1] /\ d[o + 2] = h[2] /\ d[o + 3] = h[3]
      BY <2>9, <3>1, <3>2, Zenon
    <3>4. d[o + 1] = Auth /\ d[o + 2] = Channel /\ d[o + 3] = Rssi
      BY <2>6, <3>3, Zenon
    <3>5. ASSUME NEW j \in 1 .. m
          PROVE  d[(o + 4) + j] = t[j]
      <4>1. /\ 4 + j \in 1 .. 4 + m /\ o + (4 + j) <= len /\ (o + 4) + j = o + (4 + j)
        BY <1>4, <3>1
      <4>2. d[o + (4 + j)] = h[4 + j]
        BY <2>9, <4>1, Zenon
      <4> QED BY <2>6, <4>1, <4>2, Zenon
    <3>6. o + 4 \in Nat /\ (o + 4) + m <= Len(d)
      BY <1>4, <1>9, <3>1
    <3>7. SubSeq(d, (o + 4) + 1, (o + 4) + m) = t
      BY <1>9, <2>4, <3>5, <3>6, PartIs
    <3> QED BY <3>4, <3>7, Zenon
  <2> QED BY <2>3, <2>4, <2>7, <2>10, <2>11, <2>12, Zenon
<1> QED
  <2>1. \A k \in 0 .. n : e[k] \in Nat /\ e[k] = Len(Aps(SubSeq(ssids, 1, k)))
    BY <1>2, <1>11, Zenon
  <2>2. ASSUME NEW k \in 0 .. n, NEW m \in k .. n
        PROVE  e[k] <= e[m]
    <3>1. m \in 0 .. n /\ k \in 0 .. Len(r) /\ m \in k .. Len(r)
      BY <1>2
    <3>2. Len(Joined(r, k)) <= Len(Joined(r, m))
      BY <3>1, JoinedFront
    <3> QED BY <1>11, <3>1, <3>2, Zenon
  <2> QED BY <1>1, <1>3, <1>9, <1>10, <1>13, <1>14, <1>15, <2>1, <2>2, Zenon DEF Laid

LEMMA Consed ==
    ASSUME NEW T, NEW x \in T, NEW y \in Seq(T)
    PROVE  /\ <<x>> \o y \in Seq(T) /\ Len(<<x>> \o y) = Len(y) + 1
           /\ (<<x>> \o y)[1] = x
           /\ \A i \in 1 .. Len(y) : (<<x>> \o y)[i + 1] = y[i]
  OBVIOUS

LEMMA ForwardIs ==
    ASSUME NEW len \in Nat, NEW d \in Seq(Nat), Len(d) = len + 8
    PROVE  Forward(Nexts(d, len), len)
<1> SUFFICES ASSUME NEW p \in 0 .. len
             PROVE  /\ Nexts(d, len)[p] \in Int
                    /\ 0 < Nexts(d, len)[p] /\ Nexts(d, len)[p] < len => p < Nexts(d, len)[p]
  BY DEF Forward
<1>1. Nexts(d, len)[p] = ap_fill_next(d, p, len)
  BY DEF Nexts
<1>2. CASE p >= len
  BY <1>1, <1>2 DEF ap_fill_next
<1>3. CASE p < len
  <2>1. p + 4 \in 1 .. Len(d) /\ p \in Nat
    BY <1>3
  <2>2. PICK m \in Nat : m = d[p + 4]
    BY <2>1
  <2>3. Nexts(d, len)[p] = -1 \/ Nexts(d, len)[p] = p + 4 + m
    BY <1>1, <1>3, <2>2 DEF ap_fill_next
  <2> QED BY <2>1, <2>3
<1> QED
  BY <1>2, <1>3

LEMMA CharIs == \A m \in 0 .. 32 : Char(m) = m
  BY DEF Char

\* The walk finds those that are whole, and one more if it seems to fit.
LEMMA WalkFinds ==
    ASSUME NEW ssids \in Seq(Ssids), NEW len \in 0 .. Len(Aps(ssids)), NEW stale \in Stale,
           NEW d, d = Cut(ssids, len, stale),
           NEW n \in 0 .. Len(ssids), ApsEnd(ssids, n) <= len,
           n = Len(ssids) \/ ApsEnd(ssids, n + 1) > len
    PROVE  /\ Len(ApWalk(d, len)) = IF Seems(ssids, n, len, stale) THEN n + 1 ELSE n
           /\ Named(ApWalk(d, len), ssids, d, n)
<1>1. PICK e : Laid(e, ssids, len, stale, d)
  BY ScanData, Zenon
<1>2. PICK z \in Nat : z = Len(ssids)
  OBVIOUS
<1>3. PICK w \in Nat : w = Len(Aps(ssids))
  <2>1. z \in 0 .. z
    OBVIOUS
  <2> QED BY <1>1, <1>2, <2>1, Zenon DEF Laid
<1>4. len \in Nat /\ len <= w /\ n \in 0 .. z /\ n \in Nat
  BY <1>2, <1>3
<1>5. \A k \in 1 .. z : Len(ssids[k]) \in 0 .. 32
  <2>1. \A k \in 1 .. z : ssids[k] \in Ssids
    BY <1>2, ElementOfSeq
  <2> QED BY <2>1, BytesAre, Zenon
<1>6. \A k \in 0 .. z : e[k] \in Nat /\ ApsEnd(ssids, k) = e[k]
  BY <1>1, <1>2, Zenon DEF ApsEnd, Laid
<1>7. e[n] <= len /\ (n = z \/ e[n + 1] > len)
  <2>1. n # z => n + 1 \in 0 .. z
    BY <1>4
  <2> QED BY <1>2, <1>4, <1>6, <2>1, Zenon
<1>8. \A k \in 0 .. n : e[k] \in 0 .. len
  <2> SUFFICES ASSUME NEW k \in 0 .. n
               PROVE  e[k] \in 0 .. len
    OBVIOUS
  <2>1. k \in 0 .. z /\ n \in k .. z
    BY <1>4
  <2>2. e[k] <= e[n]
    BY <1>1, <1>2, <2>1, Zenon DEF Laid
  <2>3. e[k] \in Nat /\ e[n] \in Nat
    BY <1>4, <1>6, <2>1, Zenon
  <2>4. PICK x \in Nat, y \in Nat : x = e[k] /\ y = e[n]
    BY <2>3, Zenon
  <2>5. x <= y /\ y <= len
    BY <1>7, <2>2, <2>4, Zenon
  <2>6. x \in 0 .. len
    BY <1>4, <2>5
  <2> QED BY <2>4, <2>6, Zenon
<1> DEFINE nx == Nexts(d, len)
           it == Items(d, len)
<1>9. PICK h : Walks(h, nx, it, 0, len) /\ ApWalk(d, len) = h[0]
  <2>1. Forward(nx, len)
    BY <1>1, <1>4, ForwardIs, Zenon DEF Laid
  <2> QED BY <1>4, <2>1, ApWalkIs, Zenon
<1>10. \A p \in 0 .. len : nx[p] = ap_fill_next(d, p, len) /\ it[p] = ApData(d, p)
  BY Zenon DEF Nexts, Items
<1> HIDE DEF nx, it
<1>11. \A p \in 0 .. len : h[p] = Found(h, nx, it, len, p)
  BY <1>9, WalkAt, Zenon
\* At the end of the data.
<1>12. len \in 0 .. len /\ h[len] = <<>>
  <2>1. len \in 0 .. len /\ 0 <= 0 /\ len >= len
    BY <1>4
  <2>2. nx[len] = 0
    BY <1>10, <2>1, Zenon DEF ap_fill_next
  <2> QED BY <1>11, <2>1, <2>2, Zenon DEF Found
\* At each that is whole.
<1>13. ASSUME NEW k \in 1 .. n
       PROVE  h[e[k - 1]] = <<ApData(d, e[k - 1])>> \o h[e[k]]
  <2>1. k \in 1 .. z /\ k \in 0 .. n /\ k - 1 \in 0 .. n
    BY <1>4
  <2>2. PICK p \in 0 .. len : p = e[k - 1]
    BY <1>8, <2>1, Zenon
  <2>3. PICK q \in 0 .. len : q = e[k]
    BY <1>8, <2>1, Zenon
  <2>4. PICK m \in 0 .. 32 : m = Len(ssids[k])
    BY <1>5, <2>1, Zenon
  <2>5. q = p + 4 + m
    BY <1>1, <1>2, <2>1, <2>2, <2>3, <2>4, Zenon DEF Laid
  <2>6. p + 4 <= len /\ ~(p >= len) /\ ~(p + m + 4 > len) /\ p + 4 + m = q /\ ~(q <= 0)
        /\ (q < len \/ q = len)
    BY <1>4, <2>5
  <2>7. d[p + 4] = m
    BY <1>1, <1>2, <2>1, <2>2, <2>4, <2>6, Zenon DEF Laid
  <2>8. nx[p] = q
    <3>1. Char(m) = m
      BY CharIs, Zenon
    <3> QED BY <1>10, <2>6, <2>7, <3>1, Zenon DEF ap_fill_next
  <2>9. h[p] = <<ApData(d, p)>> \o (IF q < len THEN h[q] ELSE <<>>)
    BY <1>10, <1>11, <2>6, <2>8, Zenon DEF Found
  <2>10. (IF q < len THEN h[q] ELSE <<>>) = h[q]
    BY <1>12, <2>6, Zenon
  <2> QED BY <2>2, <2>3, <2>9, <2>10, Zenon
\* Behind the last that is whole.
<1> DEFINE seems == Seems(ssids, n, len, stale)
<1>14. h[e[n]] = IF seems THEN <<ApData(d, e[n])>> ELSE <<>>
  <2>1. PICK p \in 0 .. len : p = e[n]
    <3>1. n \in 0 .. n
      BY <1>4
    <3> QED BY <1>8, <3>1, Zenon
  <2>2. seems <=> p < len /\ len < p + 4 /\ p + 4 + Char(stale) <= len
    BY <1>4, <1>6, <2>1, Zenon DEF Seems
  <2>3. CASE p >= len
    <3>1. p = len /\ ~(p < len)
      BY <1>4, <2>3
    <3> QED BY <1>12, <2>1, <2>2, <3>1, Zenon
  <2>4. CASE ~(p >= len)
    <3>1. n + 1 \in 1 .. z /\ (n + 1) - 1 = n
      <4>1. n # z
        <5>1. e[z] = w
          BY <1>1, <1>2, <1>3, Zenon DEF Laid
        <5>2. n = z => p = w
          BY <2>1, <5>1, Zenon
        <5> QED BY <1>4, <2>4, <5>2
      <4> QED BY <1>4, <4>1
    <3>2. PICK m \in 0 .. 32 : m = Len(ssids[n + 1])
      BY <1>5, <3>1, Zenon
    <3>3. e[n + 1] = p + 4 + m
      BY <1>1, <1>2, <2>1, <3>1, <3>2, Zenon DEF Laid
    <3>4. p + 4 + m > len
      <4>1. n # z
        BY <1>4, <3>1
      <4> QED BY <1>7, <3>3, <4>1, Zenon
    <3>5. CASE p + 4 <= len
      <4>1. d[p + 4] = m
        BY <1>1, <1>2, <2>1, <3>1, <3>2, <3>5, Zenon DEF Laid
      <4>2. p + m + 4 > len /\ ~(len < p + 4) /\ -1 <= 0
        BY <1>4, <3>4, <3>5
      <4>3. Char(m) = m
        BY CharIs, Zenon
      <4>4. nx[p] = -1
        BY <1>10, <2>4, <4>1, <4>2, <4>3, Zenon DEF ap_fill_next
      <4>5. h[p] = <<>>
        BY <1>11, <4>2, <4>4, Zenon DEF Found
      <4> QED BY <2>1, <2>2, <4>2, <4>5, Zenon
    <3>6. CASE ~(p + 4 <= len)
      <4>1. p + 4 \in len + 1 .. len + 8 /\ len < p + 4 /\ p < len
        BY <1>4, <2>4, <3>6
      <4>2. PICK s \in Nat : s = stale
        BY BytesAre, Zenon
      <4>3. d[p + 4] = s
        BY <1>1, <4>1, <4>2, Zenon DEF Laid
      <4>4. PICK c \in Int : c = Char(s)
        BY DEF Char
      <4>5. seems <=> p + c + 4 <= len
        <5>1. p + 4 + c = p + c + 4
          BY <1>4
        <5> QED BY <2>2, <4>1, <4>2, <4>4, <5>1, Zenon
      <4>6. CASE p + c + 4 > len
        <5>1. ~(p + c + 4 <= len) /\ -1 <= 0
          BY <1>4, <4>6
        <5>2. nx[p] = -1
          BY <1>10, <2>4, <4>3, <4>4, <4>6, Zenon DEF ap_fill_next
        <5>3. h[p] = <<>>
          BY <1>11, <5>1, <5>2, Zenon DEF Found
        <5> QED BY <2>1, <4>5, <5>1, <5>3, Zenon
      <4>7. CASE ~(p + c + 4 > len)
        <5>1. /\ p + c + 4 <= len /\ ~(p + 4 + s <= 0) /\ ~(p + 4 + s < len)
          BY <1>4, <4>1, <4>7
        <5>2. nx[p] = p + 4 + s
          BY <1>10, <2>4, <4>3, <4>4, <4>7, Zenon DEF ap_fill_next
        <5>3. h[p] = <<ApData(d, p)>> \o <<>>
          BY <1>10, <1>11, <5>1, <5>2, Zenon DEF Found
        <5>4. \A x : <<x>> \o <<>> = <<x>>
          OBVIOUS
        <5> QED BY <2>1, <4>5, <5>1, <5>3, <5>4, Zenon
      <4> QED BY <4>6, <4>7, Zenon
    <3> QED BY <3>5, <3>6, Zenon
  <2> QED BY <2>3, <2>4, Zenon
\* All of them, the last one first.
<1> DEFINE T == {ApData(d, p) : p \in 0 .. len}
           v == IF seems THEN 1 ELSE 0
           Walked(k, j) == /\ h[e[k]] \in Seq(T) /\ Len(h[e[k]]) = j + v
                          /\ \A i \in 1 .. j : h[e[k]][i] = ApData(d, e[k + i - 1])
           S == {j \in Nat : j <= n => Walked(n - j, j)}
<1>15. \A k \in 0 .. n : ApData(d, e[k]) \in T
  BY <1>8, Zenon
<1> HIDE DEF T, seems
<1>16. Walked(n, 0)
  <2>1. n \in 0 .. n
    BY <1>4
  <2>2. PICK x \in T : x = ApData(d, e[n])
    BY <1>15, <2>1, Zenon
  <2>3. <<>> \in Seq(T) /\ Len(<<>>) = 0 /\ <<x>> \in Seq(T) /\ Len(<<x>>) = 1
    OBVIOUS
  <2>4. CASE seems
    BY <1>14, <2>2, <2>3, <2>4
  <2>5. CASE ~seems
    BY <1>14, <2>3, <2>5
  <2> QED BY <2>4, <2>5, Zenon
<1>17. ASSUME NEW j \in Nat \ {0}, j - 1 \in S
       PROVE  j \in S
  <2> SUFFICES ASSUME j <= n
               PROVE  Walked(n - j, j)
    OBVIOUS
  <2>1. PICK k \in 1 .. n : k = n - j + 1 /\ k - 1 = n - j /\ n - (j - 1) = k
    BY <1>4
  <2>2. Walked(k, j - 1)
    <3>1. j - 1 <= n
      BY <1>4
    <3> QED BY <1>17, <2>1, <3>1, Zenon
  <2>3. PICK y \in Seq(T) : y = h[e[k]]
    BY <2>2, Zenon
  <2>4. k - 1 \in 0 .. n
    BY <1>4
  <2>5. PICK x \in T : x = ApData(d, e[k - 1])
    BY <1>15, <2>4, Zenon
  <2>6. PICK u : u = h[e[k - 1]]
    BY Zenon
  <2>7. u = <<x>> \o y
    BY <1>13, <2>3, <2>5, <2>6, Zenon
  <2>8. /\ u \in Seq(T) /\ Len(u) = Len(y) + 1
        /\ u[1] = x
        /\ \A i \in 1 .. Len(y) : u[i + 1] = y[i]
    <3>1. /\ <<x>> \o y \in Seq(T) /\ Len(<<x>> \o y) = Len(y) + 1
          /\ (<<x>> \o y)[1] = x
          /\ \A i \in 1 .. Len(y) : (<<x>> \o y)[i + 1] = y[i]
      <4> HIDE DEF S, Walked, v
      <4> QED BY Consed
    <3> QED BY <2>7, <3>1, Zenon
  <2>9. Len(y) = (j - 1) + v
    BY <2>2, <2>3, Zenon
  <2>10. Len(u) = j + v
    <3>1. PICK c \in Nat : c = v
      OBVIOUS
    <3>2. PICK l \in Nat, m \in Nat : l = Len(y) /\ m = Len(u)
      BY <2>8
    <3>3. l = (j - 1) + c /\ m = l + 1
      BY <2>8, <2>9, <3>1, <3>2, Zenon
    <3>4. m = j + c
      BY <3>3
    <3> QED BY <3>1, <3>2, <3>4, Zenon
  <2>11. ASSUME NEW i \in 1 .. j
         PROVE  u[i] = ApData(d, e[(k - 1) + i - 1])
    <3>1. CASE i = 1
      <4>1. (k - 1) + 1 - 1 = k - 1
        OBVIOUS
      <4> QED BY <2>5, <2>8, <3>1, <4>1, Zenon
    <3>2. CASE i # 1
      <4>1. /\ i - 1 \in 1 .. j - 1 /\ i - 1 \in 1 .. Len(y) /\ (i - 1) + 1 = i
            /\ k + (i - 1) - 1 = (k - 1) + i - 1
        BY <2>9, <3>2
      <4>2. u[i] = y[i - 1]
        BY <2>8, <4>1, Zenon
      <4>3. y[i - 1] = ApData(d, e[k + (i - 1) - 1])
        BY <2>2, <2>3, <4>1, Zenon
      <4> QED BY <4>1, <4>2, <4>3, Zenon
    <3> QED BY <3>1, <3>2, Zenon
  <2>12. Walked(k - 1, j)
    BY <2>6, <2>8, <2>10, <2>11, Zenon
  <2> HIDE DEF Walked
  <2> QED BY <2>1, <2>12, Zenon
<1>18. Walked(0, n)
  <2>1. 0 \in S /\ S \in SUBSET Nat
    <3>1. n - 0 = n /\ 0 \in Nat
      BY <1>4
    <3> HIDE DEF Walked
    <3> QED BY <1>16, <3>1
  <2>2. S = Nat
    <3> HIDE DEF S
    <3> QED BY <1>17, <2>1, Induction
  <2> HIDE DEF Walked
  <2>3. n \in S /\ n <= n /\ n - n = 0
    <3>1. n \in S
      BY <1>4, <2>2, Zenon
    <3>2. n <= n /\ n - n = 0
      BY <1>4
    <3> QED BY <3>1, <3>2, Zenon
  <2> QED BY <2>3, Zenon
<1> DEFINE found == ApWalk(d, len)
<1>19. /\ Len(found) = n + v
       /\ \A i \in 1 .. n : found[i] = ApData(d, e[i - 1])
  <2>1. e[0] = 0
    BY <1>1, Zenon DEF Laid
  <2>2. \A i \in 1 .. n : 0 + i - 1 = i - 1
    OBVIOUS
  <2> QED BY <1>9, <1>18, <2>1, <2>2, Zenon
<1>20. Len(found) = IF Seems(ssids, n, len, stale) THEN n + 1 ELSE n
  <2>1. n + 0 = n
    BY <1>4
  <2> QED BY <1>19, <2>1, Zenon DEF seems
<1>21. ASSUME NEW i \in 1 .. n
       PROVE  /\ found[i].auth = Auth /\ found[i].channel = Channel
              /\ found[i].rssi = Rssi - 256
              /\ found[i].ssid_len = Len(ssids[i])
              /\ SubSeq(d, found[i].ssid + 1, found[i].ssid + found[i].ssid_len) = ssids[i]
  <2>1. i \in 1 .. z /\ i \in 0 .. n /\ i - 1 \in 0 .. n
    BY <1>4
  <2>2. PICK p : p = e[i - 1]
    BY Zenon
  <2>3. e[i] <= len /\ e[i - 1] + 4 <= len
    <3>1. PICK x \in 0 .. len, y \in 0 .. len : x = e[i] /\ y = e[i - 1]
      BY <1>8, <2>1, Zenon
    <3>2. PICK m \in 0 .. 32 : m = Len(ssids[i])
      BY <1>5, <2>1, Zenon
    <3>3. x = y + 4 + m
      BY <1>1, <1>2, <2>1, <3>1, <3>2, Zenon DEF Laid
    <3>4. x <= len /\ y + 4 <= len
      BY <1>4, <3>3
    <3> QED BY <3>1, <3>4, Zenon
  <2>4. /\ d[p + 4] = Len(ssids[i])
        /\ d[p + 1] = Auth /\ d[p + 2] = Channel /\ d[p + 3] = Rssi
        /\ SubSeq(d, p + 4 + 1, p + 4 + Len(ssids[i])) = ssids[i]
    BY <1>1, <1>2, <2>1, <2>2, <2>3, Zenon DEF Laid
  <2>5. found[i] = [auth |-> d[p + 1], channel |-> d[p + 2], rssi |-> Char(d[p + 3]),
                    ssid_len |-> d[p + 4], ssid |-> p + 4]
    BY <1>19, <2>2, Zenon DEF ApData
  <2>6. Char(Rssi) = Rssi - 256
    BY SMT DEF Char, Rssi
  <2> HIDE DEF found
  <2>7. PICK f : f = found[i]
    BY Zenon
  <2>8. /\ f.auth = Auth /\ f.channel = Channel /\ f.rssi = Rssi - 256
        /\ f.ssid_len = Len(ssids[i]) /\ f.ssid = p + 4
    <3>1. PICK m : m = Len(ssids[i])
      BY Zenon
    <3>2. PICK r : r = Rssi - 256
      BY Zenon
    <3>3. f = [auth |-> Auth, channel |-> Channel, rssi |-> r, ssid_len |-> m, ssid |-> p + 4]
      BY <2>4, <2>5, <2>6, <2>7, <3>1, <3>2, Zenon
    <3>4. f.auth = Auth /\ f.channel = Channel /\ f.rssi = r /\ f.ssid_len = m /\ f.ssid = p + 4
      BY <3>3
    <3> QED BY <3>1, <3>2, <3>4, Zenon
  <2> QED BY <2>4, <2>7, <2>8, Zenon
<1> QED
  BY <1>20, <1>21, Zenon DEF Named

\* Some number of access points is whole, and no more of them.
LEMMA WholeOnes ==
    ASSUME NEW ssids \in Seq(Ssids), NEW len \in 0 .. Len(Aps(ssids)), NEW stale \in Stale
    PROVE  \E n \in 0 .. Len(ssids) : AreWhole(ssids, len, n)
<1>1. PICK e : Laid(e, ssids, len, stale, Cut(ssids, len, stale))
  BY ScanData, Zenon
<1>2. PICK z \in Nat : z = Len(ssids)
  OBVIOUS
<1>3. \A k \in 0 .. z : e[k] \in Nat /\ ApsEnd(ssids, k) = e[k]
  BY <1>1, <1>2, Zenon DEF ApsEnd, Laid
<1>4. e[0] = 0 /\ e[0] <= len
  <2>1. 0 <= len
    OBVIOUS
  <2> QED BY <1>1, <2>1, Zenon DEF Laid
<1>5. SUFFICES ASSUME \A n \in 0 .. z : ~AreWhole(ssids, len, n)
               PROVE  FALSE
  BY <1>2, Zenon
<1>6. \A n \in 0 .. z : e[n] <= len => n # z /\ ~(e[n + 1] > len)
  <2> SUFFICES ASSUME NEW n \in 0 .. z, e[n] <= len
               PROVE  n # z /\ ~(e[n + 1] > len)
    OBVIOUS
  <2>1. n # z => n + 1 \in 0 .. z
    BY <1>2
  <2>2. ~AreWhole(ssids, len, n)
    BY <1>5, Zenon
  <2> QED BY <1>2, <1>3, <2>1, <2>2, Zenon DEF AreWhole
<1> DEFINE P(k) == k <= z => e[k] <= len
<1>7. P(0)
  BY <1>4
<1>8. ASSUME NEW k \in Nat, P(k)
      PROVE  P(k + 1)
  <2> SUFFICES ASSUME k + 1 <= z
               PROVE  e[k + 1] <= len
    OBVIOUS
  <2>1. k \in 0 .. z /\ k + 1 \in 0 .. z /\ k <= z
    BY <1>2
  <2>2. e[k] <= len
    BY <1>8, <2>1, Zenon
  <2>3. ~(e[k + 1] > len)
    BY <1>6, <2>1, <2>2, Zenon
  <2>4. PICK x \in Nat : x = e[k + 1]
    BY <1>3, <2>1, Zenon
  <2>5. x <= len
    BY <2>3, <2>4
  <2> QED BY <2>4, <2>5, Zenon
<1> DEFINE S == {k \in Nat : P(k)}
<1>9. z \in S
  <2> HIDE DEF P
  <2>1. 0 \in S /\ S \in SUBSET Nat
    BY <1>7
  <2>2. \A k \in Nat \ {0} : k - 1 \in S => k \in S
    <3> SUFFICES ASSUME NEW k \in Nat \ {0}, k - 1 \in S
                 PROVE  k \in S
      OBVIOUS
    <3>1. k - 1 \in Nat /\ (k - 1) + 1 = k
      OBVIOUS
    <3>2. P((k - 1) + 1)
      BY <1>8, <3>1, Zenon
    <3> QED BY <3>1, <3>2, Zenon
  <2> HIDE DEF S
  <2> QED BY <1>2, <2>1, <2>2, Induction
<1>10. e[z] <= len /\ z \in 0 .. z
  BY <1>2, <1>9
<1> QED
  BY <1>6, <1>10, Zenon

LEMMA ScanIsFound ==
    ASSUME NEW ssids \in Seq(Ssids), NEW len \in 0 .. Len(Aps(ssids)), NEW stale \in Stale
    PROVE  ScanFound(ssids, len, stale)
<1>1. PICK n : n = CHOOSE k \in 0 .. Len(ssids) : AreWhole(ssids, len, k)
  BY Zenon
<1>2. n \in 0 .. Len(ssids) /\ AreWhole(ssids, len, n)
  <2>1. \E k \in 0 .. Len(ssids) : AreWhole(ssids, len, k)
    BY WholeOnes, Zenon
  <2> QED BY <1>1, <2>1, Zenon
<1>3. PICK d : d = Cut(ssids, len, stale)
  BY Zenon
<1>4. /\ Len(ApWalk(d, len)) = IF Seems(ssids, n, len, stale) THEN n + 1 ELSE n
      /\ Named(ApWalk(d, len), ssids, d, n)
  BY <1>2, <1>3, WalkFinds, Zenon DEF AreWhole
<1> QED
  BY <1>1, <1>3, <1>4, Zenon DEF ScanFound

LEMMA ReceivedIs == \A w \in Nat, lost \in Nat : Received(w, lost) \in 0 .. w
  BY DEF Received

\* Of the access points that mw_ap_scan() answers with, whatever their names, and
\* of an answer that is cut short, mw_ap_fill_next() finds those that are whole,
\* each with its name; and one more only if the byte that is left in the place of
\* its length makes it seem to fit.
THEOREM ApsAreFound == Spec => []ApsFound
<1>1. ASSUME Given
      PROVE  ApsFound
  <2>1. ASSUME given.to = "scan"
        PROVE  ScanFound(given.args[1], Received(Len(Aps(given.args[1])), given.args[2]), given.args[3])
    <3>1. /\ given.args[1] \in SeqOf(Ssids, 3)
          /\ given.args[2] \in 0 .. 8
          /\ given.args[3] \in Stale
      BY <1>1, <2>1, Zenon DEF Given
    <3>2. given.args[1] \in Seq(Ssids)
      <4>1. PICK m \in 0 .. 3 : given.args[1] \in [1 .. m -> Ssids]
        BY <3>1, Zenon DEF SeqOf
      <4> QED BY <4>1
    <3>3. Len(Aps(given.args[1])) \in Nat
      <4>1. PICK r \in Seq(Seq(Nat)) : Aps(given.args[1]) = FlattenSeq(r)
        BY <3>2, ApsAre, Zenon
      <4>2. Aps(given.args[1]) \in Seq(Nat)
        BY <4>1, FlattenType
      <4> QED BY <4>2
    <3>4. given.args[2] \in Nat
      BY <3>1
    <3>5. Received(Len(Aps(given.args[1])), given.args[2]) \in 0 .. Len(Aps(given.args[1]))
      BY <3>3, <3>4, ReceivedIs, Zenon
    <3> QED BY <3>1, <3>2, <3>5, ScanIsFound, Zenon
  <2> QED BY <2>1, Zenon DEF ApsFound
<1> QED
  BY <1>1, GivenAlways, PTL

-----------------------------------------------------------------------------
(* Numbers that are read.                                                  *)

LEMMA CharactersAre ==
    /\ \A c \in Digit : c \in Nat /\ c <= 9
    /\ 0 \in Digit /\ Dot \notin Digit /\ Letter \notin Digit /\ End \notin Digit
    /\ Dot # End /\ Letter # Dot /\ Letter # End
  BY SMT DEF Digit, Dot, Letter, End

LEMMA AtIs ==
    ASSUME NEW T, NEW s \in Seq(T)
    PROVE  /\ \A k \in 1 .. Len(s) : At(s, k) = s[k]
           /\ \A k \in Nat : k > Len(s) => At(s, k) = End
           /\ Zeros(s) = {k \in 1 .. Len(s) : At(s, k) = 0}
<1>1. \A k \in 1 .. Len(s) : At(s, k) = s[k]
  BY DEF At
<1>2. \A k \in Nat : k > Len(s) => At(s, k) = End
  BY DEF At
<1>3. DOMAIN s = 1 .. Len(s)
  OBVIOUS
<1>4. Zeros(s) = {k \in 1 .. Len(s) : At(s, k) = 0}
  BY <1>1, <1>3, Zenon DEF Zeros
<1> QED
  BY <1>1, <1>2, <1>4, Zenon

\* What a loop that skips characters stops at.
LEMMA SkipIs ==
    ASSUME NEW T, NEW s \in Seq(T), NEW i \in Nat, NEW j \in i .. Len(s) + 1, NEW P,
           j \notin P, \A k \in i .. j - 1 : k \in P
    PROVE  Skip(s, i, P) = j
<1> DEFINE Stop(x) == x \notin P /\ i .. x - 1 \subseteq P
<1>1. Stop(j)
  OBVIOUS
<1>2. ASSUME NEW x \in i .. Len(s) + 1, Stop(x)
      PROVE  x = j
  <2>1. CASE x < j
    <3>1. x \in i .. j - 1
      BY <2>1
    <3> QED BY <1>2, <3>1
  <2>2. CASE j < x
    <3>1. j \in i .. x - 1
      BY <2>2
    <3> QED BY <1>2, <3>1
  <2> QED BY <2>1, <2>2
<1> HIDE DEF Stop
<1>3. j = CHOOSE x \in i .. Len(s) + 1 : Stop(x)
  BY <1>1, <1>2, Zenon
<1> QED
  BY <1>3, Zenon DEF Skip, Stop

\* So many digits, and then something else.
LEMMA LengthIs ==
    ASSUME NEW s, NEW j \in Nat, NEW n \in Nat,
           \A k \in 0 .. n - 1 : At(s, j + k) \in Digit, At(s, j + n) \notin Digit
    PROVE  Length(s, j) = IF n >= 4 THEN 4 ELSE n
<1> DEFINE m == IF n >= 4 THEN 4 ELSE n
           Stop(x) == /\ \A k \in 0 .. x - 1 : At(s, j + k) \in Digit
                      /\ x = 4 \/ At(s, j + x) \notin Digit
<1>1. m \in 0 .. 4 /\ Stop(m)
  OBVIOUS
<1>2. ASSUME NEW x \in 0 .. 4, Stop(x)
      PROVE  x = m
  <2>1. CASE x < m
    <3>1. x \in 0 .. n - 1 /\ x # 4
      BY <2>1
    <3> QED BY <1>2, <3>1
  <2>2. CASE m < x
    <3>1. n \in 0 .. x - 1
      BY <2>2
    <3> QED BY <1>2, <3>1
  <2> QED BY <1>1, <2>1, <2>2
<1> HIDE DEF Stop, m
<1>3. m = CHOOSE x \in 0 .. 4 : Stop(x)
  BY <1>1, <1>2, Zenon
<1>4. Length(s, j) = m
  BY <1>3, Zenon DEF Length, Stop
<1> QED
  BY <1>4, Zenon DEF m

LEMMA LeadingZeros ==
    ASSUME NEW u \in Seq(Nat)
    PROVE  \E z \in 0 .. Len(u) : /\ \A k \in 1 .. z : u[k] = 0
                                  /\ z = Len(u) \/ u[z + 1] # 0
<1>1. PICK d \in Nat : d = Len(u)
  OBVIOUS
<1> DEFINE S == {x \in Nat : x <= d /\ (x = d \/ u[x + 1] # 0)}
<1>2. d \in S /\ S \in SUBSET Nat
  BY <1>1
<1>3. PICK z \in S : \A x \in S : z <= x
  BY <1>2, LeastNumber
<1>4. ASSUME NEW k \in 1 .. z
      PROVE  u[k] = 0
  <2>1. k - 1 \in Nat /\ k - 1 < z /\ (k - 1) + 1 = k /\ k - 1 <= d /\ k - 1 # d
    BY <1>3
  <2>2. k - 1 \notin S
    <3>1. z <= k - 1 => FALSE
      BY <1>3, <2>1
    <3> HIDE DEF S
    <3> QED BY <1>3, <3>1
  <2> QED BY <2>1, <2>2
<1>5. z \in 0 .. d /\ (z = d \/ u[z + 1] # 0)
  BY <1>3
<1> HIDE DEF S
<1> QED
  BY <1>1, <1>4, <1>5, Zenon

LEMMA UptoZeros ==
    ASSUME NEW u \in Seq(Nat), NEW z \in 0 .. Len(u), \A k \in 1 .. z : u[k] = 0
    PROVE  Upto(u, z) = 0
<1> DEFINE S == {k \in Nat : k <= z => Upto(u, k) = 0}
<1>1. 0 \in S /\ S \in SUBSET Nat
  BY UptoNone
<1>2. ASSUME NEW k \in Nat \ {0}, k - 1 \in S
      PROVE  k \in S
  <2> SUFFICES ASSUME k <= z PROVE Upto(u, k) = 0
    OBVIOUS
  <2>1. k \in 1 .. Len(u) /\ k \in 1 .. z /\ k - 1 <= z
    OBVIOUS
  <2>2. Upto(u, k - 1) = 0
    BY <1>2, <2>1
  <2>3. Upto(u, k) = 10 * Upto(u, k - 1) + u[k]
    BY <2>1, UptoNext, Zenon
  <2>4. u[k] = 0
    BY <2>1, Zenon
  <2>5. 10 * 0 + 0 = 0
    OBVIOUS
  <2> QED BY <2>2, <2>3, <2>4, <2>5, Zenon
<1>3. z \in S
  <2>1. z \in Nat
    OBVIOUS
  <2> HIDE DEF S
  <2>2. S = Nat
    BY <1>1, <1>2, Induction, Zenon
  <2> QED BY <2>1, <2>2, Zenon
<1> QED
  BY <1>3

LEMMA UptoGrows ==
    ASSUME NEW u \in Seq(Nat), NEW a \in 0 .. Len(u), NEW b \in a .. Len(u)
    PROVE  Upto(u, a) <= Upto(u, b)
<1>1. PICK m \in Nat : m = Upto(u, a)
  BY UptoType, Zenon
<1> DEFINE S == {k \in Nat : a <= k /\ k <= Len(u) => m <= Upto(u, k)}
<1>2. ASSUME NEW k \in Nat, k = 0 \/ k - 1 \in S
      PROVE  k \in S
  <2> SUFFICES ASSUME a <= k, k <= Len(u) PROVE m <= Upto(u, k)
    OBVIOUS
  <2>1. CASE k = a
    BY <1>1, <2>1
  <2>2. CASE k # a
    <3>1. k \in 1 .. Len(u) /\ a <= k - 1 /\ k - 1 <= Len(u) /\ k - 1 \in 0 .. Len(u) /\ k # 0
      BY <2>2
    <3>2. m <= Upto(u, k - 1)
      BY <1>2, <3>1
    <3>3. Upto(u, k) = 10 * Upto(u, k - 1) + u[k]
      BY <3>1, UptoNext, Zenon
    <3>4. PICK x \in Nat, y \in Nat : x = Upto(u, k - 1) /\ y = u[k]
      <4>1. Upto(u, k - 1) \in Nat
        BY <3>1, UptoType, Zenon
      <4>2. u[k] \in Nat
        BY <3>1
      <4> QED BY <4>1, <4>2, Zenon
    <3>5. Upto(u, k) = 10 * x + y /\ m <= x
      BY <3>2, <3>3, <3>4, Zenon
    <3> QED BY <3>5
  <2> QED BY <2>1, <2>2
<1>3. S \in SUBSET Nat
  OBVIOUS
<1> HIDE DEF S
<1>4. S = Nat
  <2>1. 0 \in S
    BY <1>2
  <2> QED BY <1>2, <1>3, <2>1, Induction
<1>5. b \in S /\ a <= b /\ b <= Len(u)
  BY <1>4
<1> QED
  BY <1>1, <1>5 DEF S

\* The value of digits behind z zeros.
ValueBehind(u, z) ==
    /\ Value(u) \in Nat
    /\ Len(u) = z => Value(u) = 0
    /\ Len(u) = z + 1 => Value(u) = u[z + 1]
    /\ Len(u) = z + 2 => Value(u) = 10 * u[z + 1] + u[z + 2]
    /\ Len(u) = z + 3 => Value(u) = 100 * u[z + 1] + 10 * u[z + 2] + u[z + 3]
    /\ Len(u) > z + 3 => Value(u) > 255

LEMMA BehindZeros ==
    ASSUME NEW u \in Seq(Digit), NEW z \in 0 .. Len(u), \A k \in 1 .. z : u[k] = 0,
           z = Len(u) \/ u[z + 1] # 0
    PROVE  ValueBehind(u, z)
<1>1. PICK d \in Nat : d = Len(u) /\ z <= d
  OBVIOUS
<1>2. u \in Seq(Nat) /\ \A k \in 1 .. d : u[k] \in Nat
  <2>1. \A c \in Digit : c \in Nat
    BY CharactersAre, Zenon
  <2>2. Digit \subseteq Nat
    BY <2>1, Zenon
  <2>3. u \in Seq(Nat)
    BY <2>2, WiderSeq, Zenon
  <2> QED BY <1>1, <2>3, ElementOfSeq
<1>3. Value(u) = Upto(u, d) /\ Value(u) \in Nat
  BY <1>1, <1>2, ValueType
<1>4. Upto(u, z) = 0
  BY <1>2, UptoZeros, Zenon
<1>5. ASSUME NEW k \in 0 .. d - 1
      PROVE  Upto(u, k + 1) = 10 * Upto(u, k) + u[k + 1] /\ u[k + 1] \in Nat
  <2>1. k + 1 \in 1 .. d /\ (k + 1) - 1 = k
    BY <1>1
  <2>2. Upto(u, k + 1) = 10 * Upto(u, (k + 1) - 1) + u[k + 1]
    BY <1>1, <1>2, <2>1, UptoNext, Zenon
  <2> QED BY <1>2, <2>1, <2>2, Zenon
<1>6. d >= z + 1 => Upto(u, z + 1) = u[z + 1] /\ u[z + 1] \in Nat
  <2> SUFFICES ASSUME d >= z + 1
               PROVE  Upto(u, z + 1) = u[z + 1] /\ u[z + 1] \in Nat
    OBVIOUS
  <2>1. z \in 0 .. d - 1
    BY <1>1
  <2>2. PICK a \in Nat : a = u[z + 1]
    BY <1>5, <2>1, Zenon
  <2>3. Upto(u, z + 1) = 10 * 0 + a
    BY <1>4, <1>5, <2>1, <2>2, Zenon
  <2> QED BY <2>2, <2>3
<1>7. d >= z + 2 => Upto(u, z + 2) = 10 * u[z + 1] + u[z + 2] /\ u[z + 2] \in Nat
  <2> SUFFICES ASSUME d >= z + 2
               PROVE  Upto(u, z + 2) = 10 * u[z + 1] + u[z + 2] /\ u[z + 2] \in Nat
    OBVIOUS
  <2>1. z + 1 \in 0 .. d - 1 /\ (z + 1) + 1 = z + 2 /\ d >= z + 1
    BY <1>1
  <2> QED BY <1>5, <1>6, <2>1, Zenon
<1>8. d >= z + 3 => /\ Upto(u, z + 3) = 100 * u[z + 1] + 10 * u[z + 2] + u[z + 3]
                    /\ u[z + 3] \in Nat
  <2> SUFFICES ASSUME d >= z + 3
               PROVE  /\ Upto(u, z + 3) = 100 * u[z + 1] + 10 * u[z + 2] + u[z + 3]
                      /\ u[z + 3] \in Nat
    OBVIOUS
  <2>1. z + 2 \in 0 .. d - 1 /\ (z + 2) + 1 = z + 3 /\ d >= z + 2 /\ d >= z + 1
    BY <1>1
  <2>2. PICK a \in Nat, b \in Nat, c \in Nat :
            a = u[z + 1] /\ b = u[z + 2] /\ c = u[z + 3]
    BY <1>5, <1>6, <1>7, <2>1, Zenon
  <2>3. Upto(u, z + 3) = 10 * (10 * a + b) + c
    BY <1>5, <1>7, <2>1, <2>2, Zenon
  <2>4. 10 * (10 * a + b) + c = 100 * a + 10 * b + c
    OBVIOUS
  <2> QED BY <2>2, <2>3, <2>4
<1>9. d > z + 3 => Value(u) > 255
  <2> SUFFICES ASSUME d > z + 3
               PROVE  Value(u) > 255
    OBVIOUS
  <2>1. /\ z + 3 \in 0 .. d - 1 /\ (z + 3) + 1 = z + 4 /\ d >= z + 3 /\ d >= z + 2 /\ d >= z + 1
        /\ z + 4 \in 0 .. d /\ d \in z + 4 .. d
    BY <1>1
  <2>2. PICK a \in Nat, b \in Nat, c \in Nat, e \in Nat :
            a = u[z + 1] /\ b = u[z + 2] /\ c = u[z + 3] /\ e = u[z + 4]
    <3>1. u[z + 1] \in Nat /\ u[z + 2] \in Nat /\ u[z + 3] \in Nat
      BY <1>6, <1>7, <1>8, <2>1, SMT
    <3>2. u[z + 4] \in Nat
      BY <1>5, <2>1, Zenon
    <3> QED BY <3>1, <3>2, Zenon
  <2>3. PICK x \in Nat : x = Upto(u, z + 3) /\ x = 100 * a + 10 * b + c
    <3>1. Upto(u, z + 3) = 100 * a + 10 * b + c
      BY <1>8, <2>1, <2>2
    <3> QED BY <3>1
  <2>4. Upto(u, z + 4) = 10 * x + e
    BY <1>5, <2>1, <2>2, <2>3, Zenon
  <2>5. a # 0
    <3>1. z # d
      BY <2>1
    <3> QED BY <1>1, <2>2, <3>1, Zenon
  <2>6. 10 * x + e > 255
    BY <2>3, <2>5
  <2>7. Upto(u, z + 4) <= Upto(u, d)
    BY <1>1, <1>2, <2>1, UptoGrows, Zenon
  <2>8. PICK v \in Nat : v = Value(u)
    BY <1>3, Zenon
  <2>9. 10 * x + e <= v
    BY <1>3, <2>4, <2>7, <2>8, Zenon
  <2>10. v > 255
    BY <2>6, <2>9
  <2> QED BY <2>8, <2>10, Zenon
<1>10. PICK v \in Nat : v = Value(u) /\ v = Upto(u, d)
  BY <1>3, Zenon
<1>11. /\ d = z => v = 0
       /\ d = z + 1 => v = u[z + 1]
       /\ d = z + 2 => v = 10 * u[z + 1] + u[z + 2]
       /\ d = z + 3 => v = 100 * u[z + 1] + 10 * u[z + 2] + u[z + 3]
  <2>1. d = z => v = 0
    BY <1>4, <1>10
  <2>2. d = z + 1 => v = u[z + 1]
    BY <1>6, <1>10
  <2>3. d = z + 2 => v = 10 * u[z + 1] + u[z + 2]
    BY <1>7, <1>10
  <2>4. d = z + 3 => v = 100 * u[z + 1] + 10 * u[z + 2] + u[z + 3]
    BY <1>8, <1>10
  <2> QED BY <2>1, <2>2, <2>3, <2>4, Zenon
<1> QED
  BY <1>1, <1>9, <1>10, <1>11 DEF ValueBehind

\* The cases of TooBig() are the numbers of three digits above 255.
Over(a, b, c) ==
    \/ a > 2
    \/ a = 2 /\ b > 5
    \/ a = 2 /\ b = 5 /\ c > 5

LEMMA OverIs ==
    ASSUME NEW a \in Nat, NEW b \in Nat, NEW c \in Nat, a <= 9, b <= 9, c <= 9
    PROVE  Over(a, b, c) <=> 100 * a + 10 * b + c > 255
  BY DEF Over

\* From i on the text has the digits u, and no more of them.
Run(s, i, u) ==
    /\ i \in Nat \ {0} /\ i + Len(u) <= Len(s) + 1
    /\ \A k \in 1 .. Len(u) : At(s, i + k - 1) = u[k]
    /\ At(s, i + Len(u)) \notin Digit

\* What both functions find behind the zeros that they skip: j is where they stop.
ReadFrom(s, i, j, n, u) ==
    /\ j \in i .. Len(s) + 1
    /\ Length(s, j) = IF n >= 4 THEN 4 ELSE n
    /\ j + n = i + Len(u)
    /\ n = 0 => Value(u) = 0
    /\ n >= 4 => Value(u) > 255
    /\ n = 3 => (TooBig(s, j) <=> Value(u) > 255)
    /\ n \in 1 .. 2 => ~(Value(u) > 255)
    /\ n \in 1 .. 2 \/ (n = 3 /\ ~TooBig(s, j)) => Counted(s, j, n) = Value(u)

\* The character at x is the digit at y.
Same(s, x, u, y) ==
    /\ u[y] = s[x] /\ u[y] = At(s, x)
    /\ u[y] \in Digit /\ u[y] \in Nat /\ u[y] <= 9

LEMMA TwoDigits ==
    ASSUME NEW a \in Nat, NEW b \in Nat, a <= 9, b <= 9
    PROVE  ~(10 * a + b > 255)
  OBVIOUS

LEMMA RunFrom ==
    ASSUME NEW s \in Texts, NEW i, NEW u \in Seq(Digit), Run(s, i, u),
           NEW z \in 0 .. Len(u), \A k \in 1 .. z : u[k] = 0,
           z = Len(u) \/ u[z + 1] # 0,
           NEW j, NEW n \in Nat, n <= Len(u), j = i + Len(u) - n,
           n = Len(u) - z \/ (n = 1 /\ z = Len(u))
    PROVE  ReadFrom(s, i, j, n, u)
<1>1. PICK d \in Nat : d = Len(u) /\ z <= d
  OBVIOUS
<1>2. \A k \in 1 .. d : u[k] \in Digit /\ u[k] \in Nat /\ u[k] <= 9
  <2>1. \A k \in 1 .. d : u[k] \in Digit
    BY <1>1, ElementOfSeq
  <2> QED BY <2>1, CharactersAre, Zenon
<1>3. PICK w \in Nat : w = Len(s)
  BY DEF Texts
<1>4. /\ i \in Nat \ {0} /\ i + d <= w + 1
      /\ \A k \in 1 .. d : At(s, i + k - 1) = u[k]
      /\ At(s, i + d) \notin Digit
  BY <1>1, <1>3, Zenon DEF Run
<1>5. j = i + d - n /\ j \in i .. w + 1 /\ j \in Nat /\ j + n = i + d
  BY <1>1, <1>4
<1>13. i \in Nat \ {0} /\ i + d <= w + 1
  BY <1>4, Zenon
<1>6. \A k \in 0 .. n - 1 : At(s, j + k) = u[d - n + k + 1] /\ d - n + k + 1 \in 1 .. d
  <2> SUFFICES ASSUME NEW k \in 0 .. n - 1
               PROVE  At(s, j + k) = u[d - n + k + 1] /\ d - n + k + 1 \in 1 .. d
    OBVIOUS
  <2>1. PICK x \in 1 .. d : x = d - n + k + 1
    <3>1. d - n + k + 1 \in 1 .. d
      BY <1>1
    <3> QED BY <3>1, Zenon
  <2>2. i + x - 1 = j + k
    BY <1>5, <1>13, <2>1
  <2> QED BY <1>4, <2>1, <2>2, Zenon
<1>7. \A k \in 0 .. n - 1 : At(s, j + k) \in Digit
  BY <1>2, <1>6, Zenon
<1>8. Length(s, j) = IF n >= 4 THEN 4 ELSE n
  <2>1. At(s, j + n) \notin Digit
    BY <1>4, <1>5, Zenon
  <2> QED BY <1>5, <1>7, <2>1, LengthIs, Zenon
<1>9. PICK v \in Nat :
          /\ v = Value(u)
          /\ d = z => v = 0
          /\ d = z + 1 => v = u[z + 1]
          /\ d = z + 2 => v = 10 * u[z + 1] + u[z + 2]
          /\ d = z + 3 => v = 100 * u[z + 1] + 10 * u[z + 2] + u[z + 3]
          /\ d > z + 3 => v > 255
  <2>1. ValueBehind(u, z)
    BY BehindZeros, Zenon
  <2> QED BY <1>1, <2>1 DEF ValueBehind
<1>10. \A k \in 0 .. n - 1 : j + k \in 1 .. w => Same(s, j + k, u, d - n + k + 1)
  <2>1. \A k \in 1 .. w : At(s, k) = s[k]
    BY <1>3, AtIs DEF Texts
  <2> QED BY <1>2, <1>6, <2>1, Zenon DEF Same
<1>11. CASE z = d /\ n = 1
  <2>1. j \in 1 .. w /\ d \in 1 .. d /\ 0 \in 0 .. n - 1 /\ d - n + 0 + 1 = d /\ j + 0 = j
        /\ n - 1 = 0 /\ j + n - 1 = j /\ d \in 1 .. z
    BY <1>1, <1>3, <1>4, <1>5, <1>11
  <2>2. s[j] = 0
    <3>1. Same(s, j, u, d)
      BY <1>10, <2>1, Zenon
    <3> QED BY <1>1, <2>1, <3>1, Zenon DEF Same
  <2>3. Counted(s, j, n) = 0
    BY <1>5, <1>11, <2>1, <2>2 DEF Counted
  <2>4. v = 0 /\ ~(v > 255) /\ ~(n >= 4) /\ n # 3 /\ n # 0
    BY <1>9, <1>11
  <2> QED BY <1>3, <1>1, <1>5, <1>8, <1>9, <2>3, <2>4, Zenon DEF ReadFrom
<1>12. CASE n = d - z
  <2>1. CASE n = 0
    <3>1. v = 0 /\ ~(n >= 4) /\ n # 3 /\ n \notin 1 .. 2
      BY <1>1, <1>9, <1>12, <2>1
    <3> QED BY <1>1, <1>3, <1>5, <1>8, <1>9, <3>1, Zenon DEF ReadFrom
  <2>2. CASE n = 1
    <3>1. /\ j \in 1 .. w /\ 0 \in 0 .. n - 1 /\ d - n + 0 + 1 = z + 1 /\ j + 0 = j
          /\ j + n - 1 = j /\ d = z + 1
      BY <1>1, <1>5, <1>12, <1>13, <2>2
    <3>2. PICK a \in Nat : a = u[z + 1] /\ a = s[j] /\ a <= 9
      <4>1. Same(s, j, u, z + 1)
        BY <1>10, <3>1, Zenon
      <4> QED BY <4>1, Zenon DEF Same
    <3>3. v = a
      BY <1>9, <3>1, <3>2, Zenon
    <3>4. Counted(s, j, n) = v
      BY <2>2, <3>1, <3>2, <3>3 DEF Counted
    <3>5. ~(v > 255) /\ ~(n >= 4) /\ n # 3 /\ n # 0
      BY <2>2, <3>2, <3>3
    <3> QED BY <1>1, <1>3, <1>5, <1>8, <1>9, <3>4, <3>5, Zenon DEF ReadFrom
  <2>3. CASE n = 2
    <3>1. /\ j \in 1 .. w /\ j + 1 \in 1 .. w /\ 0 \in 0 .. n - 1 /\ 1 \in 0 .. n - 1
          /\ d - n + 0 + 1 = z + 1 /\ d - n + 1 + 1 = z + 2 /\ j + 0 = j
          /\ j + n - 2 = j /\ j + n - 1 = j + 1 /\ d = z + 2
      BY <1>1, <1>4, <1>5, <1>12, <2>3
    <3>2. PICK a \in Nat : a = u[z + 1] /\ a = s[j] /\ a <= 9
      <4>1. Same(s, j, u, z + 1)
        BY <1>10, <3>1, Zenon
      <4> QED BY <4>1, Zenon DEF Same
    <3>3. PICK b \in Nat : b = u[z + 2] /\ b = s[j + 1] /\ b <= 9
      <4>1. Same(s, j + 1, u, z + 2)
        BY <1>10, <3>1, Zenon
      <4> QED BY <4>1, Zenon DEF Same
    <3>4. v = 10 * a + b
      BY <1>9, <3>1, <3>2, <3>3
    <3>5. Counted(s, j, n) = v
      BY <2>3, <3>1, <3>2, <3>3, <3>4 DEF Counted
    <3>6. ~(v > 255) /\ ~(n >= 4) /\ n # 3 /\ n # 0
      <4>1. ~(10 * a + b > 255)
        BY <3>2, <3>3, TwoDigits, Zenon
      <4> QED BY <2>3, <3>4, <4>1
    <3> QED BY <1>1, <1>3, <1>5, <1>8, <1>9, <3>5, <3>6, Zenon DEF ReadFrom
  <2>4. CASE n = 3
    <3>1. /\ j \in 1 .. w /\ j + 1 \in 1 .. w /\ j + 2 \in 1 .. w
          /\ 0 \in 0 .. n - 1 /\ 1 \in 0 .. n - 1 /\ 2 \in 0 .. n - 1
          /\ d - n + 0 + 1 = z + 1 /\ d - n + 1 + 1 = z + 2 /\ d - n + 2 + 1 = z + 3
          /\ j + 0 = j /\ j + n - 2 = j + 1 /\ j + n - 1 = j + 2 /\ d = z + 3
      BY <1>1, <1>4, <1>5, <1>12, <2>4
    <3>2. PICK a \in Digit : a = u[z + 1] /\ a = s[j] /\ a = At(s, j)
      <4>1. Same(s, j, u, z + 1)
        BY <1>10, <3>1, Zenon
      <4> QED BY <4>1, Zenon DEF Same
    <3>3. PICK b \in Digit : b = u[z + 2] /\ b = s[j + 1] /\ b = At(s, j + 1)
      <4>1. Same(s, j + 1, u, z + 2)
        BY <1>10, <3>1, Zenon
      <4> QED BY <4>1, Zenon DEF Same
    <3>4. PICK c \in Digit : c = u[z + 3] /\ c = s[j + 2] /\ c = At(s, j + 2)
      <4>1. Same(s, j + 2, u, z + 3)
        BY <1>10, <3>1, Zenon
      <4> QED BY <4>1, Zenon DEF Same
    <3>5. a \in Nat /\ b \in Nat /\ c \in Nat
      BY CharactersAre, Zenon
    <3>6. v = 100 * a + 10 * b + c
      BY <1>9, <3>1, <3>2, <3>3, <3>4
    <3>7. Counted(s, j, n) = v
      <4>1. Counted(s, j, n) = (IF n = 3 THEN 100 * a ELSE 0) + (IF n >= 2 THEN 10 * b ELSE 0) + c
        BY <3>1, <3>2, <3>3, <3>4, Zenon DEF Counted
      <4> QED BY <2>4, <3>5, <3>6, <4>1
    <3>8. TooBig(s, j) <=> v > 255
      <4>1. At(s, j) = a /\ At(s, j + 1) = b /\ At(s, j + 2) = c
        BY <3>2, <3>3, <3>4, Zenon
      <4>2. TooBig(s, j) <=> Over(a, b, c)
        BY <4>1, Zenon DEF TooBig, Over
      <4>3. a <= 9 /\ b <= 9 /\ c <= 9
        BY CharactersAre, Zenon
      <4>4. Over(a, b, c) <=> 100 * a + 10 * b + c > 255
        BY <3>5, <4>3, OverIs
      <4> QED BY <3>6, <4>2, <4>4
    <3>9. ~(n >= 4) /\ n \notin 1 .. 2 /\ n # 0
      BY <2>4
    <3> QED BY <1>1, <1>3, <1>5, <1>8, <1>9, <3>7, <3>8, <3>9, Zenon DEF ReadFrom
  <2>5. CASE n >= 4
    <3>1. v > 255 /\ n # 3 /\ n # 0 /\ n \notin 1 .. 2
      BY <1>1, <1>9, <1>12, <2>5
    <3> QED BY <1>1, <1>3, <1>5, <1>8, <1>9, <3>1, Zenon DEF ReadFrom
  <2>6. n = 0 \/ n = 1 \/ n = 2 \/ n = 3 \/ n >= 4
    OBVIOUS
  <2> QED BY <2>1, <2>2, <2>3, <2>4, <2>5, <2>6, Zenon
<1> QED
  BY <1>1, <1>11, <1>12, Zenon

\* str_is_uint8() takes a number of 8 bits, and ends behind it.
LEMMA NumberTaken ==
    ASSUME NEW s \in Texts, NEW i, NEW u \in Seq(Digit), Run(s, i, u)
    PROVE  str_is_uint8(s, i) = IF Len(u) = 0 \/ Value(u) > 255 THEN NULL ELSE i + Len(u)
<1>1. PICK d \in Nat : d = Len(u)
  OBVIOUS
<1>2. \A k \in 1 .. d : u[k] \in Digit
  BY <1>1, ElementOfSeq
<1>3. PICK z \in 0 .. d : /\ \A k \in 1 .. z : u[k] = 0
                          /\ z = d \/ u[z + 1] # 0
  <2>1. \A c \in Digit : c \in Nat
    BY CharactersAre, Zenon
  <2>2. Digit \subseteq Nat
    BY <2>1, Zenon
  <2>3. u \in Seq(Nat)
    BY <2>2, WiderSeq, Zenon
  <2> QED BY <1>1, <2>3, LeadingZeros, Zenon
<1>4. PICK w \in Nat : w = Len(s)
  BY DEF Texts
<1>5. /\ i \in Nat \ {0} /\ i + d <= w + 1
      /\ \A k \in 1 .. d : At(s, i + k - 1) = u[k]
      /\ At(s, i + d) \notin Digit
  BY <1>1, <1>4, Zenon DEF Run
<1>6. Zeros(s) = {k \in 1 .. w : At(s, k) = 0}
  BY <1>4, AtIs DEF Texts
<1> DEFINE P == {k \in Zeros(s) : At(s, k + 1) \in Digit}
<1>7. PICK n \in 0 .. d : n = IF z < d THEN d - z ELSE IF d = 0 THEN 0 ELSE 1
  <2>1. (IF z < d THEN d - z ELSE IF d = 0 THEN 0 ELSE 1) \in 0 .. d
    BY <1>3
  <2> QED BY <2>1, Zenon
<1>8. PICK j \in i .. w + 1 : j = i + d - n
  <2>1. i + d - n \in i .. w + 1
    BY <1>5, <1>7
  <2> QED BY <2>1, Zenon
<1>9. j \notin P
  <2>1. CASE z < d
    <3>1. z + 1 \in 1 .. d /\ i + (z + 1) - 1 = j /\ z # d
      BY <1>3, <1>5, <1>7, <1>8, <2>1
    <3>2. At(s, j) # 0
      BY <1>3, <1>5, <3>1, Zenon
    <3> QED BY <1>6, <3>2, Zenon
  <2>2. CASE d = 0
    <3>1. j = i + d
      BY <1>3, <1>7, <1>8, <2>2
    <3>2. At(s, j) # 0
      BY <1>5, <3>1, CharactersAre, Zenon
    <3> QED BY <1>6, <3>2, Zenon
  <2>3. CASE z = d /\ d # 0
    <3>1. j + 1 = i + d
      BY <1>5, <1>7, <1>8, <2>3
    <3> QED BY <1>5, <3>1, Zenon
  <2> QED BY <1>3, <2>1, <2>2, <2>3
<1>10. ASSUME NEW k \in i .. j - 1
       PROVE  k \in P
  <2>1. PICK x \in 1 .. z : x = k - i + 1 /\ i + x - 1 = k /\ x \in 1 .. d /\ x + 1 \in 1 .. d
                            /\ i + (x + 1) - 1 = k + 1 /\ k \in 1 .. w
    <3>1. i \in Nat \ {0} /\ i + d <= w + 1
      BY <1>5, Zenon
    <3>2. z < d => n = d - z
      BY <1>7
    <3>3. z \in 0 .. d /\ (z = d => j < i + d \/ d = 0)
      BY <1>3, <1>7, <1>8, <3>1
    <3>4. k - i + 1 \in 1 .. z /\ k - i + 2 \in 1 .. d /\ k \in 1 .. w
      BY <1>3, <1>7, <1>8, <3>1, <3>2
    <3>5. k - i + 1 \in 1 .. d /\ i + (k - i + 1) - 1 = k /\ i + (k - i + 1 + 1) - 1 = k + 1
          /\ k - i + 1 + 1 = k - i + 2
      BY <3>1, <3>3, <3>4
    <3> QED BY <3>4, <3>5, Zenon
  <2>2. At(s, k) = 0
    BY <1>3, <1>5, <2>1, Zenon
  <2>3. At(s, k + 1) \in Digit
    BY <1>2, <1>5, <2>1, Zenon
  <2> QED BY <1>6, <2>1, <2>2, <2>3, Zenon
<1>11. Skip(s, i, P) = j
  <2> HIDE DEF P
  <2>1. i \in Nat /\ j \in i .. Len(s) + 1
    BY <1>4, <1>5
  <2> QED BY <1>9, <1>10, <2>1, SkipIs DEF Texts
<1>12. n = d - z \/ (n = 1 /\ z = d)
  BY <1>3, <1>7
<1>13. /\ Length(s, j) = IF n >= 4 THEN 4 ELSE n
       /\ j + n = i + d
       /\ n >= 4 => Value(u) > 255
       /\ n = 3 => (TooBig(s, j) <=> Value(u) > 255)
       /\ n \in 1 .. 2 => ~(Value(u) > 255)
  <2>1. n \in Nat /\ n <= d
    BY <1>7
  <2>2. ReadFrom(s, i, j, n, u)
    BY <1>1, <1>3, <1>8, <1>12, <2>1, RunFrom, Zenon
  <2> QED BY <1>1, <2>2, Zenon DEF ReadFrom
<1> DEFINE m == Length(s, j)
<1>14. str_is_uint8(s, i) = IF m \in {0, 4} \/ (m = 3 /\ TooBig(s, j)) THEN NULL ELSE j + m
  BY <1>11, Zenon DEF str_is_uint8
<1>15. PICK v \in Nat : v = Value(u)
  <2>1. ValueBehind(u, z)
    BY <1>1, <1>3, BehindZeros, Zenon
  <2> QED BY <2>1, Zenon DEF ValueBehind
<1>16. n = 0 <=> d = 0
  BY <1>3, <1>7
<1> HIDE DEF m
<1>17. m = IF n >= 4 THEN 4 ELSE n
  BY <1>13, Zenon DEF m
<1>18. CASE n >= 4
  <2>1. m = 4 /\ v > 255
    BY <1>13, <1>15, <1>17, <1>18
  <2> QED BY <1>14, <1>15, <2>1, Zenon
<1>19. CASE n = 0
  <2>1. m = 0
    BY <1>17, <1>19
  <2> QED BY <1>1, <1>14, <1>16, <1>19, <2>1, Zenon
<1>20. CASE n = 3
  <2>1. m = 3 /\ n # 0 /\ m \notin {0, 4}
    BY <1>17, <1>20
  <2> QED BY <1>1, <1>13, <1>14, <1>16, <1>20, <2>1, Zenon
<1>21. CASE n \in 1 .. 2
  <2>1. m = n /\ n # 0 /\ m # 3 /\ m \notin {0, 4} /\ ~(v > 255)
    BY <1>13, <1>15, <1>17, <1>21
  <2> QED BY <1>1, <1>13, <1>14, <1>15, <1>16, <2>1, Zenon
<1>22. n >= 4 \/ n = 0 \/ n = 3 \/ n \in 1 .. 2
  OBVIOUS
<1> QED
  BY <1>18, <1>19, <1>20, <1>21, <1>22, Zenon

\* str_to_uint8() reads it as its value.
LEMMA NumberRead ==
    ASSUME NEW s \in Texts, NEW i, NEW u \in Seq(Digit), Run(s, i, u), ~(Value(u) > 255)
    PROVE  str_to_uint8(s, i) = [at |-> i + Len(u), value |-> Value(u)]
<1>1. PICK d \in Nat : d = Len(u)
  OBVIOUS
<1>2. PICK z \in 0 .. d : /\ \A k \in 1 .. z : u[k] = 0
                          /\ z = d \/ u[z + 1] # 0
  <2>1. \A c \in Digit : c \in Nat
    BY CharactersAre, Zenon
  <2>2. Digit \subseteq Nat
    BY <2>1, Zenon
  <2>3. u \in Seq(Nat)
    BY <2>2, WiderSeq, Zenon
  <2> QED BY <1>1, <2>3, LeadingZeros, Zenon
<1>3. PICK w \in Nat : w = Len(s)
  BY DEF Texts
<1>4. /\ i \in Nat \ {0} /\ i + d <= w + 1
      /\ \A k \in 1 .. d : At(s, i + k - 1) = u[k]
      /\ At(s, i + d) \notin Digit
  BY <1>1, <1>3, Zenon DEF Run
<1>5. Zeros(s) = {k \in 1 .. w : At(s, k) = 0}
  BY <1>3, AtIs DEF Texts
<1>6. PICK n \in 0 .. d : n = d - z
  BY <1>2
<1>7. PICK j \in i .. w + 1 : j = i + d - n
  BY <1>4, <1>6
<1>8. j \notin Zeros(s)
  <2>1. CASE z < d
    <3>1. z + 1 \in 1 .. d /\ i + (z + 1) - 1 = j /\ z # d
      BY <1>2, <1>4, <1>6, <1>7, <2>1
    <3>2. At(s, j) # 0
      BY <1>2, <1>4, <3>1, Zenon
    <3> QED BY <1>5, <3>2, Zenon
  <2>2. CASE z = d
    <3>1. j = i + d
      BY <1>4, <1>6, <1>7, <2>2
    <3>2. At(s, j) # 0
      BY <1>4, <3>1, CharactersAre, Zenon
    <3> QED BY <1>5, <3>2, Zenon
  <2> QED BY <1>2, <2>1, <2>2
<1>9. ASSUME NEW k \in i .. j - 1
      PROVE  k \in Zeros(s)
  <2>1. PICK x \in 1 .. z : i + x - 1 = k /\ x \in 1 .. d /\ k \in 1 .. w
    <3>1. k - i + 1 \in 1 .. z /\ i + (k - i + 1) - 1 = k /\ k - i + 1 \in 1 .. d /\ k \in 1 .. w
      BY <1>2, <1>4, <1>6, <1>7
    <3> QED BY <3>1, Zenon
  <2>2. At(s, k) = 0
    BY <1>2, <1>4, <2>1, Zenon
  <2> QED BY <1>5, <2>1, <2>2, Zenon
<1>10. Skip(s, i, Zeros(s)) = j
  <2>1. i \in Nat /\ j \in i .. Len(s) + 1
    BY <1>3, <1>4
  <2> QED BY <1>8, <1>9, <2>1, SkipIs DEF Texts
<1>11. /\ Length(s, j) = IF n >= 4 THEN 4 ELSE n
       /\ j + n = i + d
       /\ n = 0 => Value(u) = 0
       /\ n >= 4 => Value(u) > 255
       /\ n = 3 => (TooBig(s, j) <=> Value(u) > 255)
       /\ n \in 1 .. 2 \/ (n = 3 /\ ~TooBig(s, j)) => Counted(s, j, n) = Value(u)
  <2>1. n \in Nat /\ n <= d
    BY <1>6
  <2>2. ReadFrom(s, i, j, n, u)
    BY <1>1, <1>2, <1>6, <1>7, <2>1, RunFrom, Zenon
  <2> QED BY <1>1, <2>2, Zenon DEF ReadFrom
<1>12. ~(n >= 4) /\ ~(n = 3 /\ TooBig(s, j))
  BY <1>11, Zenon
<1>13. Length(s, j) = n
  BY <1>11, <1>12, Zenon
<1>14. str_to_uint8(s, i) =
           CASE n = 0 -> [at |-> j, value |-> 0]
             [] n = 4 \/ (n = 3 /\ TooBig(s, j)) -> [at |-> NULL, value |-> 0]
             [] OTHER -> [at |-> j + n, value |-> Counted(s, j, n)]
  BY <1>10, <1>13, Zenon DEF str_to_uint8
<1>15. CASE n = 0
  <2>1. n # 4 /\ n # 3 /\ j = i + d
    BY <1>7, <1>15, <1>4
  <2>2. str_to_uint8(s, i) = [at |-> j, value |-> 0]
    BY <1>14, <1>15, <2>1
  <2> QED BY <1>1, <1>11, <1>15, <2>1, <2>2, Zenon
<1>16. CASE n # 0
  <2>1. n # 4 /\ (n \in 1 .. 2 \/ n = 3)
    BY <1>12, <1>16
  <2>2. str_to_uint8(s, i) = [at |-> j + n, value |-> Counted(s, j, n)]
    BY <1>12, <1>14, <1>16, <2>1
  <2>3. Counted(s, j, n) = Value(u)
    BY <1>11, <1>12, <2>1, Zenon
  <2> QED BY <1>1, <1>11, <2>2, <2>3, Zenon
<1> QED
  BY <1>15, <1>16, Zenon

\* What the two functions make of what stands between two dots.
Field(s, i, q) ==
    /\ IsOctet(q) =>
          /\ str_is_uint8(s, i) = i + Len(q)
          /\ str_to_uint8(s, i) = [at |-> i + Len(q), value |-> Value(q)]
    /\ ~IsOctet(q) =>
          \/ str_is_uint8(s, i) = NULL
          \/ \E k \in 1 .. Len(q) :
                str_is_uint8(s, i) = i + k - 1 /\ At(s, i + k - 1) = q[k] /\ q[k] \notin Digit

LEMMA FieldIs ==
    ASSUME NEW s \in Texts, NEW i, NEW q \in Texts, Run(s, i, q)
    PROVE  Field(s, i, q)
<1>1. PICK d \in Nat : d = Len(q) /\ DOMAIN q = 1 .. d
  BY DEF Texts
<1>2. PICK w \in Nat : w = Len(s)
  BY DEF Texts
<1>3. /\ i \in Nat \ {0} /\ i + d <= w + 1
      /\ \A k \in 1 .. d : At(s, i + k - 1) = q[k]
      /\ At(s, i + d) \notin Digit
  BY <1>1, <1>2, Zenon DEF Run
<1> DEFINE S == {x \in Nat : x <= d /\ (x = d \/ q[x + 1] \notin Digit)}
<1>4. d \in S /\ S \in SUBSET Nat
  BY <1>1
<1>5. PICK e \in S : \A x \in S : e <= x
  BY <1>4, LeastNumber
<1>6. e \in 0 .. d /\ (e = d \/ q[e + 1] \notin Digit)
  BY <1>5
<1>7. ASSUME NEW k \in 1 .. e
      PROVE  q[k] \in Digit
  <2>1. k - 1 \in Nat /\ k - 1 < e /\ (k - 1) + 1 = k /\ k - 1 <= d /\ k - 1 # d
    BY <1>6
  <2>2. k - 1 \notin S
    <3>1. e <= k - 1 => FALSE
      BY <1>6, <2>1
    <3> HIDE DEF S
    <3> QED BY <1>5, <3>1
  <2> QED BY <2>1, <2>2
<1> HIDE DEF S
<1>8. PICK u \in Seq(Digit) : Len(u) = e /\ \A k \in 1 .. e : u[k] = q[k]
  <2> DEFINE v == [k \in 1 .. e |-> q[k]]
  <2>1. v \in [1 .. e -> Digit]
    BY <1>7
  <2>2. v \in Seq(Digit) /\ Len(v) = e
    <3> HIDE DEF v
    <3>1. e \in Nat
      BY <1>6
    <3> QED BY <2>1, <3>1
  <2>3. \A k \in 1 .. e : v[k] = q[k]
    BY Zenon
  <2> QED BY <2>2, <2>3, Zenon
<1>9. At(s, i + e) \notin Digit
  <2>1. CASE e = d
    BY <1>3, <2>1, Zenon
  <2>2. CASE e # d
    <3>1. e + 1 \in 1 .. d /\ i + (e + 1) - 1 = i + e
      BY <1>3, <1>6, <2>2
    <3> QED BY <1>3, <1>6, <2>2, <3>1, Zenon
  <2> QED BY <2>1, <2>2, Zenon
<1>10. Run(s, i, u)
  <2>1. i + e <= w + 1 /\ \A k \in 1 .. e : k \in 1 .. d
    BY <1>3, <1>6
  <2> QED BY <1>2, <1>3, <1>8, <1>9, <2>1, Zenon DEF Run
<1>11. str_is_uint8(s, i) = IF e = 0 \/ Value(u) > 255 THEN NULL ELSE i + e
  BY <1>8, <1>10, NumberTaken, Zenon
<1>12. CASE e # d
  <2>1. e + 1 \in 1 .. d /\ i + (e + 1) - 1 = i + e
    BY <1>3, <1>6, <1>12
  <2>2. q[e + 1] \notin Digit /\ At(s, i + (e + 1) - 1) = q[e + 1]
    BY <1>3, <1>6, <1>12, <2>1, Zenon
  <2>3. ~IsOctet(q)
    BY <1>1, <2>1, <2>2, Zenon DEF IsOctet, ToSet
  <2>4. str_is_uint8(s, i) = NULL \/ str_is_uint8(s, i) = i + (e + 1) - 1
    BY <1>11, <2>1, Zenon
  <2> QED BY <1>1, <2>1, <2>2, <2>3, <2>4, Zenon DEF Field
<1>13. CASE e = d
  <2>1. u = q
    <3>1. u \in [1 .. d -> Digit]
      BY <1>8, <1>13
    <3>2. q = [k \in 1 .. d |-> q[k]]
      BY <1>1 DEF Texts
    <3>3. u = [k \in 1 .. d |-> u[k]]
      BY <3>1, Zenon
    <3> QED BY <1>8, <1>13, <3>2, <3>3
  <2>2. ToSet(q) \subseteq Digit
    BY <1>1, <1>7, <1>13, Zenon DEF ToSet
  <2>3. q = <<>> <=> d = 0
    BY <1>1 DEF Texts
  <2>4. PICK v \in Nat : v = Value(q)
    <3>1. \A c \in Digit : c \in Nat
      BY CharactersAre, Zenon
    <3>2. Digit \subseteq Nat
      BY <3>1, Zenon
    <3>3. u \in Seq(Nat)
      BY <3>2, WiderSeq, Zenon
    <3> QED BY <2>1, <3>3, ValueType, Zenon
  <2>5. v <= 255 <=> ~(v > 255)
    OBVIOUS
  <2>6. IsOctet(q) <=> d # 0 /\ ~(v > 255)
    BY <2>2, <2>3, <2>4, <2>5, Zenon DEF IsOctet
  <2>7. ~(v > 255) => str_to_uint8(s, i) = [at |-> i + d, value |-> v]
    BY <1>8, <1>10, <1>13, <2>1, <2>4, NumberRead, Zenon
  <2> QED BY <1>1, <1>11, <1>13, <2>1, <2>4, <2>6, <2>7, Zenon DEF Field
<1> QED
  BY <1>12, <1>13, Zenon

\* One text behind the other, of these lengths.
Glued(z, x, y, m, n) ==
    /\ Len(z) = m + n
    /\ \A k \in 1 .. m : z[k] = x[k]
    /\ \A k \in 1 .. n : z[m + k] = y[k]

LEMMA Glue ==
    ASSUME NEW T, NEW x \in Seq(T), NEW y \in Seq(T), NEW m, m = Len(x), NEW n, n = Len(y)
    PROVE  x \o y \in Seq(T) /\ Glued(x \o y, x, y, m, n)
  BY ConcatParts DEF Glued

\* Where the four numbers of an address are.
Fields(s, q1, q2, q3, q4) ==
    \E a2 \in Nat, a3 \in Nat, a4 \in Nat :
        /\ s \in Texts
        /\ a2 = 1 + Len(q1) + 1 /\ a3 = a2 + Len(q2) + 1 /\ a4 = a3 + Len(q3) + 1
        /\ Run(s, 1, q1) /\ At(s, 1 + Len(q1)) = Dot
        /\ Run(s, a2, q2) /\ At(s, a2 + Len(q2)) = Dot
        /\ Run(s, a3, q3) /\ At(s, a3 + Len(q3)) = Dot
        /\ q4 \in Texts
        /\ Run(s, a4, q4) /\ At(s, a4 + Len(q4)) = End
        /\ a4 + Len(q4) = Len(s) + 1

LEMMA FieldsAre ==
    ASSUME NEW q1 \in Texts, NEW q2 \in Texts, NEW q3 \in Texts, NEW p \in Texts,
           NEW tail \in Texts, NEW s,
           s = (q1 \o <<Dot>> \o q2 \o <<Dot>> \o q3 \o <<Dot>> \o p) \o tail
    PROVE  Fields(s, q1, q2, q3, p \o tail)
<1>1. PICK T : T = Digit \cup {Dot, Letter}
  BY Zenon
<1>2. Texts = Seq(T) /\ Dot \in T
  BY <1>1, Zenon DEF Texts
<1>3. PICK x \in Seq(T) : x = <<Dot>> /\ 1 = Len(x) /\ x[1] = Dot
  <2>1. \A y \in T : <<y>> \in Seq(T) /\ 1 = Len(<<y>>) /\ <<y>>[1] = y
    OBVIOUS
  <2> QED BY <1>2, <2>1, Zenon
<1>4. PICK q4 \in Seq(T) : q4 = p \o tail
  BY <1>2, Glue, Zenon
<1>5. PICK l1 \in Nat, l2 \in Nat, l3 \in Nat, l4 \in Nat :
          l1 = Len(q1) /\ l2 = Len(q2) /\ l3 = Len(q3) /\ l4 = Len(q4)
  <2>1. \A y \in Seq(T) : Len(y) \in Nat
    OBVIOUS
  <2> QED BY <1>2, <2>1, Zenon
<1>6. PICK x1 \in Seq(T) : x1 = q1 \o x /\ Glued(x1, q1, x, l1, 1)
  BY <1>2, <1>3, <1>5, Glue, Zenon
<1>7. PICK m1 \in Nat : m1 = l1 + 1
  OBVIOUS
<1>8. PICK x2 \in Seq(T) : x2 = x1 \o q2 /\ Glued(x2, x1, q2, m1, l2)
  <2>1. m1 = Len(x1)
    BY <1>6, <1>7, Zenon DEF Glued
  <2> QED BY <1>2, <1>5, <2>1, Glue, Zenon
<1>9. PICK m2 \in Nat : m2 = m1 + l2
  OBVIOUS
<1>10. PICK x3 \in Seq(T) : x3 = x2 \o x /\ Glued(x3, x2, x, m2, 1)
  <2>1. m2 = Len(x2)
    BY <1>8, <1>9, Zenon DEF Glued
  <2> QED BY <1>3, <2>1, Glue, Zenon
<1>11. PICK m3 \in Nat : m3 = m2 + 1
  OBVIOUS
<1>12. PICK x4 \in Seq(T) : x4 = x3 \o q3 /\ Glued(x4, x3, q3, m3, l3)
  <2>1. m3 = Len(x3)
    BY <1>10, <1>11, Zenon DEF Glued
  <2> QED BY <1>2, <1>5, <2>1, Glue, Zenon
<1>13. PICK m4 \in Nat : m4 = m3 + l3
  OBVIOUS
<1>14. PICK x5 \in Seq(T) : x5 = x4 \o x /\ Glued(x5, x4, x, m4, 1)
  <2>1. m4 = Len(x4)
    BY <1>12, <1>13, Zenon DEF Glued
  <2> QED BY <1>3, <2>1, Glue, Zenon
<1>15. PICK m5 \in Nat : m5 = m4 + 1
  OBVIOUS
<1>16. s \in Seq(T) /\ Glued(s, x5, q4, m5, l4)
  <2>1. s = (x5 \o p) \o tail
    BY <1>3, <1>6, <1>8, <1>10, <1>12, <1>14, Zenon
  <2>2. (x5 \o p) \o tail = x5 \o (p \o tail)
    <3>1. p \in Seq(T) /\ tail \in Seq(T)
      BY <1>2, Zenon
    <3>2. PICK S : S = Seq(T)
      BY Zenon
    <3>3. x5 \in S /\ p \in S /\ tail \in S
      BY <1>14, <3>1, <3>2, Zenon
    <3>4. Associative(S)
      BY <3>2, AllAssociate, Zenon
    <3> QED BY <3>3, <3>4, Zenon DEF Associative
  <2>3. m5 = Len(x5)
    BY <1>14, <1>15, Zenon DEF Glued
  <2>4. x5 \o q4 \in Seq(T) /\ Glued(x5 \o q4, x5, q4, m5, l4)
    BY <1>5, <2>3, Glue, Zenon
  <2> QED BY <1>4, <2>1, <2>2, <2>4, Zenon
<1>17. PICK w \in Nat : w = Len(s) /\ w = m5 + l4
  <2>1. Len(s) = m5 + l4 /\ m5 + l4 \in Nat
    BY <1>16 DEF Glued
  <2> QED BY <2>1, Zenon
<1>18. \A k \in 1 .. w : At(s, k) = s[k]
  BY <1>16, <1>17, AtIs, Zenon
<1>19. PICK a2 \in Nat, a3 \in Nat, a4 \in Nat :
           /\ a2 = 1 + l1 + 1 /\ a3 = a2 + l2 + 1 /\ a4 = a3 + l3 + 1 /\ a4 + l4 = w + 1
           /\ a2 = m1 + 1 /\ a3 = m3 + 1 /\ a4 = m5 + 1
  <2>1. /\ m1 + 1 = 1 + l1 + 1 /\ m3 + 1 = (m1 + 1) + l2 + 1 /\ m5 + 1 = (m3 + 1) + l3 + 1
        /\ (m5 + 1) + l4 = w + 1
        /\ m1 + 1 \in Nat /\ m3 + 1 \in Nat /\ m5 + 1 \in Nat
    <3>1. m1 + 1 = 1 + l1 + 1 /\ m1 + 1 \in Nat
      BY <1>7
    <3>2. m3 + 1 = (m1 + 1) + l2 + 1 /\ m3 + 1 \in Nat
      BY <1>9, <1>11
    <3>3. m5 + 1 = (m3 + 1) + l3 + 1 /\ m5 + 1 \in Nat
      BY <1>13, <1>15
    <3>4. (m5 + 1) + l4 = w + 1
      <4>1. w = m5 + l4
        BY <1>17, Zenon
      <4> QED BY <4>1
    <3> QED BY <3>1, <3>2, <3>3, <3>4, Zenon
  <2> QED BY <2>1, Zenon
\* What is at a place, by the text that it is in.
<1>20. /\ \A k \in 1 .. m5 : At(s, k) = x5[k]
       /\ \A k \in 1 .. m4 : At(s, k) = x4[k]
       /\ \A k \in 1 .. m3 : At(s, k) = x3[k]
       /\ \A k \in 1 .. m2 : At(s, k) = x2[k]
       /\ \A k \in 1 .. m1 : At(s, k) = x1[k]
       /\ \A k \in 1 .. l1 : At(s, k) = q1[k]
  <2>1. /\ \A k \in 1 .. m5 : k \in 1 .. w
        /\ \A k \in 1 .. m4 : k \in 1 .. m5
        /\ \A k \in 1 .. m3 : k \in 1 .. m4
        /\ \A k \in 1 .. m2 : k \in 1 .. m3
        /\ \A k \in 1 .. m1 : k \in 1 .. m2
        /\ \A k \in 1 .. l1 : k \in 1 .. m1
    BY <1>7, <1>9, <1>11, <1>13, <1>15, <1>17
  <2>2. \A k \in 1 .. m5 : At(s, k) = x5[k]
    BY <1>16, <1>18, <2>1, Zenon DEF Glued
  <2>3. \A k \in 1 .. m4 : At(s, k) = x4[k]
    BY <1>14, <2>1, <2>2, Zenon DEF Glued
  <2>4. \A k \in 1 .. m3 : At(s, k) = x3[k]
    BY <1>12, <2>1, <2>3, Zenon DEF Glued
  <2>5. \A k \in 1 .. m2 : At(s, k) = x2[k]
    BY <1>10, <2>1, <2>4, Zenon DEF Glued
  <2>6. \A k \in 1 .. m1 : At(s, k) = x1[k]
    BY <1>8, <2>1, <2>5, Zenon DEF Glued
  <2>7. \A k \in 1 .. l1 : At(s, k) = q1[k]
    BY <1>6, <2>1, <2>6, Zenon DEF Glued
  <2> QED BY <2>2, <2>3, <2>4, <2>5, <2>6, <2>7, Zenon
<1>21. \A k \in 1 .. l1 : At(s, 1 + k - 1) = q1[k]
  <2>1. \A k \in 1 .. l1 : 1 + k - 1 = k
    OBVIOUS
  <2> QED BY <1>20, <2>1, Zenon
<1>22. At(s, 1 + l1) = Dot
  <2>1. 1 + l1 = l1 + 1 /\ 1 \in 1 .. 1 /\ l1 + 1 \in 1 .. m1
    BY <1>7
  <2> QED BY <1>3, <1>6, <1>20, <2>1, Zenon DEF Glued
<1>23. \A k \in 1 .. l2 : At(s, a2 + k - 1) = q2[k]
  <2>1. \A k \in 1 .. l2 : a2 + k - 1 = m1 + k /\ m1 + k \in 1 .. m2
    BY <1>9, <1>19
  <2>2. \A k \in 1 .. l2 : x2[m1 + k] = q2[k]
    BY <1>8, Zenon DEF Glued
  <2> QED BY <1>20, <2>1, <2>2, Zenon
<1>24. At(s, a2 + l2) = Dot
  <2>1. a2 + l2 = m2 + 1 /\ 1 \in 1 .. 1 /\ m2 + 1 \in 1 .. m3
    BY <1>9, <1>11, <1>19
  <2> QED BY <1>3, <1>10, <1>20, <2>1, Zenon DEF Glued
<1>25. \A k \in 1 .. l3 : At(s, a3 + k - 1) = q3[k]
  <2>1. \A k \in 1 .. l3 : a3 + k - 1 = m3 + k /\ m3 + k \in 1 .. m4
    BY <1>13, <1>19
  <2>2. \A k \in 1 .. l3 : x4[m3 + k] = q3[k]
    BY <1>12, Zenon DEF Glued
  <2> QED BY <1>20, <2>1, <2>2, Zenon
<1>26. At(s, a3 + l3) = Dot
  <2>1. a3 + l3 = m4 + 1 /\ 1 \in 1 .. 1 /\ m4 + 1 \in 1 .. m5
    BY <1>13, <1>15, <1>19
  <2> QED BY <1>3, <1>14, <1>20, <2>1, Zenon DEF Glued
<1>27. \A k \in 1 .. l4 : At(s, a4 + k - 1) = q4[k]
  <2>1. \A k \in 1 .. l4 : a4 + k - 1 = m5 + k /\ m5 + k \in 1 .. w
    BY <1>17, <1>19
  <2> QED BY <1>16, <1>18, <2>1, Zenon DEF Glued
<1>28. At(s, a4 + l4) = End
  <2>1. a4 + l4 \in Nat /\ a4 + l4 > w
    BY <1>17, <1>19
  <2> QED BY <1>16, <1>17, <2>1, AtIs, Zenon
<1>29. /\ 1 \in Nat \ {0} /\ a2 \in Nat \ {0} /\ a3 \in Nat \ {0} /\ a4 \in Nat \ {0}
       /\ 1 + l1 <= w + 1 /\ a2 + l2 <= w + 1 /\ a3 + l3 <= w + 1 /\ a4 + l4 <= w + 1
  <2>1. /\ 1 \in Nat \ {0} /\ a2 \in Nat \ {0} /\ a3 \in Nat \ {0} /\ a4 \in Nat \ {0}
    BY <1>19
  <2>2. a4 + l4 <= w + 1 /\ a3 + l3 <= a4 + l4 /\ a2 + l2 <= a3 + l3 /\ 1 + l1 <= a2 + l2
    BY <1>19
  <2>3. /\ 1 + l1 \in Nat /\ a2 + l2 \in Nat /\ a3 + l3 \in Nat /\ a4 + l4 \in Nat
        /\ w + 1 \in Nat
    OBVIOUS
  <2>4. \A e, f, g \in Nat : e <= f /\ f <= g => e <= g
    OBVIOUS
  <2>5. a3 + l3 <= w + 1
    BY <2>2, <2>3, <2>4, Zenon
  <2>6. a2 + l2 <= w + 1
    BY <2>2, <2>3, <2>4, <2>5, Zenon
  <2>7. 1 + l1 <= w + 1
    BY <2>2, <2>3, <2>4, <2>6, Zenon
  <2> QED BY <2>1, <2>2, <2>5, <2>6, <2>7, Zenon
<1>30. /\ Run(s, 1, q1) /\ Run(s, a2, q2) /\ Run(s, a3, q3) /\ Run(s, a4, q4)
  <2>1. Run(s, 1, q1)
    BY <1>5, <1>17, <1>21, <1>22, <1>29, CharactersAre, Zenon DEF Run
  <2>2. Run(s, a2, q2)
    BY <1>5, <1>17, <1>23, <1>24, <1>29, CharactersAre, Zenon DEF Run
  <2>3. Run(s, a3, q3)
    BY <1>5, <1>17, <1>25, <1>26, <1>29, CharactersAre, Zenon DEF Run
  <2>4. Run(s, a4, q4)
    BY <1>5, <1>17, <1>27, <1>28, <1>29, CharactersAre, Zenon DEF Run
  <2> QED BY <2>1, <2>2, <2>3, <2>4, Zenon
<1> QED
  BY <1>2, <1>4, <1>5, <1>16, <1>17, <1>19, <1>22, <1>24, <1>26, <1>28, <1>30, Zenon DEF Fields

\* What AddressRead says of an address.
AddressIs(parts, tail) ==
    LET s == Dotted(parts) \o tail
    IN  /\ ip_validate(s) <=>
               /\ \A i \in 1 .. 3 : IsOctet(parts[i])
               /\ IsOctet(parts[4] \o tail)
        /\ ip_validate(s) =>
               /\ ip_str_to_uint32(s) = [i \in 1 .. 4 |->
                      Value(IF i = 4 THEN parts[4] \o tail ELSE parts[i])]
               /\ ReadAddress(s).at = Len(s) + 1

\* From one number of an address to the next.
LEMMA NextTaken ==
    ASSUME NEW s, NEW i \in Nat \ {0}, NEW q \in Seq(Digit \cup {Letter}), Field(s, i, q),
           At(s, i + Len(q)) = Dot, NEW a, a = i + Len(q) + 1
    PROVE  NextNumber(s, str_is_uint8(s, i)) = IF IsOctet(q) THEN str_is_uint8(s, a) ELSE NULL
<1>1. PICK d \in Nat : d = Len(q)
  OBVIOUS
<1>2. CASE IsOctet(q)
  <2>1. i + d # NULL /\ (i + d) + 1 = a
    BY <1>1 DEF NULL
  <2>2. str_is_uint8(s, i) = i + d
    BY <1>1, <1>2, Zenon DEF Field
  <2> QED BY <1>1, <1>2, <2>1, <2>2, Zenon DEF NextNumber
<1>3. CASE ~IsOctet(q)
  <2>1. \A k \in 1 .. d : q[k] \in Digit \/ q[k] = Letter
    BY <1>1
  <2>2. str_is_uint8(s, i) = NULL \/ At(s, str_is_uint8(s, i)) = Letter
    BY <1>1, <1>3, <2>1, Zenon DEF Field
  <2>3. Letter # Dot
    BY CharactersAre, Zenon
  <2> QED BY <1>3, <2>2, <2>3, Zenon DEF NextNumber
<1> QED
  BY <1>2, <1>3, Zenon

\* After r the number q is next: its value v, and where it ends.
Reads(s, i, q, e, v, r, a, b) ==
    /\ Field(s, i, q) /\ IsOctet(q) /\ e = i + Len(q) /\ v = Value(q)
    /\ a = r.at /\ a # NULL /\ a + 1 = i /\ b = r.bytes

\* With it ip_str_to_uint32() has read the bytes b and v, and stands at e.
Took(s, e, v, r, b) == NextByte(s, r).at = e /\ NextByte(s, r).bytes = Append(b, v)

LEMMA ByteTaken ==
    ASSUME NEW s, NEW i, NEW q, NEW e, NEW v, NEW r, NEW a, NEW b, Reads(s, i, q, e, v, r, a, b)
    PROVE  Took(s, e, v, r, b)
<1>1. str_to_uint8(s, i) = [at |-> e, value |-> v]
  BY Zenon DEF Field, Reads
<1>2. NextByte(s, r) = [at |-> str_to_uint8(s, i).at,
                        bytes |-> Append(b, str_to_uint8(s, i).value)]
  BY Zenon DEF NextByte, Reads
<1>3. str_to_uint8(s, i).at = e /\ str_to_uint8(s, i).value = v
  BY <1>1
<1>4. NextByte(s, r) = [at |-> e, bytes |-> Append(b, v)]
  BY <1>2, <1>3, Zenon
<1> QED
  BY <1>4 DEF Took

Four(a, b, c, d) ==
    [i \in 1 .. 4 |-> IF i = 1 THEN a ELSE IF i = 2 THEN b ELSE IF i = 3 THEN c ELSE d]

LEMMA FourValues ==
    ASSUME NEW a, NEW b, NEW c, NEW d
    PROVE  Append(Append(Append(Append(<<>>, a), b), c), d) = Four(a, b, c, d)
  BY DEF Four

LEMMA AddressOfParts ==
    ASSUME NEW parts, NEW tail, tail \in Texts,
           \A i \in 1 .. 4 : parts[i] \in Seq(Digit \cup {Letter})
    PROVE  AddressIs(parts, tail)
<1>1. 1 \in 1 .. 4 /\ 2 \in 1 .. 4 /\ 3 \in 1 .. 4 /\ 4 \in 1 .. 4
  OBVIOUS
<1>2. \A y \in Seq(Digit \cup {Letter}) : y \in Texts
  <2>1. Digit \cup {Letter} \subseteq Digit \cup {Dot, Letter}
    OBVIOUS
  <2> QED BY <2>1, WiderSeq, Zenon DEF Texts
<1>3. PICK q1 \in Seq(Digit \cup {Letter}), q2 \in Seq(Digit \cup {Letter}),
           q3 \in Seq(Digit \cup {Letter}), p \in Seq(Digit \cup {Letter}) :
          q1 = parts[1] /\ q2 = parts[2] /\ q3 = parts[3] /\ p = parts[4]
  BY <1>1, Zenon
<1>4. PICK s : s = Dotted(parts) \o tail
  BY Zenon
<1>5. PICK q4 : q4 = p \o tail
  BY Zenon
<1>6. s = (q1 \o <<Dot>> \o q2 \o <<Dot>> \o q3 \o <<Dot>> \o p) \o tail
  BY <1>3, <1>4, Zenon DEF Dotted
<1>7. PICK a2 \in Nat, a3 \in Nat, a4 \in Nat :
              /\ s \in Texts
              /\ a2 = 1 + Len(q1) + 1 /\ a3 = a2 + Len(q2) + 1 /\ a4 = a3 + Len(q3) + 1
              /\ Run(s, 1, q1) /\ At(s, 1 + Len(q1)) = Dot
              /\ Run(s, a2, q2) /\ At(s, a2 + Len(q2)) = Dot
              /\ Run(s, a3, q3) /\ At(s, a3 + Len(q3)) = Dot
              /\ q4 \in Texts
              /\ Run(s, a4, q4) /\ At(s, a4 + Len(q4)) = End
              /\ a4 + Len(q4) = Len(s) + 1
  <2>1. Fields(s, q1, q2, q3, p \o tail)
    BY <1>2, <1>6, FieldsAre, Zenon
  <2> QED BY <1>5, <2>1, Zenon DEF Fields
<1>8. /\ Field(s, 1, q1) /\ Field(s, a2, q2) /\ Field(s, a3, q3) /\ Field(s, a4, q4)
  BY <1>2, <1>3, <1>7, FieldIs, Zenon
<1>9. /\ 1 \in Nat \ {0} /\ a2 \in Nat \ {0} /\ a3 \in Nat \ {0} /\ a4 \in Nat \ {0}
  BY <1>7, Zenon DEF Run
\* ip_validate() goes from number to number.
<1> DEFINE r1 == str_is_uint8(s, 1)
           r2 == NextNumber(s, r1)
           r3 == NextNumber(s, r2)
           r4 == NextNumber(s, r3)
           Good == IsOctet(q1) /\ IsOctet(q2) /\ IsOctet(q3) /\ IsOctet(q4)
<1>10. NextNumber(s, NULL) = NULL
  BY Zenon DEF NextNumber
<1>11. r2 = IF IsOctet(q1) THEN str_is_uint8(s, a2) ELSE NULL
  BY <1>3, <1>7, <1>8, <1>9, NextTaken, Zenon
<1>12. NextNumber(s, str_is_uint8(s, a2)) = IF IsOctet(q2) THEN str_is_uint8(s, a3) ELSE NULL
  BY <1>3, <1>7, <1>8, <1>9, NextTaken, Zenon
<1>13. NextNumber(s, str_is_uint8(s, a3)) = IF IsOctet(q3) THEN str_is_uint8(s, a4) ELSE NULL
  BY <1>3, <1>7, <1>8, <1>9, NextTaken, Zenon
<1> HIDE DEF r1
<1>14. r3 = IF IsOctet(q1) /\ IsOctet(q2) THEN str_is_uint8(s, a3) ELSE NULL
  <2> HIDE DEF r2
  <2> QED BY <1>10, <1>11, <1>12, Zenon
<1>15. r4 = IF IsOctet(q1) /\ IsOctet(q2) /\ IsOctet(q3) THEN str_is_uint8(s, a4) ELSE NULL
  <2> HIDE DEF r2, r3
  <2> QED BY <1>10, <1>13, <1>14, Zenon
<1>16. ip_validate(s) <=> r4 # NULL /\ At(s, r4) = End
  BY Zenon DEF ip_validate, r1
<1> HIDE DEF r2, r3, r4
<1>17. IsOctet(q4) => str_is_uint8(s, a4) # NULL /\ At(s, str_is_uint8(s, a4)) = End
  <2> SUFFICES ASSUME IsOctet(q4)
               PROVE  str_is_uint8(s, a4) # NULL /\ At(s, str_is_uint8(s, a4)) = End
    OBVIOUS
  <2>1. str_is_uint8(s, a4) = a4 + Len(q4)
    BY <1>8, Zenon DEF Field
  <2>2. PICK d \in Nat : d = Len(q4)
    BY <1>7 DEF Texts
  <2>3. a4 + d # NULL
    BY DEF NULL
  <2> QED BY <1>7, <2>1, <2>2, <2>3, Zenon
<1>18. ~IsOctet(q4) => str_is_uint8(s, a4) = NULL \/ At(s, str_is_uint8(s, a4)) # End
  <2>1. \A k \in 1 .. Len(q4) : q4[k] \in Digit \cup {Dot, Letter}
    <3>1. PICK T : T = Digit \cup {Dot, Letter}
      BY Zenon
    <3>2. q4 \in Seq(T)
      BY <1>7, <3>1, Zenon DEF Texts
    <3>3. \A k \in 1 .. Len(q4) : q4[k] \in T
      BY <3>2, ElementOfSeq
    <3> QED BY <3>1, <3>3, Zenon
  <2>2. \A k \in 1 .. Len(q4) : q4[k] # End
    BY <2>1, CharactersAre, Zenon
  <2> QED BY <1>8, <2>2, Zenon DEF Field
<1>19. ip_validate(s) <=> Good
  BY <1>15, <1>16, <1>17, <1>18, Zenon
<1>20. Good <=> /\ \A i \in 1 .. 3 : IsOctet(parts[i])
                /\ IsOctet(parts[4] \o tail)
  <2>1. \A i \in 1 .. 3 : i = 1 \/ i = 2 \/ i = 3
    OBVIOUS
  <2>2. 1 \in 1 .. 3 /\ 2 \in 1 .. 3 /\ 3 \in 1 .. 3
    OBVIOUS
  <2> QED BY <1>3, <1>5, <2>1, <2>2, Zenon
\* ip_str_to_uint32() from byte to byte.
<1>21. ASSUME Good
       PROVE  /\ ip_str_to_uint32(s) = [i \in 1 .. 4 |->
                     Value(IF i = 4 THEN parts[4] \o tail ELSE parts[i])]
              /\ ReadAddress(s).at = Len(s) + 1
  <2>1. PICK v1, v2, v3, v4 :
            v1 = Value(q1) /\ v2 = Value(q2) /\ v3 = Value(q3) /\ v4 = Value(q4)
    BY Zenon
  <2>2. PICK e1 \in Nat, e2 \in Nat, e3 \in Nat, e4 \in Nat :
            /\ e1 = 1 + Len(q1) /\ e2 = a2 + Len(q2) /\ e3 = a3 + Len(q3) /\ e4 = a4 + Len(q4)
            /\ e1 + 1 = a2 /\ e2 + 1 = a3 /\ e3 + 1 = a4
    <3>1. /\ 1 + Len(q1) \in Nat /\ a2 + Len(q2) \in Nat /\ a3 + Len(q3) \in Nat
      OBVIOUS
    <3>2. a4 + Len(q4) \in Nat
      BY <1>7 DEF Texts
    <3> QED BY <1>7, <3>1, <3>2, Zenon
  <2>3. e1 # NULL /\ e2 # NULL /\ e3 # NULL /\ e4 # NULL /\ 0 # NULL /\ 0 + 1 = 1
    <3>1. (\A e \in Nat : e # NULL) /\ 0 \in Nat /\ 0 + 1 = 1
      BY DEF NULL
    <3> QED BY <2>2, <3>1, Zenon
  <2>4. PICK n0 : n0 = [at |-> 0, bytes |-> <<>>]
    BY Zenon
  <2>5. n0.at = 0 /\ n0.bytes = <<>>
    BY <2>4
  <2>6. PICK n1 : n1 = NextByte(s, n0)
    BY Zenon
  <2>7. PICK n2 : n2 = NextByte(s, n1)
    BY Zenon
  <2>8. PICK n3 : n3 = NextByte(s, n2)
    BY Zenon
  <2>9. PICK n4 : n4 = NextByte(s, n3)
    BY Zenon
  <2>10. PICK y1 : y1 = Append(<<>>, v1)
    BY Zenon
  <2>11. n1.at = e1 /\ n1.bytes = y1
    <3>1. Reads(s, 1, q1, e1, v1, n0, 0, <<>>)
      BY <1>8, <1>21, <2>1, <2>2, <2>3, <2>5, Zenon DEF Reads
    <3>2. Took(s, e1, v1, n0, <<>>)
      BY <3>1, ByteTaken, Zenon
    <3> QED BY <2>6, <2>10, <3>2, Zenon DEF Took
  <2>12. PICK y2 : y2 = Append(y1, v2)
    BY Zenon
  <2>13. n2.at = e2 /\ n2.bytes = y2
    <3>1. Reads(s, a2, q2, e2, v2, n1, e1, y1)
      BY <1>8, <1>21, <2>1, <2>2, <2>3, <2>11, Zenon DEF Reads
    <3>2. Took(s, e2, v2, n1, y1)
      BY <3>1, ByteTaken, Zenon
    <3> QED BY <2>7, <2>12, <3>2, Zenon DEF Took
  <2>14. PICK y3 : y3 = Append(y2, v3)
    BY Zenon
  <2>15. n3.at = e3 /\ n3.bytes = y3
    <3>1. Reads(s, a3, q3, e3, v3, n2, e2, y2)
      BY <1>8, <1>21, <2>1, <2>2, <2>3, <2>13, Zenon DEF Reads
    <3>2. Took(s, e3, v3, n2, y2)
      BY <3>1, ByteTaken, Zenon
    <3> QED BY <2>8, <2>14, <3>2, Zenon DEF Took
  <2>16. PICK y4 : y4 = Append(y3, v4)
    BY Zenon
  <2>17. n4.at = e4 /\ n4.bytes = y4
    <3>1. Reads(s, a4, q4, e4, v4, n3, e3, y3)
      BY <1>8, <1>21, <2>1, <2>2, <2>3, <2>15, Zenon DEF Reads
    <3>2. Took(s, e4, v4, n3, y3)
      BY <3>1, ByteTaken, Zenon
    <3> QED BY <2>9, <2>16, <3>2, Zenon DEF Took
  <2>18. ReadAddress(s) = n4
    BY <2>4, <2>6, <2>7, <2>8, <2>9, Zenon DEF ReadAddress
  <2>19. ip_str_to_uint32(s) = y4
    BY <2>3, <2>17, <2>18, Zenon DEF ip_str_to_uint32
  <2>20. y4 = [i \in 1 .. 4 |-> IF i = 1 THEN v1 ELSE IF i = 2 THEN v2
                                ELSE IF i = 3 THEN v3 ELSE v4]
    <3>1. y4 = Append(Append(Append(Append(<<>>, v1), v2), v3), v4)
      BY <2>10, <2>12, <2>14, <2>16, Zenon
    <3>2. y4 = Four(v1, v2, v3, v4)
      BY <3>1, FourValues, Zenon
    <3> QED BY <3>2, Zenon DEF Four
  <2>21. ASSUME NEW i \in 1 .. 4
         PROVE  (IF i = 1 THEN v1 ELSE IF i = 2 THEN v2 ELSE IF i = 3 THEN v3 ELSE v4)
                = Value(IF i = 4 THEN parts[4] \o tail ELSE parts[i])
    <3>1. (i = 1 \/ i = 2 \/ i = 3 \/ i = 4) /\ 1 # 2 /\ 1 # 3 /\ 1 # 4 /\ 2 # 3 /\ 2 # 4 /\ 3 # 4
      OBVIOUS
    <3> QED BY <1>3, <1>5, <2>1, <3>1, Zenon
  <2> QED BY <1>7, <2>2, <2>17, <2>18, <2>19, <2>20, <2>21, Zenon
<1> HIDE DEF Good
<1> QED
  BY <1>4, <1>19, <1>20, <1>21, Zenon DEF AddressIs

\* Of every text of digits, dots and letters with three dots or more ip_validate()
\* takes those, and only those, that are four numbers of 8 bits, however many zeros
\* lead them, and ip_str_to_uint32() then reads these numbers and ends behind the
\* last one.
THEOREM AddressesAreRead == Spec => []AddressRead
<1>1. ASSUME Given
      PROVE  AddressRead
  <2>1. ASSUME given.to = "address"
        PROVE  AddressIs(given.args[1], given.args[2])
    <3>1. given.args[1] \in [1 .. 4 -> Parts] /\ given.args[2] \in Tails
      BY <1>1, <2>1, Zenon DEF Given
    <3>2. /\ Parts \subseteq Seq(Digit \cup {Letter})
          /\ Tails \subseteq Texts
      BY HelpersAssumption, Zenon DEF Texts
    <3>3. \A i \in 1 .. 4 : given.args[1][i] \in Seq(Digit \cup {Letter})
      BY <3>1, <3>2, Zenon
    <3> QED BY <3>1, <3>2, <3>3, AddressOfParts, Zenon
  <2> QED BY <2>1, Zenon DEF AddressRead, AddressIs
<1> QED
  BY <1>1, GivenAlways, PTL

-----------------------------------------------------------------------------
(* Requests that are read.                                                 *)

\* Each string is read where the one before it ended.
Follow(in, first, n, p) ==
    \A i \in 1 .. n : p[i] = IF i = 1 THEN first ELSE After(in, p[i - 1])

ReadAt(in, first, n, p) == Strung(in, first, n) = [i \in 1 .. n |-> StringAt(in, p[i])]

LEMMA StrungIs ==
    ASSUME NEW in, NEW first, NEW n \in Nat, NEW p, Follow(in, first, n, p)
    PROVE  ReadAt(in, first, n, p)
<1> DEFINE Body(h, i) == IF i = 1 THEN first ELSE After(in, h[i - 1])
           Rec(h) == h = [i \in 1 .. n |-> Body(h, i)]
           at == CHOOSE h : Rec(h)
           q == [i \in 1 .. n |-> p[i]]
           S == {k \in Nat : k \in 1 .. n => at[k] = p[k]}
<1>1. Strung(in, first, n) = [i \in 1 .. n |-> StringAt(in, at[i])]
  BY Zenon DEF Strung
<1>2. \A i \in 1 .. n : i # 1 => i - 1 \in 1 .. n
  OBVIOUS
<1>3. \A i \in 1 .. n : q[i] = p[i]
  BY Zenon
<1>4. Rec(q)
  <2>1. \A i \in 1 .. n : q[i] = Body(q, i)
    <3> HIDE DEF q
    <3> QED BY <1>2, <1>3, Zenon DEF Follow
  <2>2. q = [i \in 1 .. n |-> q[i]]
    BY Zenon
  <2> HIDE DEF q, Body
  <2> QED BY <2>1, <2>2, Zenon
<1>5. Rec(at)
  <2> HIDE DEF Rec, q
  <2> QED BY <1>4, Zenon
<1> HIDE DEF at, q
<1>6. \A i \in 1 .. n : at[i] = Body(at, i)
  <2> HIDE DEF Body
  <2> QED BY <1>5, Zenon
<1>7. \A k \in Nat \ {0} : k - 1 \in S => k \in S
  <2> SUFFICES ASSUME NEW k \in Nat \ {0}, k - 1 \in S, k \in 1 .. n
               PROVE  at[k] = p[k]
    OBVIOUS
  <2>1. k # 1 => at[k - 1] = p[k - 1]
    BY <1>2
  <2> QED BY <1>6, <2>1, Zenon DEF Follow
<1>8. 0 \in S /\ S \in SUBSET Nat
  OBVIOUS
<1>9. S = Nat
  <2> HIDE DEF S
  <2> QED BY <1>7, <1>8, Induction, Zenon
<1>10. \A i \in 1 .. n : at[i] = p[i]
  <2>1. \A i \in 1 .. n : i \in Nat
    OBVIOUS
  <2> QED BY <1>9, <2>1, Zenon
<1> QED
  BY <1>1, <1>10, Zenon DEF ReadAt

Longer(T, strs, y, n, e) ==
    /\ e \in Seq(T) /\ Len(e) = n + 1
    /\ \A i \in 1 .. n : e[i] = strs[i]
    /\ e[n + 1] = y

LEMMA OneMore ==
    ASSUME NEW T, NEW strs \in Seq(T), NEW y \in T
    PROVE  Longer(T, strs, y, Len(strs), Append(strs, y))
  BY DEF Longer

\* So the strings that are sent are read, and an empty one behind them.
LEMMA StrungRead ==
    ASSUME NEW strs \in Seq(Seq(Nat)), NEW r, NEW x \in Nat, NEW in, Sends(strs, r, x, in)
    PROVE  Strung(in, x + 1, Len(strs) + 1) = Append(strs, <<>>)
<1>1. Stand(strs, r, x, in)
  BY MessageBehind, Zenon
<1>2. PICK n \in Nat : n = Len(strs)
  OBVIOUS
<1> DEFINE p == [k \in 1 .. n + 1 |-> x + Len(Joined(r, k - 1)) + 1]
           e == Append(strs, <<>>)
<1>3. /\ \A i \in 1 .. n + 1 : i # 1 => i - 1 \in 1 .. n + 1 /\ i - 1 \in 1 .. n
      /\ \A i \in 1 .. n + 1 : i # n + 1 => i \in 1 .. n
      /\ \A i \in 1 .. n + 1 : i - 1 \in 0 .. n
      /\ 1 \in 1 .. n + 1 /\ n + 1 \in 1 .. n + 1 /\ (n + 1) - 1 = n /\ n + 1 \in Nat /\ 1 - 1 = 0
  OBVIOUS
<1>4. \A i \in 1 .. n + 1 : p[i] = x + Len(Joined(r, i - 1)) + 1
  BY Zenon
<1> HIDE DEF p
<1>5. /\ \A i \in 1 .. n : StringAt(in, p[i]) = strs[i]
      /\ StringAt(in, p[n + 1]) = <<>>
  <2>1. \A i \in 1 .. n : i \in 1 .. n + 1
    OBVIOUS
  <2> QED BY <1>1, <1>2, <1>3, <1>4, <2>1, Zenon DEF Stand
<1>6. Len(Joined(r, 0)) = 0
  <2>1. r \in Seq(Seq(Nat))
    BY Zenon DEF Sends, Ends
  <2>2. Joined(r, 0) = <<>>
    BY <2>1, JoinedNone, Zenon
  <2> QED BY <2>2
<1>7. p[1] = x + 1
  <2>1. p[1] = x + Len(Joined(r, 0)) + 1
    BY <1>3, <1>4, Zenon
  <2>2. x + 0 + 1 = x + 1
    OBVIOUS
  <2> QED BY <1>6, <2>1, <2>2, Zenon
<1>8. ASSUME NEW i \in 1 .. n + 1, i # 1
      PROVE  p[i] = After(in, p[i - 1])
  <2>1. PICK k \in 1 .. n : k = i - 1
    BY <1>3, <1>8, Zenon
  <2>2. PICK a \in Nat, b \in Nat, l \in Nat :
           a = Len(Joined(r, k - 1)) /\ b = Len(Joined(r, k)) /\ l = Len(strs[k]) /\ b = a + l + 1
    <3>1. k - 1 \in 0 .. n /\ k \in 0 .. n
      OBVIOUS
    <3>2. Len(strs[k]) \in Nat
      BY <1>2
    <3> QED BY <1>1, <1>2, <3>1, <3>2, Zenon DEF Stand
  <2>3. b = a + l + 1
    BY <2>2, Zenon
  <2>4. p[k] = x + a + 1 /\ p[i] = x + b + 1
    <3>1. k \in 1 .. n + 1
      OBVIOUS
    <3> QED BY <1>4, <2>1, <2>2, <3>1, Zenon
  <2>5. x + b + 1 = (x + a + 1) + l + 1
    BY <2>3
  <2>6. After(in, p[k]) = p[k] + Len(strs[k]) + 1
    BY <1>5, Zenon DEF After
  <2> QED BY <2>1, <2>2, <2>4, <2>5, <2>6, Zenon
<1>9. Strung(in, x + 1, n + 1) = [i \in 1 .. n + 1 |-> StringAt(in, p[i])]
  <2>1. Follow(in, x + 1, n + 1, p)
    BY <1>7, <1>8, Zenon DEF Follow
  <2>2. ReadAt(in, x + 1, n + 1, p)
    BY <1>3, <2>1, StrungIs, Zenon
  <2> QED BY <2>2, Zenon DEF ReadAt
<1>10. /\ e \in Seq(Seq(Nat)) /\ Len(e) = n + 1
       /\ \A i \in 1 .. n : e[i] = strs[i]
       /\ e[n + 1] = <<>>
  <2>1. <<>> \in Seq(Nat)
    OBVIOUS
  <2>2. Longer(Seq(Nat), strs, <<>>, Len(strs), Append(strs, <<>>))
    BY <2>1, OneMore, Zenon
  <2> QED BY <1>2, <2>2, Zenon DEF Longer
<1> HIDE DEF e
<1>11. \A i \in 1 .. n + 1 : StringAt(in, p[i]) = e[i]
  BY <1>3, <1>5, <1>10, Zenon
<1>12. e = [i \in 1 .. n + 1 |-> e[i]]
  BY <1>10
<1>13. Strung(in, x + 1, n + 1) = e
  BY <1>9, <1>11, <1>12, Zenon
<1> QED
  BY <1>2, <1>13, Zenon DEF e

Endings(strs) == [i \in DOMAIN strs |-> Terminated(strs[i])]

LEMMA EndingsAre ==
    ASSUME NEW strs \in Seq(Seq(Nat))
    PROVE  Ends(Endings(strs), strs)
<1>1. PICK n \in Nat : n = Len(strs) /\ DOMAIN strs = 1 .. n
  OBVIOUS
<1>2. \A k \in 1 .. n : Endings(strs)[k] = Terminated(strs[k])
  BY <1>1, Zenon DEF Endings
<1>3. \A k \in 1 .. n : strs[k] \in Seq(Nat)
  BY <1>1
<1>4. \A k \in 1 .. n : Terminated(strs[k]) \in Seq(Nat)
  BY <1>3, TerminatedIs, Zenon
<1>5. Endings(strs) \in [1 .. n -> Seq(Nat)]
  BY <1>1, <1>4, Zenon DEF Endings
<1>6. Endings(strs) \in Seq(Seq(Nat)) /\ Len(Endings(strs)) = n
  BY <1>5, FunctionSeq, Zenon
<1> QED
  BY <1>1, <1>2, <1>6, Zenon DEF Ends

\* How long strings are with their terminators.
Size(strs) == Len(FlattenSeq(strs)) + Len(strs)

LEMMA SizeIs ==
    ASSUME NEW strs \in Seq(Seq(Nat))
    PROVE  /\ FlattenSeq(Endings(strs)) \in Seq(Nat)
           /\ Len(FlattenSeq(Endings(strs))) = Size(strs)
           /\ Size(strs) \in Nat /\ Len(strs) <= Size(strs)
           /\ strs = <<>> => Size(strs) = 0
<1>1. PICK n \in Nat : n = Len(strs)
  OBVIOUS
<1>2. PICK r \in Seq(Seq(Nat)) :
          r = Endings(strs) /\ Len(r) = n /\ \A k \in 1 .. n : r[k] = Terminated(strs[k])
  BY <1>1, EndingsAre, Zenon DEF Ends
<1> DEFINE OneEach(k) == /\ Len(Joined(strs, k)) \in Nat
                         /\ Len(Joined(r, k)) = Len(Joined(strs, k)) + k
           S == {k \in Nat : k \in 0 .. n => OneEach(k)}
<1>3. OneEach(0)
  <2>1. Joined(strs, 0) = <<>> /\ Joined(r, 0) = <<>>
    BY JoinedNone, Zenon
  <2> QED BY <2>1
<1>4. ASSUME NEW k \in 1 .. n, OneEach(k - 1)
      PROVE  OneEach(k)
  <2>1. Joined(strs, k) \in Seq(Nat) /\ Len(Joined(strs, k)) \in Nat
    BY <1>1, JoinedType
  <2>2. Len(Joined(strs, k)) = Len(Joined(strs, k - 1)) + Len(strs[k])
    BY <1>1, JoinedInside
  <2>3. Len(Joined(r, k)) = Len(Joined(r, k - 1)) + Len(r[k])
    BY <1>2, JoinedInside
  <2>4. strs[k] \in Seq(Nat) /\ Len(strs[k]) \in Nat
    BY <1>1
  <2>5. Len(r[k]) = Len(strs[k]) + 1
    BY <1>2, <2>4, TerminatedIs, Zenon
  <2>6. PICK u \in Nat, v \in Nat : u = Len(Joined(strs, k - 1)) /\ v = Len(strs[k])
    BY <1>4, <2>4, Zenon
  <2>7. Len(Joined(strs, k)) = u + v /\ Len(Joined(r, k)) = (u + (k - 1)) + (v + 1)
    BY <1>4, <2>2, <2>3, <2>5, <2>6, Zenon
  <2>8. (u + (k - 1)) + (v + 1) = (u + v) + k /\ u + v \in Nat
    OBVIOUS
  <2> QED BY <2>7, <2>8, Zenon
<1> HIDE DEF OneEach
<1>5. \A k \in Nat \ {0} : k - 1 \in S => k \in S
  <2>1. \A k \in Nat \ {0} : k \in 0 .. n => k \in 1 .. n /\ k - 1 \in 0 .. n
    OBVIOUS
  <2> QED BY <1>4, <2>1, Zenon
<1>6. 0 \in S /\ S \in SUBSET Nat
  BY <1>3
<1>7. S = Nat
  <2> HIDE DEF S
  <2> QED BY <1>5, <1>6, Induction, Zenon
<1>8. OneEach(n)
  <2>1. n \in 0 .. n
    OBVIOUS
  <2> QED BY <1>7, <2>1, Zenon
<1>9. Joined(strs, n) = FlattenSeq(strs) /\ Joined(r, n) = FlattenSeq(r)
  BY <1>1, <1>2, JoinedAll, Zenon
<1>10. FlattenSeq(r) \in Seq(Nat)
  BY FlattenType, Zenon
<1>11. PICK l \in Nat : l = Len(FlattenSeq(strs))
  BY <1>8, <1>9, Zenon DEF OneEach
<1>12. Size(strs) = l + n /\ Len(FlattenSeq(r)) = l + n
  BY <1>1, <1>8, <1>9, <1>11, Zenon DEF OneEach, Size
<1>13. l + n \in Nat /\ n <= l + n
  OBVIOUS
<1>14. strs = <<>> => l + n = 0
  <2> SUFFICES ASSUME strs = <<>> PROVE l + n = 0
    OBVIOUS
  <2>1. n = 0
    BY <1>1
  <2>2. FlattenSeq(strs) = <<>>
    <3>1. Joined(strs, 0) = <<>>
      BY JoinedNone, Zenon
    <3> QED BY <1>9, <2>1, <3>1, Zenon
  <2>3. l = 0
    BY <1>11, <2>2
  <2> QED BY <2>1, <2>3
<1> QED
  BY <1>1, <1>2, <1>10, <1>12, <1>13, <1>14, Zenon

\* What is joined in two parts.
LEMMA FlattenTwo ==
    ASSUME NEW a \in Seq(Seq(Nat)), NEW b \in Seq(Seq(Nat))
    PROVE  FlattenSeq(a \o b) = FlattenSeq(a) \o FlattenSeq(b)
<1>1. PICK m \in Nat, n \in Nat : m = Len(a) /\ n = Len(b)
  OBVIOUS
<1>2. PICK c \in Seq(Seq(Nat)) :
          /\ c = a \o b /\ Len(c) = m + n
          /\ \A k \in 1 .. m : c[k] = a[k]
          /\ \A k \in 1 .. n : c[m + k] = b[k]
  <2>1. /\ a \o b \in Seq(Seq(Nat)) /\ Len(a \o b) = Len(a) + Len(b)
        /\ \A k \in 1 .. Len(a) : (a \o b)[k] = a[k]
        /\ \A k \in 1 .. Len(b) : (a \o b)[Len(a) + k] = b[k]
    BY ConcatParts
  <2> QED BY <1>1, <2>1, Zenon
<1>3. PICK f \in Seq(Nat) : f = FlattenSeq(a)
  BY FlattenType, Zenon
<1> DEFINE Both(k) == Joined(c, m + k) = f \o Joined(b, k)
           S == {k \in Nat : k \in 0 .. n => Both(k)}
<1>4. Both(0)
  <2>1. SubSeq(c, 1, m) = a
    <3>1. 0 \in Nat /\ 0 + m <= Len(c) /\ 0 + 1 = 1 /\ 0 + m = m
      BY <1>2
    <3>2. \A k \in 1 .. m : c[0 + k] = a[k]
      BY <1>2
    <3>3. SubSeq(c, 0 + 1, 0 + m) = a
      BY <1>1, <3>1, <3>2, PartIs
    <3> QED BY <3>1, <3>3, Zenon
  <2>2. Joined(c, m) = f
    BY <1>3, <2>1, Zenon DEF Joined
  <2>3. Joined(b, 0) = <<>>
    BY JoinedNone, Zenon
  <2>4. f \o <<>> = f /\ m + 0 = m
    OBVIOUS
  <2> QED BY <2>2, <2>3, <2>4, Zenon
<1>5. ASSUME NEW k \in 1 .. n, Both(k - 1)
      PROVE  Both(k)
  <2>1. m + k \in 1 .. Len(c) /\ (m + k) - 1 = m + (k - 1) /\ k - 1 \in 0 .. Len(b) /\ k \in 1 .. Len(b)
    BY <1>1, <1>2
  <2>2. Joined(c, m + k) = Joined(c, m + (k - 1)) \o b[k]
    <3>1. Joined(c, m + k) = Joined(c, (m + k) - 1) \o c[m + k]
      BY <2>1, JoinedGrows, Zenon
    <3> QED BY <1>2, <2>1, <3>1, Zenon
  <2>3. Joined(b, k) = Joined(b, k - 1) \o b[k]
    BY <2>1, JoinedGrows, Zenon
  <2>4. PICK y \in Seq(Nat), z \in Seq(Nat) : y = Joined(b, k - 1) /\ z = b[k]
    <3>1. Joined(b, k - 1) \in Seq(Nat)
      BY <2>1, JoinedType, Zenon
    <3>2. b[k] \in Seq(Nat)
      BY <2>1
    <3> QED BY <3>1, <3>2, Zenon
  <2>5. (f \o y) \o z = f \o (y \o z)
    <3>1. Associative(Seq(Nat))
      BY AllAssociate, Zenon
    <3> QED BY <3>1, Zenon DEF Associative
  <2> QED BY <1>5, <2>2, <2>3, <2>4, <2>5, Zenon
<1> HIDE DEF Both
<1>6. \A k \in Nat \ {0} : k - 1 \in S => k \in S
  <2>1. \A k \in Nat \ {0} : k \in 0 .. n => k \in 1 .. n /\ k - 1 \in 0 .. n
    OBVIOUS
  <2> QED BY <1>5, <2>1, Zenon
<1>7. 0 \in S /\ S \in SUBSET Nat
  BY <1>4
<1>8. S = Nat
  <2> HIDE DEF S
  <2> QED BY <1>6, <1>7, Induction, Zenon
<1>9. Both(n)
  <2>1. n \in 0 .. n
    OBVIOUS
  <2> QED BY <1>8, <2>1, Zenon
<1>10. Joined(c, m + n) = FlattenSeq(c) /\ Joined(b, n) = FlattenSeq(b)
  BY <1>1, <1>2, JoinedAll, Zenon
<1> QED
  BY <1>2, <1>3, <1>9, <1>10, Zenon DEF Both

LEMMA EndingsTwo ==
    ASSUME NEW a \in Seq(Seq(Nat)), NEW b \in Seq(Seq(Nat))
    PROVE  Endings(a \o b) = Endings(a) \o Endings(b)
<1>1. PICK x \in Seq(Seq(Nat)), y \in Seq(Seq(Nat)) :
          /\ x = Endings(a) /\ Len(x) = Len(a) /\ \A k \in 1 .. Len(a) : x[k] = Terminated(a[k])
          /\ y = Endings(b) /\ Len(y) = Len(b) /\ \A k \in 1 .. Len(b) : y[k] = Terminated(b[k])
  BY EndingsAre, Zenon DEF Ends
<1>2. PICK m \in Nat, n \in Nat : m = Len(a) /\ n = Len(b)
  OBVIOUS
<1>3. PICK c \in Seq(Seq(Nat)) :
          /\ c = a \o b /\ Len(c) = m + n
          /\ \A k \in 1 .. m : c[k] = a[k]
          /\ \A k \in 1 .. n : c[m + k] = b[k]
  <2>1. /\ a \o b \in Seq(Seq(Nat)) /\ Len(a \o b) = Len(a) + Len(b)
        /\ \A k \in 1 .. Len(a) : (a \o b)[k] = a[k]
        /\ \A k \in 1 .. Len(b) : (a \o b)[Len(a) + k] = b[k]
    BY ConcatParts
  <2> QED BY <1>2, <2>1, Zenon
<1>4. PICK z \in Seq(Seq(Nat)) :
          /\ z = x \o y /\ Len(z) = m + n
          /\ \A k \in 1 .. m : z[k] = x[k]
          /\ \A k \in 1 .. n : z[m + k] = y[k]
  <2>1. /\ x \o y \in Seq(Seq(Nat)) /\ Len(x \o y) = Len(x) + Len(y)
        /\ \A k \in 1 .. Len(x) : (x \o y)[k] = x[k]
        /\ \A k \in 1 .. Len(y) : (x \o y)[Len(x) + k] = y[k]
    BY ConcatParts
  <2>2. Len(x) = m /\ Len(y) = n
    BY <1>1, <1>2, Zenon
  <2> QED BY <2>1, <2>2, Zenon
<1>5. PICK w \in Seq(Seq(Nat)) :
          /\ w = Endings(c) /\ Len(w) = m + n
          /\ \A k \in 1 .. m + n : w[k] = Terminated(c[k])
  <2>1. Ends(Endings(c), c)
    BY EndingsAre, Zenon
  <2> QED BY <1>3, <2>1, Zenon DEF Ends
<1>6. ASSUME NEW k \in 1 .. m + n
      PROVE  w[k] = z[k]
  <2>1. CASE k \in 1 .. m
    <3>1. z[k] = Terminated(a[k])
      BY <1>1, <1>2, <1>4, <2>1, Zenon
    <3>2. w[k] = Terminated(c[k])
      BY <1>5, Zenon
    <3>3. c[k] = a[k]
      BY <1>3, <2>1, Zenon
    <3> QED BY <3>1, <3>2, <3>3, Zenon
  <2>2. CASE k \notin 1 .. m
    <3>1. PICK j \in 1 .. n : k = m + j
      <4>1. k - m \in 1 .. n /\ k = m + (k - m)
        BY <2>2
      <4> QED BY <4>1, Zenon
    <3>2. z[k] = Terminated(b[j])
      BY <1>1, <1>2, <1>4, <3>1, Zenon
    <3>3. w[k] = Terminated(b[j])
      BY <1>3, <1>5, <3>1, Zenon
    <3> QED BY <3>2, <3>3, Zenon
  <2> QED BY <2>1, <2>2, Zenon
<1>7. w = z
  <2>1. Len(w) = Len(z) /\ \A k \in 1 .. Len(w) : w[k] = z[k]
    BY <1>4, <1>5, <1>6, Zenon
  <2> QED BY <2>1, SeqEqual
<1> QED
  BY <1>1, <1>3, <1>4, <1>5, <1>7, Zenon

LEMMA RefusedIs ==
    ASSUME NEW s \in Seq(Nat)
    PROVE  s # Refused
<1> SUFFICES ASSUME s = Refused PROVE FALSE
  OBVIOUS
<1>1. Len(s) = 1 /\ s[1] = -2
  BY DEF Refused
<1>2. 1 \in 1 .. Len(s)
  BY <1>1
<1>3. s[1] \in Nat
  BY <1>2, ElementOfSeq, Zenon
<1> QED
  BY <1>1, <1>3

LEMMA StringsOf ==
    ASSUME NEW strs \in Seq(Strings)
    PROVE  /\ strs \in Seq(Seq(Nat))
           /\ \A k \in 1 .. Len(strs) : \A j \in 1 .. Len(strs[k]) : strs[k][j] # Nul
           /\ Null \notin ToSet(strs)
<1>1. \A k \in 1 .. Len(strs) : strs[k] \in Strings
  BY ElementOfSeq
<1>2. \A s \in Strings : s \in Seq(Nat)
  BY StringsAre, Zenon
<1>3. Strings \subseteq Seq(Nat)
  BY <1>2, Zenon
<1>4. strs \in Seq(Seq(Nat))
  BY <1>3, WiderSeq, Zenon
<1>5. \A s \in Seq(Nat) : s # Null
  <2> SUFFICES ASSUME NEW s \in Seq(Nat), s = Null PROVE FALSE
    OBVIOUS
  <2>1. Len(s) = 1 /\ s[1] = -1
    BY DEF Null
  <2>2. 1 \in 1 .. Len(s)
    BY <2>1
  <2>3. s[1] \in Nat
    BY <2>2, ElementOfSeq, Zenon
  <2> QED BY <2>1, <2>3
<1>6. DOMAIN strs = 1 .. Len(strs)
  OBVIOUS
<1>7. Null \notin ToSet(strs)
  BY <1>1, <1>2, <1>5, <1>6, Zenon DEF ToSet
<1> QED
  BY <1>1, <1>4, <1>7, StringsAre, Zenon

\* What fits is there, in full.
LEMMA ConcatIs ==
    ASSUME NEW strs \in Seq(Strings), NEW max \in Int
    PROVE  concat_strings(strs, max) =
               IF Size(strs) > max THEN <<>> ELSE FlattenSeq(Endings(strs))
<1>1. strs \in Seq(Seq(Nat)) /\ Null \notin ToSet(strs)
  BY StringsOf, Zenon
<1>2. Len(FlattenSeq(Endings(strs))) = Size(strs)
  BY <1>1, SizeIs, Zenon
<1>3. concat_strings(strs, max) =
          IF Null \in ToSet(strs) \/ Len(FlattenSeq(Endings(strs))) > max
          THEN <<>> ELSE FlattenSeq(Endings(strs))
  BY Zenon DEF concat_strings, Endings
<1> QED
  BY <1>1, <1>2, <1>3, Zenon

\* The indices of concat_kv_pairs().
Paired(keys, values) ==
    [i \in 1 .. 2 * Len(keys) |->
        IF i % 2 = 1 THEN keys[(i + 1) \div 2] ELSE values[i \div 2]]

LEMMA Halves ==
    ASSUME NEW n \in Nat, NEW i \in 1 .. 2 * n
    PROVE  \/ i % 2 = 1 /\ \E k \in 1 .. n : k = (i + 1) \div 2 /\ i = 2 * (k - 1) + 1
           \/ i % 2 # 1 /\ \E k \in 1 .. n : k = i \div 2 /\ i = 2 * (k - 1) + 2
<1>1. CASE i % 2 = 1
  <2>1. (i + 1) \div 2 \in 1 .. n /\ i = 2 * ((i + 1) \div 2 - 1) + 1
    BY <1>1
  <2> QED BY <1>1, <2>1, Zenon
<1>2. CASE i % 2 # 1
  <2>1. i \div 2 \in 1 .. n /\ i = 2 * (i \div 2 - 1) + 2
    BY <1>2
  <2> QED BY <1>2, <2>1, Zenon
<1> QED
  BY <1>1, <1>2, Zenon

LEMMA InterleavedIs ==
    ASSUME NEW keys \in Seq(Strings), NEW values \in Seq(Strings), Len(keys) = Len(values)
    PROVE  /\ Interleaved(keys, values) = Paired(keys, values)
           /\ Interleaved(keys, values) \in Seq(Strings)
           /\ Len(Interleaved(keys, values)) = 2 * Len(keys)
<1>1. PICK n \in Nat : n = Len(keys) /\ n = Len(values) /\ DOMAIN keys = 1 .. n
  OBVIOUS
<1>2. \A k \in 1 .. n : keys[k] \in Strings /\ values[k] \in Strings
  BY <1>1, ElementOfSeq
<1>3. PICK g : g = [i \in DOMAIN keys |-> <<keys[i], values[i]>>]
  BY Zenon
<1>4. \A k \in 1 .. n : g[k] \in Seq(Strings) /\ Len(g[k]) = 2 /\ g[k][1] = keys[k] /\ g[k][2] = values[k]
  <2> SUFFICES ASSUME NEW k \in 1 .. n
               PROVE  g[k] \in Seq(Strings) /\ Len(g[k]) = 2 /\ g[k][1] = keys[k] /\ g[k][2] = values[k]
    OBVIOUS
  <2>1. PICK a \in Strings, b \in Strings : a = keys[k] /\ b = values[k]
    BY <1>2, Zenon
  <2>2. g[k] = <<a, b>>
    BY <1>1, <1>3, <2>1, Zenon
  <2>3. <<a, b>> \in Seq(Strings) /\ Len(<<a, b>>) = 2 /\ <<a, b>>[1] = a /\ <<a, b>>[2] = b
    OBVIOUS
  <2> QED BY <2>1, <2>2, <2>3, Zenon
<1>5. g \in Seq(Seq(Strings)) /\ Len(g) = n
  <2>1. g = [k \in 1 .. n |-> g[k]]
    BY <1>1, <1>3, Zenon
  <2>2. g \in [1 .. n -> Seq(Strings)]
    BY <1>4, <2>1, Zenon
  <2> QED BY <2>2, FunctionSeq, Zenon
<1>6. PICK f \in Seq(Strings) : f = FlattenSeq(g) /\ f = Interleaved(keys, values)
  <2>1. FlattenSeq(g) \in Seq(Strings)
    BY <1>5, FlattenType, Zenon
  <2> QED BY <1>3, <2>1, Zenon DEF Interleaved
<1> DEFINE Two(k) == Len(Joined(g, k)) = 2 * k
           S == {k \in Nat : k \in 0 .. n => Two(k)}
<1>7. Two(0)
  <2>1. Joined(g, 0) = <<>>
    BY <1>5, JoinedNone, Zenon
  <2> QED BY <2>1
<1>8. ASSUME NEW k \in 1 .. n
      PROVE  Inside(g, k, g[k], Len(Joined(g, k - 1)), f)
  <2>1. k \in 1 .. Len(g)
    BY <1>5
  <2>2. Inside(g, k, g[k], Len(Joined(g, k - 1)), FlattenSeq(g))
    BY <1>5, <2>1, InsideIs, Zenon
  <2> QED BY <1>6, <2>2, Zenon
<1>9. ASSUME NEW k \in 1 .. n, Two(k - 1)
      PROVE  Two(k)
  <2>1. Len(Joined(g, k)) = Len(Joined(g, k - 1)) + Len(g[k])
    BY <1>8, Zenon DEF Inside
  <2>2. Len(Joined(g, k)) = 2 * (k - 1) + 2
    BY <1>4, <1>9, <2>1, Zenon
  <2>3. 2 * (k - 1) + 2 = 2 * k
    OBVIOUS
  <2> QED BY <2>2, <2>3, Zenon
<1> HIDE DEF Two
<1>10. \A k \in Nat \ {0} : k - 1 \in S => k \in S
  <2>1. \A k \in Nat \ {0} : k \in 0 .. n => k \in 1 .. n /\ k - 1 \in 0 .. n
    OBVIOUS
  <2> QED BY <1>9, <2>1, Zenon
<1>11. 0 \in S /\ S \in SUBSET Nat
  BY <1>7
<1>12. S = Nat
  <2> HIDE DEF S
  <2> QED BY <1>10, <1>11, Induction, Zenon
<1>13. \A k \in 0 .. n : Two(k)
  <2>1. \A k \in 0 .. n : k \in Nat
    OBVIOUS
  <2> QED BY <1>12, <2>1, Zenon
<1>14. Len(f) = 2 * n
  <2>1. Joined(g, n) = f
    BY <1>5, <1>6, JoinedAll, Zenon
  <2>2. n \in 0 .. n
    OBVIOUS
  <2> QED BY <1>13, <2>1, <2>2, Zenon DEF Two
<1>15. ASSUME NEW k \in 1 .. n
       PROVE  f[2 * (k - 1) + 1] = keys[k] /\ f[2 * (k - 1) + 2] = values[k]
  <2>1. k - 1 \in 0 .. n /\ 1 \in 1 .. 2 /\ 2 \in 1 .. 2
    OBVIOUS
  <2>2. Len(Joined(g, k - 1)) = 2 * (k - 1)
    BY <1>13, <2>1, Zenon DEF Two
  <2>3. \A j \in 1 .. 2 : f[2 * (k - 1) + j] = g[k][j]
    <3>1. PICK t, b : t = g[k] /\ b = 2 * (k - 1)
      BY Zenon
    <3>2. Inside(g, k, t, b, f)
      BY <1>8, <2>2, <3>1, Zenon
    <3>3. Len(t) = 2
      BY <1>4, <3>1, Zenon
    <3> QED BY <3>1, <3>2, <3>3, Zenon DEF Inside
  <2> QED BY <1>4, <2>1, <2>3, Zenon
<1>16. \A i \in 1 .. 2 * n : f[i] = IF i % 2 = 1 THEN keys[(i + 1) \div 2] ELSE values[i \div 2]
  <2> SUFFICES ASSUME NEW i \in 1 .. 2 * n
               PROVE  f[i] = IF i % 2 = 1 THEN keys[(i + 1) \div 2] ELSE values[i \div 2]
    OBVIOUS
  <2>1. CASE i % 2 = 1
    <3>1. PICK k \in 1 .. n : k = (i + 1) \div 2 /\ i = 2 * (k - 1) + 1
      BY <2>1, Halves, Zenon
    <3> QED BY <1>15, <2>1, <3>1, Zenon
  <2>2. CASE i % 2 # 1
    <3>1. PICK k \in 1 .. n : k = i \div 2 /\ i = 2 * (k - 1) + 2
      BY <2>2, Halves, Zenon
    <3> QED BY <1>15, <2>2, <3>1, Zenon
  <2> QED BY <2>1, <2>2, Zenon
<1>17. f = [i \in 1 .. 2 * n |-> f[i]]
  BY <1>14
<1>18. f = Paired(keys, values)
  <2>1. Paired(keys, values) = [i \in 1 .. 2 * n |->
            IF i % 2 = 1 THEN keys[(i + 1) \div 2] ELSE values[i \div 2]]
    BY <1>1, Zenon DEF Paired
  <2> QED BY <1>16, <1>17, <2>1, Zenon
<1> QED
  BY <1>1, <1>6, <1>14, <1>18, Zenon

\* Strings behind a head of x bytes that fit the buffer.
LEMMA WholeSent ==
    ASSUME NEW strs \in Seq(Strings), NEW head \in Seq(Nat), NEW x \in Nat, x = Len(head),
           NEW in, in = head \o Terminated(FlattenSeq(Endings(strs))),
           x + Size(strs) + 1 <= BufLen
    PROVE  in \in Seq(Nat) /\ in # Refused /\ Whole(in, x, strs)
<1>1. /\ strs \in Seq(Seq(Nat))
      /\ \A k \in 1 .. Len(strs) : \A j \in 1 .. Len(strs[k]) : strs[k][j] # Nul
  BY StringsOf, Zenon
<1>2. PICK r : r = Endings(strs)
  BY Zenon
<1>3. Ends(r, strs)
  BY <1>1, <1>2, EndingsAre, Zenon
<1>4. PICK f \in Seq(Nat), n \in Nat : f = FlattenSeq(r) /\ n = Len(f) /\ n = Size(strs)
  BY <1>1, <1>2, SizeIs, Zenon
<1>5. PICK y \in Seq(Nat) :
          /\ y = Terminated(f) /\ Len(y) = n + 1
          /\ \A k \in 1 .. n : y[k] = f[k]
          /\ y[n + 1] = Nul
  BY <1>4, TerminatedIs, Zenon
<1>6. /\ in \in Seq(Nat) /\ Len(in) = x + (n + 1)
      /\ \A k \in 1 .. n + 1 : in[x + k] = y[k]
  <2>1. /\ head \o y \in Seq(Nat) /\ Len(head \o y) = Len(head) + Len(y)
        /\ \A k \in 1 .. Len(y) : (head \o y)[Len(head) + k] = y[k]
    BY ConcatParts
  <2>2. in = head \o y
    BY <1>2, <1>4, <1>5, Zenon
  <2> QED BY <1>5, <2>1, <2>2, Zenon
<1>7. /\ x + n + 1 = x + (n + 1) /\ n + 1 \in 1 .. n + 1 /\ \A k \in 1 .. n : k \in 1 .. n + 1
  OBVIOUS
<1>8. Sends(strs, r, x, in)
  <2>1. Len(in) = x + n + 1 /\ in[x + n + 1] = Nul
    BY <1>5, <1>6, <1>7, Zenon
  <2>2. \A k \in 1 .. n : in[x + k] = f[k]
    BY <1>5, <1>6, <1>7, Zenon
  <2> QED BY <1>1, <1>3, <1>4, <1>6, <2>1, <2>2, Zenon DEF Sends
<1>9. Strung(in, x + 1, Len(strs) + 1) = Append(strs, <<>>)
  BY <1>1, <1>8, StrungRead, Zenon
<1>10. in # Refused
  BY <1>6, RefusedIs, Zenon
<1>11. x + Len(FlattenSeq(strs)) + Len(strs) + 1 = x + Size(strs) + 1
  <2>1. Len(FlattenSeq(strs)) \in Nat /\ Len(strs) \in Nat
    BY <1>1, FlattenType
  <2> QED BY <2>1 DEF Size
<1>12. Len(in) = x + Size(strs) + 1 /\ ~(x + Size(strs) + 1 > BufLen)
  <2>1. Len(in) = x + Size(strs) + 1
    BY <1>4, <1>6, <1>7, Zenon
  <2>2. x + Size(strs) + 1 \in Int /\ BufLen \in Int
    BY <1>4, BufLenAssumption
  <2>3. \A a, b \in Int : a <= b => ~(a > b)
    OBVIOUS
  <2> QED BY <2>1, <2>2, <2>3, Zenon
<1> QED
  BY <1>6, <1>9, <1>10, <1>11, <1>12, Zenon DEF Whole

LEMMA NotSent ==
    ASSUME NEW strs \in Seq(Strings), NEW x \in Nat, x + Size(strs) + 1 > BufLen
    PROVE  Whole(Refused, x, strs)
<1>1. Len(FlattenSeq(strs)) \in Nat /\ Len(strs) \in Nat
  <2>1. strs \in Seq(Seq(Nat))
    BY StringsOf, Zenon
  <2> QED BY <2>1, FlattenType
<1>2. x + Len(FlattenSeq(strs)) + Len(strs) + 1 = x + Size(strs) + 1
  BY <1>1 DEF Size
<1> QED
  BY <1>2, Zenon DEF Whole

\* What all of it takes: sizes add up, and only nothing takes nothing.
LEMMA SizesAre ==
    ASSUME NEW strs \in Seq(Strings)
    PROVE  /\ Size(strs) \in Nat /\ Len(strs) <= Size(strs)
           /\ strs = <<>> => Size(strs) = 0
           /\ FlattenSeq(Endings(strs)) \in Seq(Nat)
           /\ Len(FlattenSeq(Endings(strs))) = Size(strs)
           /\ FlattenSeq(Endings(strs)) = <<>> => Size(strs) = 0
<1>1. strs \in Seq(Seq(Nat))
  BY StringsOf, Zenon
<1>2. Len(<<>>) = 0
  OBVIOUS
<1> QED
  BY <1>1, <1>2, SizeIs, Zenon

Added(a, b) ==
    /\ a \o b \in Seq(Strings)
    /\ Size(a \o b) = Size(a) + Size(b)
    /\ FlattenSeq(Endings(a \o b)) = FlattenSeq(Endings(a)) \o FlattenSeq(Endings(b))

LEMMA SizesAdd ==
    ASSUME NEW a \in Seq(Strings), NEW b \in Seq(Strings)
    PROVE  Added(a, b)
<1>1. a \in Seq(Seq(Nat)) /\ b \in Seq(Seq(Nat))
  BY StringsOf, Zenon
<1>2. a \o b \in Seq(Strings)
  OBVIOUS
<1>3. Endings(a) \in Seq(Seq(Nat)) /\ Endings(b) \in Seq(Seq(Nat))
  BY <1>1, EndingsAre, Zenon DEF Ends
<1>4. FlattenSeq(Endings(a \o b)) = FlattenSeq(Endings(a)) \o FlattenSeq(Endings(b))
  BY <1>1, <1>3, EndingsTwo, FlattenTwo, Zenon
<1>5. PICK f \in Seq(Nat), g \in Seq(Nat) :
          /\ f = FlattenSeq(Endings(a)) /\ Len(f) = Size(a)
          /\ g = FlattenSeq(Endings(b)) /\ Len(g) = Size(b)
  BY SizesAre, Zenon
<1>6. Len(f \o g) = Len(f) + Len(g)
  OBVIOUS
<1>7. Len(FlattenSeq(Endings(a \o b))) = Size(a \o b)
  BY <1>2, SizesAre, Zenon
<1> QED
  BY <1>2, <1>4, <1>5, <1>6, <1>7, Zenon DEF Added

\* Strings without a head, as mw_ga_endpoint_set() and mw_ga_key_value_add() send them.
Plain(strs) ==
    LET all == concat_strings(strs, BufLen - 1)
    IN  IF all = <<>> /\ strs # <<>> THEN Refused ELSE Terminated(all)

LEMMA PlainWhole ==
    ASSUME NEW strs \in Seq(Strings)
    PROVE  Whole(Plain(strs), 0, strs)
<1>1. PICK n \in Nat, f \in Seq(Nat) :
          /\ n = Size(strs) /\ Len(strs) <= n /\ f = FlattenSeq(Endings(strs))
          /\ (strs = <<>> \/ f = <<>> => n = 0)
  BY SizesAre, Zenon
<1>2. PICK m \in Nat : m = BufLen - 1
  BY BufLenAssumption
<1>3. concat_strings(strs, m) = IF n > m THEN <<>> ELSE f
  <2>1. m \in Int
    OBVIOUS
  <2> QED BY <1>1, <2>1, ConcatIs, Zenon
<1>4. n = 0 => strs = <<>>
  <2>1. Len(strs) <= 0 => strs = <<>>
    OBVIOUS
  <2> QED BY <1>1, <2>1, Zenon
<1>5. CASE n > m
  <2>1. n # 0 /\ 0 + n + 1 > BufLen
    BY <1>2, <1>5, BufLenAssumption
  <2>2. Plain(strs) = Refused
    BY <1>1, <1>2, <1>3, <1>5, <2>1, Zenon DEF Plain
  <2>3. 0 \in Nat
    OBVIOUS
  <2> QED BY <1>1, <2>1, <2>2, <2>3, NotSent, Zenon
<1>6. CASE ~(n > m)
  <2>1. 0 + n + 1 <= BufLen /\ 0 \in Nat
    BY <1>2, <1>6, BufLenAssumption
  <2>2. Plain(strs) = Terminated(f)
    BY <1>1, <1>2, <1>3, <1>4, <1>6, Zenon DEF Plain
  <2>3. PICK e \in Seq(Nat) : e = <<>> /\ Len(e) = 0
    <3>1. <<>> \in Seq(Nat) /\ Len(<<>>) = 0
      OBVIOUS
    <3> QED BY <3>1, Zenon
  <2>4. e \o Terminated(f) = Terminated(f)
    <3>1. Terminated(f) \in Seq(Nat)
      BY TerminatedIs, Zenon
    <3> QED BY <2>3, <3>1, ConcatNone, Zenon
  <2> QED BY <1>1, <2>1, <2>2, <2>3, <2>4, WholeSent, Zenon
<1> QED
  BY <1>5, <1>6, Zenon

LEMMA EndpointIs ==
    ASSUME NEW path \in Seq(Strings), Len(path) = 2
    PROVE  Whole(Endpoint(path[1], path[2]), 0, path)
<1>1. path = <<path[1], path[2]>> /\ path # <<>>
  OBVIOUS
<1>2. Endpoint(path[1], path[2]) = Plain(path)
  BY <1>1, Zenon DEF Endpoint, Plain
<1> QED
  BY <1>2, PlainWhole, Zenon

LEMMA KeyValuesAre ==
    ASSUME NEW keys \in Seq(Strings), NEW values \in Seq(Strings), Len(keys) = Len(values)
    PROVE  Whole(KeyValues(keys, values), 0, Interleaved(keys, values))
<1>1. PICK pairs \in Seq(Strings) :
          /\ pairs = Interleaved(keys, values) /\ pairs = Paired(keys, values)
          /\ Len(pairs) = 2 * Len(keys)
  BY InterleavedIs, Zenon
<1>2. keys = <<>> <=> pairs = <<>>
  <2>1. PICK n \in Nat : n = Len(keys)
    OBVIOUS
  <2>2. keys = <<>> <=> n = 0
    BY <2>1
  <2>3. pairs = <<>> <=> 2 * n = 0
    BY <1>1, <2>1
  <2>4. n = 0 <=> 2 * n = 0
    OBVIOUS
  <2> QED BY <2>2, <2>3, <2>4, Zenon
<1>3. concat_kv_pairs(keys, values, BufLen - 1) = concat_strings(pairs, BufLen - 1)
  BY <1>1, Zenon DEF concat_kv_pairs, Paired
<1>4. KeyValues(keys, values) = Plain(pairs)
  BY <1>2, <1>3, Zenon DEF KeyValues, Plain
<1> QED
  BY <1>1, <1>4, PlainWhole, Zenon

\* What RequestWhole says of a request.
Asked(sent, path, keys, pairs) ==
    /\ IF path = <<>> THEN sent = Refused ELSE Whole(sent, 3, path \o pairs)
    /\ sent # Refused => sent[2] = Len(path) /\ sent[3] = Len(keys)

LEMMA GaRequestIs ==
    ASSUME NEW path \in Seq(Strings), NEW keys \in Seq(Strings), NEW values \in Seq(Strings),
           Len(keys) = Len(values)
    PROVE  Asked(GaRequest(1, path, keys, values), path, keys, Interleaved(keys, values))
<1>1. PICK pairs \in Seq(Strings) :
          /\ pairs = Interleaved(keys, values) /\ pairs = Paired(keys, values)
          /\ Len(pairs) = 2 * Len(keys)
  BY InterleavedIs, Zenon
<1>2. /\ path = <<>> <=> Len(path) = 0
      /\ keys = <<>> <=> Len(keys) = 0
      /\ Len(path) \in Nat /\ Len(keys) \in Nat
  OBVIOUS
<1>3. PICK k \in Nat, y \in Seq(Nat) :
          /\ k = Size(pairs) /\ Len(pairs) <= k /\ (pairs = <<>> => k = 0)
          /\ y = FlattenSeq(Endings(pairs)) /\ Len(y) = k
  BY SizesAre, Zenon
<1>4. PICK p \in Nat, x \in Seq(Nat) :
          /\ p = Size(path) /\ Len(path) <= p /\ (path = <<>> => p = 0)
          /\ x = FlattenSeq(Endings(path)) /\ Len(x) = p
  BY SizesAre, Zenon
<1>5. /\ keys = <<>> <=> k = 0
      /\ path = <<>> <=> p = 0
      /\ x = <<>> <=> p = 0
      /\ y = <<>> <=> k = 0
  <2>1. keys = <<>> <=> k = 0
    <3>1. PICK n \in Nat : n = Len(keys)
      BY <1>2
    <3>2. keys = <<>> => pairs = <<>>
      BY <1>1, <1>2
    <3>3. 2 * n <= k
      BY <1>1, <1>3, <3>1, Zenon
    <3>4. k = 0 => n = 0
      BY <3>3
    <3> QED BY <1>2, <1>3, <3>1, <3>2, <3>4, Zenon
  <2>2. path = <<>> <=> p = 0
    <3>1. p = 0 => Len(path) = 0
      BY <1>2, <1>4
    <3> QED BY <1>2, <1>4, <3>1, Zenon
  <2>3. x = <<>> <=> Len(x) = 0
    OBVIOUS
  <2>4. y = <<>> <=> Len(y) = 0
    OBVIOUS
  <2> QED BY <1>3, <1>4, <2>1, <2>2, <2>3, <2>4, Zenon
<1>6. PICK z \in Seq(Strings) :
          z = path \o pairs /\ Size(z) = p + k /\ FlattenSeq(Endings(z)) = x \o y
  <2>1. Added(path, pairs)
    BY SizesAdd, Zenon
  <2> QED BY <1>3, <1>4, <2>1, Zenon DEF Added
<1>7. PICK m \in Int : m = BufLen - 4
  BY BufLenAssumption
<1>8. concat_strings(path, m) = IF p > m THEN <<>> ELSE x
  BY <1>4, ConcatIs, Zenon
<1>9. \A max \in Int :
          concat_kv_pairs(keys, values, max) = IF k > max THEN <<>> ELSE y
  <2>1. \A max : concat_kv_pairs(keys, values, max) = concat_strings(pairs, max)
    BY <1>1, Zenon DEF concat_kv_pairs, Paired
  <2> QED BY <1>3, <2>1, ConcatIs, Zenon
<1> DEFINE head == <<1, Len(path), Len(keys)>>
           sent == GaRequest(1, path, keys, values)
           rest == concat_kv_pairs(keys, values, m - Len(concat_strings(path, m)))
<1>10. sent = IF concat_strings(path, m) = <<>> \/ (rest = <<>> /\ keys # <<>>) THEN Refused
              ELSE head \o Terminated(concat_strings(path, m) \o rest)
  BY <1>7, Zenon DEF GaRequest
<1>11. CASE p = 0 \/ p > m
  <2>1. sent = Refused
    <3>1. concat_strings(path, m) = <<>>
      BY <1>5, <1>8, <1>11, Zenon
    <3> HIDE DEF sent, rest, head
    <3> QED BY <1>10, <3>1, Zenon
  <2> HIDE DEF sent
  <2>2. ASSUME p # 0
        PROVE  Whole(Refused, 3, z)
    <3>1. 3 + (p + k) + 1 > BufLen
      <4>1. p > m
        BY <1>11, <2>2
      <4> QED BY <1>7, <4>1, BufLenAssumption
    <3>2. 3 \in Nat
      OBVIOUS
    <3> QED BY <1>6, <3>1, <3>2, NotSent, Zenon
  <2>3. Asked(sent, path, keys, pairs)
    BY <1>5, <1>6, <2>1, <2>2, Zenon DEF Asked
  <2> QED BY <1>1, <2>3, Zenon DEF sent
<1>12. CASE p # 0 /\ ~(p > m)
  <2>1. concat_strings(path, m) = x /\ x # <<>> /\ path # <<>>
    BY <1>5, <1>8, <1>12, Zenon
  <2>2. PICK l \in Nat : l = m - p
    BY <1>12
  <2>3. rest = IF k > l THEN <<>> ELSE y
    <3>1. rest = concat_kv_pairs(keys, values, l)
      BY <1>4, <2>1, <2>2, Zenon
    <3>2. l \in Int
      OBVIOUS
    <3> QED BY <1>9, <3>1, <3>2, Zenon
  <2> HIDE DEF rest
  <2>4. CASE k > l
    <3>1. k # 0 /\ 3 + (p + k) + 1 > BufLen
      BY <1>7, <2>2, <2>4, BufLenAssumption
    <3>2. rest = <<>> /\ keys # <<>>
      BY <1>5, <2>3, <2>4, <3>1, Zenon
    <3>3. sent = Refused
      <4> HIDE DEF sent, head
      <4> QED BY <1>10, <3>2, Zenon
    <3> HIDE DEF sent
    <3>4. Whole(Refused, 3, z)
      <4>1. 3 \in Nat
        OBVIOUS
      <4> QED BY <1>6, <3>1, <4>1, NotSent, Zenon
    <3>5. Asked(sent, path, keys, pairs)
      BY <1>6, <2>1, <3>3, <3>4, Zenon DEF Asked
    <3> QED BY <1>1, <3>5, Zenon DEF sent
  <2>5. CASE ~(k > l)
    <3>1. 3 + (p + k) + 1 <= BufLen
      BY <1>7, <2>2, <2>5, BufLenAssumption
    <3>2. rest = y /\ ~(rest = <<>> /\ keys # <<>>)
      BY <1>5, <2>3, <2>5, Zenon
    <3>3. sent = head \o Terminated(x \o y)
      <4> HIDE DEF sent, head
      <4> QED BY <1>10, <2>1, <3>2, Zenon
    <3>4. head \in Seq(Nat) /\ Len(head) = 3 /\ head[2] = Len(path) /\ head[3] = Len(keys)
      BY <1>2
    <3> HIDE DEF sent, head
    <3>5. sent \in Seq(Nat) /\ sent # Refused /\ Whole(sent, 3, z)
      <4>1. 3 \in Nat
        OBVIOUS
      <4>2. sent = head \o Terminated(FlattenSeq(Endings(z)))
        BY <1>6, <3>3, Zenon
      <4> QED BY <1>6, <3>1, <3>4, <4>1, <4>2, WholeSent, Zenon
    <3>6. sent[2] = Len(path) /\ sent[3] = Len(keys)
      <4>1. PICK u \in Seq(Nat) : u = Terminated(x \o y)
        <5>1. x \o y \in Seq(Nat)
          OBVIOUS
        <5> QED BY <5>1, TerminatedIs, Zenon
      <4>2. \A i \in 1 .. Len(head) : (head \o u)[i] = head[i]
        <5>1. PICK h \in Seq(Nat) : h = head
          BY <3>4, Zenon
        <5>2. \A i \in 1 .. Len(h) : (h \o u)[i] = h[i]
          OBVIOUS
        <5> QED BY <5>1, <5>2, Zenon
      <4>3. 2 \in 1 .. 3 /\ 3 \in 1 .. 3
        OBVIOUS
      <4> QED BY <3>3, <3>4, <4>1, <4>2, <4>3, Zenon
    <3>7. Asked(sent, path, keys, pairs)
      BY <1>6, <2>1, <3>5, <3>6, Zenon DEF Asked
    <3> QED BY <1>1, <3>7, Zenon DEF sent
  <2> QED BY <2>4, <2>5, Zenon
<1> QED
  BY <1>11, <1>12, Zenon

\* A request of the game API, whatever strings it is made of, is sent if it fits the
\* buffer and has a path; then the module reads from it the paths, keys and values
\* that mw_ga_request() was given, in the numbers that it says.  The same holds of
\* mw_ga_endpoint_set() and mw_ga_key_value_add().
THEOREM RequestsAreWhole == Spec => []RequestWhole
<1>1. ASSUME Given
      PROVE  RequestWhole
  <2>1. ASSUME given.to = "request"
        PROVE  /\ given.args[1] \in Seq(Strings) /\ given.args[2] \in Seq(Strings)
               /\ given.args[3] \in Seq(Strings) /\ Len(given.args[2]) = Len(given.args[3])
    <3>1. /\ given.args[1] \in SeqOf(Strings, MaxStrings)
          /\ given.args[2] \in SeqOf(Strings, MaxStrings)
          /\ given.args[3] \in SeqOf(Strings, MaxStrings)
          /\ Len(given.args[2]) = Len(given.args[3])
      BY <1>1, <2>1, Zenon DEF Given
    <3>2. \A s \in SeqOf(Strings, MaxStrings) : s \in Seq(Strings)
      <4> SUFFICES ASSUME NEW s \in SeqOf(Strings, MaxStrings)
                   PROVE  s \in Seq(Strings)
        OBVIOUS
      <4>1. PICK m \in 0 .. MaxStrings : s \in [1 .. m -> Strings]
        BY Zenon DEF SeqOf
      <4>2. m \in Nat
        OBVIOUS
      <4> QED BY <4>1, <4>2, FunctionSeq, Zenon
    <3> QED BY <3>1, <3>2, Zenon
  <2>2. ASSUME given.to = "request"
        PROVE  Asked(GaRequest(1, given.args[1], given.args[2], given.args[3]),
                     given.args[1], given.args[2], Interleaved(given.args[2], given.args[3]))
    BY <2>1, <2>2, GaRequestIs, Zenon
  <2>3. ASSUME given.to = "request"
        PROVE  Whole(KeyValues(given.args[2], given.args[3]), 0,
                     Interleaved(given.args[2], given.args[3]))
    BY <2>1, <2>3, KeyValuesAre, Zenon
  <2>4. ASSUME given.to = "request", Len(given.args[1]) = 2
        PROVE  Whole(Endpoint(given.args[1][1], given.args[1][2]), 0, given.args[1])
    BY <2>1, <2>4, EndpointIs, Zenon
  <2> QED BY <2>2, <2>3, <2>4, Zenon DEF RequestWhole, Asked
<1> QED
  BY <1>1, GivenAlways, PTL
=============================================================================
