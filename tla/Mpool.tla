-------------------------------- MODULE Mpool --------------------------------
(***************************************************************************)
(* The memory pool of src/src/mw/mpool.c, a stack of aligned blocks that   *)
(* grows from the end of the program's data to the end of the RAM, and     *)
(* loop_init() and loop_deinit() of src/src/mw/loop.c, its only user: the  *)
(* tables of module Loop lie in it, if there was room for them.            *)
(***************************************************************************)
EXTENDS Integers

CONSTANTS
    Eflash,      \* address of _eflash, the end of the program's data
    PoolEnd,     \* MP_POOL_END
    Lengths,     \* arguments of mp_alloc() and mp_calloc()
    DataSize,    \* sizeof(struct loop_data)
    Tables       \* arguments of loop_init(): pairs of table sizes

Nowhere == 0     \* the null pointer, in the ROM
MP_ALIGN == 4
PointerSize == 4
Word == 65536    \* values of an uint16_t

\* Up to the next multiple of MP_ALIGN.
MP_ALIGN_COMP_Bug(n) == (n \div MP_ALIGN) * MP_ALIGN
MP_ALIGN_COMP(n) == ((n + MP_ALIGN - 1) \div MP_ALIGN) * MP_ALIGN

ASSUME PoolAssumption ==
    /\ Eflash \in Nat \ {Nowhere}
    /\ PoolEnd \in Nat
    /\ MP_ALIGN_COMP(Eflash) < PoolEnd
    /\ Lengths \subseteq 0 .. Word - 1
    /\ DataSize \in 1 .. Word - MP_ALIGN
    /\ Tables \subseteq (0 .. 255) \X (0 .. 255)

VARIABLES
    init_done, floor, pos,   \* md
    loop,                    \* d of loop.c, where its data are
    blocks                   \* history: blocks handed out and not freed

poolVars == <<init_done, floor, pos, loop, blocks>>

Block(at, len) == [at |-> at, len |-> len]

\* Rounding wraps in 16 bits: the last three lengths become 0.
Rounded(length) == MP_ALIGN_COMP(length) % Word

PoolInit ==
    /\ init_done = FALSE
    /\ floor = 0
    /\ pos = 0
    /\ loop = Nowhere
    /\ blocks = {}

-----------------------------------------------------------------------------

\* mp_init(), which forgets all blocks, those of the loop too, when it is forced.
MpInit(force) ==
    /\ IF ~init_done \/ force
       THEN /\ init_done' = TRUE
            /\ floor' = MP_ALIGN_COMP(Eflash)
            /\ pos' = floor'
            /\ blocks' = {}
       ELSE UNCHANGED <<init_done, floor, pos, blocks>>
    /\ UNCHANGED loop

\* The end of the pool is never handed out.
Room(end) == end < PoolEnd

Pool(at, taken) == [pos |-> at, blocks |-> taken]

\* What mp_alloc() and mp_calloc() make of a pool: without room they return NULL.
Allocated(pool, length) ==
    LET end == pool.pos + Rounded(length)
    IN  IF Room(end) THEN Pool(end, pool.blocks \cup {Block(pool.pos, length)}) ELSE pool

\* After mp_init().
MpAlloc(length) ==
    /\ init_done
    /\ LET pool == Allocated(Pool(pos, blocks), length)
       IN  pos' = pool.pos /\ blocks' = pool.blocks
    /\ UNCHANGED <<init_done, floor, loop>>

\* All that ends behind p is free then, a block that p lies in too.
Freed(p) ==
    IF floor <= p /\ p < pos /\ p = MP_ALIGN_COMP(p)
    THEN pos' = p /\ blocks' = {b \in blocks : b.at + b.len <= p}
    ELSE UNCHANGED <<pos, blocks>>

\* mp_free_to() with what mp_alloc() returned.
MpFreeTo(p) ==
    /\ Freed(p)
    /\ UNCHANGED <<init_done, floor, loop>>

\* loop_init(), which initialises the pool if nobody did.  It does not look whether
\* there was room: a table that has none lies at the null pointer, in the ROM, and
\* without room for its data the loop is not initialised.
LoopInit(func_max, timer_max) ==
    /\ loop = Nowhere
    /\ LET start == IF init_done THEN pos ELSE MP_ALIGN_COMP(Eflash)
           data == Allocated(Pool(start, blocks), DataSize)
           f == Allocated(data, PointerSize * func_max)
           t == Allocated(f, PointerSize * timer_max)
       IN  /\ loop' = IF Room(start + Rounded(DataSize)) THEN start ELSE Nowhere
           /\ pos' = t.pos /\ blocks' = t.blocks
           /\ floor' = IF init_done THEN floor ELSE start
    /\ init_done' = TRUE

LoopDeinit ==
    /\ loop # Nowhere
    /\ Freed(loop)
    /\ loop' = Nowhere
    /\ UNCHANGED <<init_done, floor>>

PoolNext ==
    \/ \E force \in BOOLEAN : MpInit(force)
    \/ \E length \in Lengths : MpAlloc(length)
    \/ \E b \in blocks : MpFreeTo(b.at)
    \/ \E n \in Tables : LoopInit(n[1], n[2])
    \/ LoopDeinit

PoolSpec == PoolInit /\ [][PoolNext]_poolVars

-----------------------------------------------------------------------------
(* Properties.                                                             *)

\* The pool never reaches the end of the RAM, and what it hands out is aligned.
PoolType ==
    /\ init_done \in BOOLEAN
    /\ floor \in Nat /\ pos \in Nat
    /\ init_done => floor <= pos /\ pos < PoolEnd /\ pos % MP_ALIGN = 0
    /\ blocks \subseteq [at : Nat, len : 0 .. Word - 1]
    /\ loop \in Nat

Apart(a, b) == a.at + a.len <= b.at \/ b.at + b.len <= a.at

\* A length that does not wrap when it is rounded up.
Fits(b) == b.len <= Word - MP_ALIGN

\* Two blocks that are alive share no byte and lie in the pool, below its end,
\* whatever was freed in between, also by a loop whose data the pool forgot or
\* had no room for, unless a length wrapped (mp_alloc(), mpool.c:45-58).
BlocksApart ==
    \A a \in blocks : Fits(a) =>
        /\ floor <= a.at /\ a.at + a.len <= pos /\ pos < PoolEnd
        /\ \A b \in blocks : Fits(b) => a = b \/ Apart(a, b)
=============================================================================
