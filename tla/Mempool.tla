------------------------------ MODULE Mempool ------------------------------
(***************************************************************************)
(* core/mempool.c: a fixed array of blocks and a mask of the free ones.    *)
(* Addresses are offsets from the array.  Nothing in src/ takes a block in *)
(* one task while another does, so that a call is one step.                *)
(*                                                                         *)
(* "held" is the callers' side: the blocks that mempool_lock returned and  *)
(* that were not passed to mempool_unlock since.                           *)
(***************************************************************************)
EXTENDS Integers, FiniteSets

CONSTANTS
    BlockNum, BlockSize,   \* MEMPOOL_BLOCK_NUM, MEMPOOL_BLOCK_SIZE
    MaxLocks               \* bound: blocks locked over a run

ASSUME PoolAssumption ==
    BlockNum \in Nat \ {0} /\ BlockSize \in Nat \ {0} /\ MaxLocks \in Nat

VARIABLES
    free,                  \* mempool_free, as the set of the bits that are set
    locks, unlocks,        \* mempool_lock_count, mempool_unlock_count
    held,                  \* the blocks the callers hold
    poolAborted            \* the check that called abort, or "none"

poolVars == <<free, locks, unlocks, held, poolAborted>>

Blocks   == 0 .. BlockNum - 1
PoolSize == BlockNum * BlockSize
Pointers == -1 .. PoolSize

\* mempool_create: "mempool_free = ~0".
PoolInit ==
    /\ free = Blocks
    /\ locks = 0 /\ unlocks = 0
    /\ held = {} /\ poolAborted = "none"

\* "__builtin_ffsl(mempool_free) - 1": the lowest bit that is set.
FirstFree(blk) == blk \in free /\ \A other \in free : blk <= other

Lock ==
    /\ poolAborted = "none" /\ locks < MaxLocks
    /\ \E blk \in Blocks :
         /\ FirstFree(blk)
         /\ free' = free \ {blk}
         /\ held' = held \cup {blk}
    /\ locks' = locks + 1
    /\ UNCHANGED <<unlocks, poolAborted>>

LockExhausted ==
    /\ poolAborted = "none" /\ free = {}
    /\ poolAborted' = "exhausted"
    /\ UNCHANGED <<free, locks, unlocks, held>>

\* The pointer tests of mempool_unlock and the block of a pointer; in the
\* faulty variant the end of the array is inside.
OutsideNot(ptr)   == ptr < 0 \/ ptr > PoolSize
Outside(ptr)      == ptr < 0 \/ ptr >= PoolSize
BlockOf(ptr)      == ptr \div BlockSize
IsFree(blk)       == blk \in free

Unlock(ptr) ==
    /\ ~Outside(ptr) /\ ~IsFree(BlockOf(ptr))
    /\ free' = free \cup {BlockOf(ptr)}
    /\ unlocks' = unlocks + 1
    /\ held' = held \ {BlockOf(ptr)}
    /\ UNCHANGED <<locks, poolAborted>>

UnlockRefused(ptr) ==
    /\ Outside(ptr) \/ IsFree(BlockOf(ptr))
    /\ poolAborted' = IF Outside(ptr) THEN "invalid" ELSE "double"
    /\ UNCHANGED <<free, locks, unlocks, held>>

\* A pointer into the pool, its neighbour on either side, owned or not.
Return == poolAborted = "none" /\ \E ptr \in Pointers : Unlock(ptr) \/ UnlockRefused(ptr)

PoolNext == Lock \/ LockExhausted \/ Return

PoolSpec == PoolInit /\ [][PoolNext]_poolVars

-----------------------------------------------------------------------------

\* The variables hold what they are meant to hold (mempool_free, a mask).
PoolTypeOK ==
    /\ free \subseteq Blocks /\ held \subseteq Blocks
    /\ locks \in Nat /\ unlocks \in Nat
    /\ poolAborted \in {"none", "exhausted", "invalid", "double"}

\* Every block is either free or held by exactly one caller: mempool_lock gives
\* out none twice, and what mempool_unlock takes back can be given out again.
Partitioned == free = Blocks \ held

\* The statistics agree with the mask: as many blocks are out as were locked and
\* not unlocked, whatever wrong pointers were passed to mempool_unlock.
Balanced == locks = unlocks + Cardinality(held)

=============================================================================
