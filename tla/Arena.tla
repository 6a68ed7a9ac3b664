------------------------------- MODULE Arena -------------------------------
(***************************************************************************)
(* core/arena.c: a region handed out from one end, with save points.       *)
(* Addresses are offsets from the region, which malloc aligns; where       *)
(* malloc fails they are offsets from NULL, as the size is set all the     *)
(* same and nothing looks at the region.                                   *)
(*                                                                         *)
(* A block belongs to its owner until arena_reset, arena_destroy or the    *)
(* restoring of an earlier point; a saved point is used only as long as    *)
(* the arena was not taken back behind it.  Sizes are unsigned integers,   *)
(* and a sum or product that does not fit one wraps around.                *)
(***************************************************************************)
EXTENDS Integers, FiniteSets

CONSTANTS
    Sizes,      \* sizes arena_create is called with
    Counts,     \* numbers of items arena_calloc is called with; 1 is arena_alloc
    Requests,   \* sizes of an item
    UintMax,    \* the greatest unsigned integer
    MaxBlocks   \* bound: blocks out at a time

ASSUME SizesAssumption == UintMax \in Nat /\ Counts \cup Requests \subseteq 0..UintMax

\* malloc does not give out the whole address space.
ASSUME MemoryAssumption == Sizes \subseteq Nat /\ \A z \in Sizes \cup {0} : z + 32 <= UintMax

ARENA_ALIGNMENT == 16

VARIABLES
    size, point,   \* g_arena_size, g_arena_point
    backed,        \* "g_arena != NULL"
    blocks,        \* blocks handed out and not taken back
    saved,         \* points returned by arena_save that may still be restored
    wrapped,       \* history: a request that was granted did not fit an unsigned integer
    aborted        \* the function that called abort, or "none"

vars == <<size, point, backed, blocks, saved, wrapped, aborted>>

Init ==
    /\ size = 0 /\ point = 0 /\ backed = FALSE /\ blocks = {} /\ saved = {}
    /\ wrapped = FALSE /\ aborted = "none"

Running == aborted = "none"

\* arena_create, whether malloc gives it the region or not, and arena_destroy, which
\* leaves an arena of size zero.
Create ==
    /\ Running
    /\ \/ size' \in Sizes /\ backed' \in BOOLEAN
       \/ size' = 0 /\ backed' = FALSE
    /\ point' = 0 /\ blocks' = {} /\ saved' = {} /\ wrapped' = FALSE
    /\ UNCHANGED aborted

Reset ==
    /\ Running
    /\ point' = 0 /\ blocks' = {} /\ saved' = {} /\ wrapped' = FALSE
    /\ UNCHANGED <<size, backed, aborted>>

Wrap(n) == n % (UintMax + 1)

\* Faulty variants: a size is not rounded; it is rounded down.
RoundNot(sz)  == sz
RoundDown(sz) == (sz \div ARENA_ALIGNMENT) * ARENA_ALIGNMENT

\* "(sz + (ARENA_ALIGNMENT - 1)) & -ARENA_ALIGNMENT".
Round(sz) == (Wrap(sz + (ARENA_ALIGNMENT - 1)) \div ARENA_ALIGNMENT) * ARENA_ALIGNMENT

\* "(g_arena_point + sz) > g_arena_size".
Overrun(sz) == Wrap(point + sz) > size

\* arena_calloc asks arena_alloc for "n * sz" and clears the block, if the program
\* survives that where there is no region; the caller uses as much as it asked for.
Alloc ==
    /\ Running /\ Cardinality(blocks) < MaxBlocks
    /\ \E n \in Counts, sz \in Requests :
          LET len == Wrap(n * sz)
          IN  IF Overrun(len)
              THEN aborted' = "arena_alloc" /\ UNCHANGED <<point, blocks, wrapped>>
              ELSE /\ blocks' = blocks \cup {[start |-> point, len |-> n * sz]}
                   /\ point' = Wrap(point + Round(len))
                   /\ wrapped' = (wrapped \/ point + n * sz > UintMax)
                   /\ UNCHANGED aborted
    /\ UNCHANGED <<size, backed, saved>>

Save ==
    /\ Running
    /\ saved' = saved \cup {point}
    /\ UNCHANGED <<size, point, backed, blocks, wrapped, aborted>>

\* What arena_restore takes for an "Invalid restore point".
Invalid(pt) == pt > size \/ pt % ARENA_ALIGNMENT # 0

Restore ==
    /\ Running
    /\ \E pt \in saved :
          IF Invalid(pt)
          THEN aborted' = "arena_restore" /\ UNCHANGED <<point, blocks, saved>>
          ELSE /\ point' = pt
               /\ blocks' = {b \in blocks : b.start < pt}
               /\ saved' = {p \in saved : p <= pt}
               /\ UNCHANGED aborted
    /\ UNCHANGED <<size, backed, wrapped>>

Next == Create \/ Reset \/ Alloc \/ Save \/ Restore

Spec == Init /\ [][Next]_vars

-----------------------------------------------------------------------------
(* Properties *)

TypeOK ==
    /\ size \in Nat /\ point \in 0..UintMax /\ {backed, wrapped} \subseteq BOOLEAN
    /\ blocks \subseteq [start : Nat, len : Nat] /\ saved \subseteq Nat
    /\ aborted \in {"none", "arena_alloc", "arena_restore"}

\* No two owners ever share a byte, across saves, restores and resets, unless a
\* request has wrapped around, which the test of the arena's end lets pass.
NoOverlap ==
    ~wrapped =>
        \A a, b \in blocks : a # b =>
            a.start + a.len <= b.start \/ b.start + b.len <= a.start

\* If malloc gave the arena its region, every block lies inside and starts on a
\* boundary, although the check is made before the size is rounded and the point may
\* end up past the arena's end.
InArena ==
    backed /\ ~wrapped =>
        \A b \in blocks : b.start + b.len <= size /\ b.start % ARENA_ALIGNMENT = 0

\* What arena_alloc and arena_calloc return can be used: nobody else's, and inside.
BlocksAreSound == NoOverlap /\ InArena

\* In an arena whose size is a multiple of the alignment, what arena_save returned
\* can be restored.
SavedIsValid ==
    ~wrapped /\ size % ARENA_ALIGNMENT = 0 => \A pt \in saved : ~Invalid(pt)
=============================================================================
