---------------------------- MODULE MemoryProofs ----------------------------
(***************************************************************************)
(* What is handed out and taken back, for every number and size of it:     *)
(* core/arena.c never hands a byte out twice, as long as no request wraps  *)
(* an unsigned integer; core/mempool.c gives no block out twice and loses  *)
(* none; util/net.c loses and shares no descriptor, and what it returns is *)
(* as asked.  The last needs to know how far a call has come: Progress     *)
(* ties the steps left to the socket made.                                 *)
(*                                                                         *)
(* util/buffer.c is a queue of bytes and what is packed into it can be     *)
(* unpacked, for buffers of any size and formats of any length.            *)
(***************************************************************************)
EXTENDS Arena, Mempool, Net, Buffer, WellFoundedInduction, SequenceTheorems, FiniteSetTheorems, TLAPS

-----------------------------------------------------------------------------
(* core/arena.c *)

LEMMA ZeroFits == 0 \in 0..UintMax /\ 32 <= UintMax
BY SizesAssumption, MemoryAssumption

\* Where nothing wraps, Wrap changes nothing.
LEMMA NoWrap == ASSUME NEW n \in 0..UintMax PROVE Wrap(n) = n
BY SizesAssumption DEF Wrap

LEMMA WrapType == ASSUME NEW n \in Nat PROVE Wrap(n) \in 0..UintMax
BY SizesAssumption DEF Wrap

\* The next multiple of the alignment: at least the size, less than one unit more.
Ceiling(sz) == ((sz + 15) \div 16) * 16

LEMMA CeilingFacts ==
    ASSUME NEW sz \in Nat
    PROVE  Ceiling(sz) \in Nat /\ Ceiling(sz) >= sz /\ Ceiling(sz) <= sz + 15
           /\ Ceiling(sz) % ARENA_ALIGNMENT = 0
BY DEF Ceiling, ARENA_ALIGNMENT

LEMMA RoundIsCeiling ==
    ASSUME NEW sz \in Nat, sz + 15 <= UintMax
    PROVE  Round(sz) = Ceiling(sz)
BY NoWrap, SizesAssumption DEF Round, ARENA_ALIGNMENT, Ceiling

LEMMA RoundType ==
    ASSUME NEW sz \in Nat
    PROVE  Round(sz) \in Nat
BY WrapType, SizesAssumption DEF Round, ARENA_ALIGNMENT

\* Between whole multiples, what fits unrounded fits rounded.
LEMMA CeilingFits ==
    ASSUME NEW a \in Nat, NEW z \in Nat, NEW sz \in Nat,
           a % ARENA_ALIGNMENT = 0, z % ARENA_ALIGNMENT = 0, a + sz <= z
    PROVE  a + Ceiling(sz) <= z
BY DEF Ceiling, ARENA_ALIGNMENT

\* Everything handed out lies below the point, which is itself a boundary, and
\* in an arena of whole multiples within the arena.
Tidy ==
    /\ point % ARENA_ALIGNMENT = 0
    /\ \A b \in blocks : b.start + b.len <= point /\ b.start % ARENA_ALIGNMENT = 0
    /\ \A b \in blocks : b.start + b.len <= size
    /\ \A a, b \in blocks : a # b => a.start + a.len <= b.start \/ b.start + b.len <= a.start
    /\ \A pt \in saved : pt % ARENA_ALIGNMENT = 0 /\ pt <= point
    /\ \A pt \in saved, b \in blocks : b.start < pt => b.start + b.len <= pt
    /\ size % ARENA_ALIGNMENT = 0 => point <= size

ArenaInv ==
    /\ TypeOK /\ size + 32 <= UintMax
    /\ ~wrapped => Tidy

\* A block of need bytes is handed out at the point.
LEMMA GrantedStep ==
    ASSUME ArenaInv, ~wrapped, NEW need \in Nat, point + need <= size,
           blocks' = blocks \cup {[start |-> point, len |-> need]},
           point' = point + Ceiling(need), UNCHANGED <<size, saved>>
    PROVE  Tidy'
<1> DEFINE new == [start |-> point, len |-> need]
<1>1. Tidy /\ TypeOK
  BY DEF ArenaInv
<1>2. new \in [start : Nat, len : Nat] /\ new.start = point /\ new.len = need
  BY <1>1 DEF TypeOK
<1>3. point \in Nat /\ size \in Nat
  BY <1>1, SizesAssumption DEF TypeOK
<1>4. Ceiling(need) \in Nat /\ Ceiling(need) >= need /\ Ceiling(need) % ARENA_ALIGNMENT = 0
  BY CeilingFacts
<1>5. point' % ARENA_ALIGNMENT = 0 /\ point + need <= point'
  BY <1>1, <1>3, <1>4 DEF Tidy, ARENA_ALIGNMENT
<1>6. /\ \A b \in blocks' : b.start + b.len <= point' /\ b.start % ARENA_ALIGNMENT = 0
      /\ \A b \in blocks' : b.start + b.len <= size'
  BY <1>1, <1>2, <1>3, <1>4, <1>5 DEF Tidy, TypeOK
<1>7. \A a, b \in blocks' : a # b => a.start + a.len <= b.start \/ b.start + b.len <= a.start
  BY <1>1, <1>2 DEF Tidy, TypeOK
<1>8. \A pt \in saved', b \in blocks' : b.start < pt => b.start + b.len <= pt
  BY <1>1, <1>2, <1>3 DEF Tidy, TypeOK
<1>9. \A pt \in saved' : pt % ARENA_ALIGNMENT = 0 /\ pt <= point'
  BY <1>1, <1>3, <1>4 DEF Tidy, TypeOK
<1>10. size' % ARENA_ALIGNMENT = 0 => point' <= size'
  BY <1>1, <1>3, CeilingFits DEF Tidy
<1>11. QED
  BY <1>5, <1>6, <1>7, <1>8, <1>9, <1>10 DEF Tidy

LEMMA AllocStep == ASSUME ArenaInv, Alloc PROVE ArenaInv'
<1> USE SizesAssumption
<1>1. PICK n \in Counts, sz \in Requests :
          LET len == Wrap(n * sz)
          IN  IF Overrun(len)
              THEN aborted' = "arena_alloc" /\ UNCHANGED <<point, blocks, wrapped>>
              ELSE /\ blocks' = blocks \cup {[start |-> point, len |-> n * sz]}
                   /\ point' = Wrap(point + Round(len))
                   /\ wrapped' = (wrapped \/ point + n * sz > UintMax)
                   /\ UNCHANGED aborted
  BY DEF Alloc
<1>2. n \in Nat /\ sz \in Nat /\ UNCHANGED <<size, backed, saved>>
  BY DEF Alloc
<1> DEFINE need == n * sz  len == Wrap(need)
<1>3. need \in Nat
  BY <1>2
<1> HIDE DEF need
<1>4. len \in 0..UintMax /\ Round(len) \in Nat
  BY <1>3, WrapType, RoundType
<1>5. CASE Overrun(len)
  BY <1>1, <1>2, <1>5 DEF ArenaInv, TypeOK, Tidy, need
<1>6. CASE ~Overrun(len)
  <2>1. /\ blocks' = blocks \cup {[start |-> point, len |-> need]}
        /\ point' = Wrap(point + Round(len))
        /\ wrapped' = (wrapped \/ point + need > UintMax) /\ UNCHANGED aborted
    BY <1>1, <1>6 DEF need
  <2>2. point \in 0..UintMax /\ size \in Nat /\ size + 32 <= UintMax
    BY DEF ArenaInv, TypeOK
  <2>3. TypeOK'
    <3>1. point' \in 0..UintMax
      BY <1>4, <2>1, <2>2, WrapType
    <3>2. [start |-> point, len |-> need] \in [start : Nat, len : Nat]
      BY <1>3, <2>2
    <3>3. wrapped' \in BOOLEAN
      BY <2>1 DEF ArenaInv, TypeOK
    <3>4. QED
      BY <1>2, <2>1, <3>1, <3>2, <3>3 DEF ArenaInv, TypeOK
  <2>4. ASSUME ~wrapped' PROVE Tidy'
    <3> DEFINE over == point + need > UintMax
    <3>0. ~wrapped /\ ~over
      BY <2>1, <2>4, Zenon
    <3>1. ~wrapped /\ point + need <= UintMax
      BY <1>3, <2>2, <3>0
    <3>2. len = need /\ Wrap(point + need) = point + need
      BY <1>3, <2>2, <3>1, NoWrap
    <3>3. point + need <= size
      BY <1>3, <1>6, <2>2, <3>2 DEF Overrun
    <3>4. Round(len) = Ceiling(need)
      BY <1>3, <2>2, <3>2, <3>3, RoundIsCeiling
    <3>5. point' = point + Ceiling(need)
      BY <1>3, <2>1, <2>2, <3>3, <3>4, CeilingFacts, NoWrap
    <3>6. QED
      BY <1>2, <1>3, <2>1, <3>1, <3>3, <3>5, GrantedStep
  <2>5. QED
    BY <1>2, <2>2, <2>3, <2>4 DEF ArenaInv
<1>7. QED
  BY <1>5, <1>6

LEMMA RestoreStep == ASSUME ArenaInv, Restore PROVE ArenaInv'
<1>1. PICK pt \in saved :
          IF Invalid(pt)
          THEN aborted' = "arena_restore" /\ UNCHANGED <<point, blocks, saved>>
          ELSE /\ point' = pt
               /\ blocks' = {b \in blocks : b.start < pt}
               /\ saved' = {p \in saved : p <= pt}
               /\ UNCHANGED aborted
  BY DEF Restore
<1>2. pt \in Nat /\ UNCHANGED <<size, backed, wrapped>>
  BY SizesAssumption DEF Restore, ArenaInv, TypeOK
<1>3. CASE Invalid(pt)
  BY <1>1, <1>2, <1>3 DEF ArenaInv, TypeOK, Tidy
<1>4. CASE ~Invalid(pt)
  <2>1. /\ point' = pt /\ blocks' = {b \in blocks : b.start < pt}
        /\ saved' = {p \in saved : p <= pt} /\ UNCHANGED aborted
    BY <1>1, <1>4
  <2>2. pt <= size /\ pt % ARENA_ALIGNMENT = 0
    BY <1>2, <1>4 DEF Invalid, ArenaInv, TypeOK
  <2>3. TypeOK'
    <3>1. wrapped' \in BOOLEAN
      BY <1>2 DEF ArenaInv, TypeOK
    <3>2. point' \in 0..UintMax
      BY <1>2, <2>1, <2>2, SizesAssumption DEF ArenaInv, TypeOK
    <3>3. QED
      BY <1>2, <2>1, <3>1, <3>2 DEF ArenaInv, TypeOK
  <2>4. ASSUME ~wrapped PROVE Tidy'
    <3>1. Tidy
      BY <2>4 DEF ArenaInv
    <3>2. /\ \A a, b \in blocks' : a # b => a.start + a.len <= b.start \/ b.start + b.len <= a.start
          /\ \A b \in blocks' : b.start + b.len <= point' /\ b.start % ARENA_ALIGNMENT = 0
      BY <2>1, <3>1 DEF Tidy
    <3>3. QED
      BY <1>2, <2>1, <2>2, <2>3, <3>1, <3>2 DEF Tidy, TypeOK
  <2>5. QED
    BY <1>2, <2>3, <2>4 DEF ArenaInv
<1>5. QED
  BY <1>3, <1>4

LEMMA ArenaInvIsInductive == ArenaInv /\ [Next]_vars => ArenaInv'
<1> SUFFICES ASSUME ArenaInv, [Next]_vars PROVE ArenaInv'
  OBVIOUS
<1>1. CASE Create
  <2>1. /\ UNCHANGED aborted
        /\ point' = 0 /\ blocks' = {} /\ saved' = {} /\ wrapped' = FALSE
    BY <1>1 DEF Create
  <2>2. size' \in Nat /\ size' + 32 <= UintMax /\ backed' \in BOOLEAN
    <3>1. backed' \in BOOLEAN /\ size' \in Sizes \cup {0}
      BY <1>1, Zenon DEF Create
    <3>2. QED
      BY <3>1, MemoryAssumption
  <2>3. TypeOK'
    BY <2>1, <2>2, ZeroFits DEF ArenaInv, TypeOK
  <2>4. point' % ARENA_ALIGNMENT = 0 /\ point' <= size'
    BY <2>1, <2>2 DEF ARENA_ALIGNMENT
  <2>5. QED
    BY <2>1, <2>2, <2>3, <2>4 DEF ArenaInv, Tidy
<1>2. CASE Reset
  <2>1. /\ UNCHANGED <<size, backed, aborted>>
        /\ point' = 0 /\ blocks' = {} /\ saved' = {} /\ wrapped' = FALSE
    BY <1>2 DEF Reset
  <2>2. TypeOK' /\ size' + 32 <= UintMax
    BY <2>1, ZeroFits DEF ArenaInv, TypeOK
  <2>3. Tidy'
    BY <2>1 DEF ArenaInv, TypeOK, Tidy, ARENA_ALIGNMENT
  <2>4. QED
    BY <2>2, <2>3 DEF ArenaInv
<1>3. CASE Alloc
  BY <1>3, AllocStep
<1>4. CASE Save
  BY <1>4, SizesAssumption DEF Save, ArenaInv, TypeOK, Tidy
<1>5. CASE Restore
  BY <1>5, RestoreStep
<1>6. CASE UNCHANGED vars
  BY <1>6 DEF vars, ArenaInv, TypeOK, Tidy
<1>7. QED
  BY <1>1, <1>2, <1>3, <1>4, <1>5, <1>6 DEF Next

LEMMA ArenaInvHolds == Spec => []ArenaInv
<1>1. Init => ArenaInv
  <2> SUFFICES ASSUME Init PROVE ArenaInv
    OBVIOUS
  <2>1. TypeOK
    BY ZeroFits DEF Init, TypeOK
  <2>2. size + 32 <= UintMax
    BY ZeroFits DEF Init
  <2>3. Tidy
    BY DEF Init, Tidy, ARENA_ALIGNMENT
  <2>4. QED
    BY <2>1, <2>2, <2>3 DEF ArenaInv
<1>2. QED
  BY <1>1, ArenaInvIsInductive, PTL DEF Spec

\* No byte of the arena ever has two owners, whatever the order of allocations,
\* saves, restores and resets, and every block lies within the region that malloc gave,
\* although the size is compared before it is rounded up.
THEOREM BlocksAreSafe == Spec => []BlocksAreSound
<1>1. ArenaInv => BlocksAreSound
  BY DEF ArenaInv, Tidy, BlocksAreSound, NoOverlap, InArena
<1>2. QED
  BY <1>1, ArenaInvHolds, PTL

\* In an arena of whole multiples arena_restore accepts every point that
\* arena_save returned.
THEOREM SavesAreValid == Spec => []SavedIsValid
<1>1. ArenaInv => SavedIsValid
  BY SizesAssumption DEF ArenaInv, Tidy, TypeOK, SavedIsValid, Invalid
<1>2. QED
  BY <1>1, ArenaInvHolds, PTL

-----------------------------------------------------------------------------
(* core/mempool.c *)

\* A pointer that passes the test points into one of the blocks.
LEMMA BlockOfPointer ==
    ASSUME NEW ptr \in Pointers, ~Outside(ptr)
    PROVE  BlockOf(ptr) \in Blocks
<1> USE PoolAssumption
<1>1. ptr \in Nat /\ ptr < BlockNum * BlockSize
  BY DEF Outside, Pointers, PoolSize
<1>2. ptr \div BlockSize \in Nat /\ (ptr \div BlockSize) * BlockSize <= ptr
  BY <1>1
<1>3. ptr \div BlockSize < BlockNum
  BY <1>1, <1>2
<1> QED
  BY <1>2, <1>3 DEF BlockOf, Blocks

\* The counts need the set of the blocks held to be finite.
PoolInv == PoolTypeOK /\ Partitioned /\ Balanced

LEMMA HeldIsFinite == ASSUME PoolTypeOK PROVE IsFiniteSet(held)
<1>1. IsFiniteSet(Blocks)
  BY PoolAssumption, FS_Interval DEF Blocks
<1> QED
  BY <1>1, FS_Subset DEF PoolTypeOK

LEMMA LockStep == ASSUME PoolInv, Lock PROVE PoolInv'
<1>1. PICK blk \in Blocks : blk \in free /\ free' = free \ {blk} /\ held' = held \cup {blk}
  BY DEF Lock, FirstFree
<1>2. locks' = locks + 1 /\ UNCHANGED <<unlocks, poolAborted>>
  BY DEF Lock
<1>3. blk \notin held
  BY <1>1 DEF PoolInv, Partitioned
<1>4. Cardinality(held') = Cardinality(held) + 1
  BY <1>1, <1>3, HeldIsFinite, FS_AddElement DEF PoolInv
<1>5. Cardinality(held) \in Nat
  BY HeldIsFinite, FS_CardinalityType DEF PoolInv
<1>6. PoolTypeOK'
  BY <1>1, <1>2 DEF PoolInv, PoolTypeOK
<1>7. Partitioned'
  BY <1>1, <1>3 DEF PoolInv, Partitioned
<1>8. Balanced'
  BY <1>2, <1>4, <1>5 DEF PoolInv, PoolTypeOK, Balanced
<1> QED
  BY <1>6, <1>7, <1>8 DEF PoolInv

LEMMA UnlockStep == ASSUME PoolInv, NEW ptr \in Pointers, Unlock(ptr) PROVE PoolInv'
<1> DEFINE blk == BlockOf(ptr)
<1>1. blk \in Blocks /\ blk \notin free
  BY BlockOfPointer DEF Unlock, IsFree
<1>2. /\ free' = free \cup {blk} /\ held' = held \ {blk}
      /\ unlocks' = unlocks + 1 /\ UNCHANGED <<locks, poolAborted>>
  BY DEF Unlock
<1>3. blk \in held
  BY <1>1 DEF PoolInv, Partitioned
<1>4. Cardinality(held') = Cardinality(held) - 1
  BY <1>2, <1>3, HeldIsFinite, FS_RemoveElement DEF PoolInv
<1>5. Cardinality(held) \in Nat
  BY HeldIsFinite, FS_CardinalityType DEF PoolInv
<1>6. PoolTypeOK'
  BY <1>1, <1>2 DEF PoolInv, PoolTypeOK
<1>7. Partitioned'
  BY <1>1, <1>2, <1>3 DEF PoolInv, Partitioned
<1>8. Balanced'
  BY <1>2, <1>4, <1>5 DEF PoolInv, PoolTypeOK, Balanced
<1> QED
  BY <1>6, <1>7, <1>8 DEF PoolInv

LEMMA PoolInvInit == PoolInit => PoolInv
<1> SUFFICES ASSUME PoolInit PROVE PoolInv
  OBVIOUS
<1>1. Cardinality(held) = 0
  BY FS_EmptySet DEF PoolInit
<1> QED
  BY <1>1 DEF PoolInit, PoolInv, PoolTypeOK, Partitioned, Balanced

LEMMA PoolInvNext == PoolInv /\ [PoolNext]_poolVars => PoolInv'
<1> SUFFICES ASSUME PoolInv, [PoolNext]_poolVars PROVE PoolInv'
  OBVIOUS
<1>1. CASE Lock
  BY <1>1, LockStep
<1>2. CASE LockExhausted
  BY <1>2 DEF LockExhausted, PoolInv, PoolTypeOK, Partitioned, Balanced
<1>3. ASSUME NEW ptr \in Pointers, Unlock(ptr) PROVE PoolInv'
  BY <1>3, UnlockStep
<1>4. ASSUME NEW ptr \in Pointers, UnlockRefused(ptr) PROVE PoolInv'
  BY <1>4 DEF UnlockRefused, PoolInv, PoolTypeOK, Partitioned, Balanced
<1>5. CASE UNCHANGED poolVars
  BY <1>5 DEF poolVars, PoolInv, PoolTypeOK, Partitioned, Balanced
<1> QED
  BY <1>1, <1>2, <1>3, <1>4, <1>5 DEF PoolNext, Return

\* Every block is free or held by one caller, through every run of mempool_lock
\* and of mempool_unlock, pointers that are refused included.
THEOREM PoolIsPartitioned == PoolSpec => []Partitioned
<1>1. PoolInv => Partitioned
  BY DEF PoolInv
<1> QED
  BY <1>1, PoolInvInit, PoolInvNext, PTL DEF PoolSpec

\* The statistics count the blocks that are out.
THEOREM CountsBalance == PoolSpec => []Balanced
<1>1. PoolInv => Balanced
  BY DEF PoolInv
<1> QED
  BY <1>1, PoolInvInit, PoolInvNext, PTL DEF PoolSpec

-----------------------------------------------------------------------------
(* util/net.c *)

Steps == {"host", "local", "socket", "bind", "listen", "connect", "flags"}
Kinds == {"bind", "listen", "connect", "flags"}

CallType == [todo : SUBSET Steps, sock : Descriptors \cup {None}, inet : BOOLEAN,
             void : SUBSET Kinds, asked : SUBSET Kinds]
SockType == [open : BOOLEAN, asked : SUBSET Kinds, done : SUBSET Kinds]

NetTypeOK ==
    /\ calls \in [Callers -> CallType]
    /\ socks \in [Descriptors -> SockType]
    /\ owned \in [Callers -> SUBSET Descriptors]

\* Without a socket a call still has to make one, and then all that was asked; with
\* one, what it owes the socket is done or left to do, with an address found.
Progress(call) ==
    /\ call.sock = None /\ call.todo # {} => "socket" \in call.todo /\ call.asked \subseteq call.todo
    /\ call.sock # None =>
         /\ call.todo \subseteq Kinds
         /\ socks[call.sock].asked \cap call.void = {}
         /\ socks[call.sock].asked \ {"flags"} \subseteq socks[call.sock].done \cup call.todo

NetInv ==
    /\ NetTypeOK
    /\ \A t \in Callers : Progress(calls[t])
    /\ SocketsAreOwned
    /\ SocketIsAsAsked

-----------------------------------------------------------------------------
\* What comes before the socket in a call that has none: no bind, listen, connect.
LEMMA FirstThings ==
    ASSUME NetTypeOK, NEW t \in Callers, Progress(calls[t]), NEW step \in Kinds, At(t, step)
    PROVE  calls[t].sock \in Descriptors
  <1>1. calls[t] \in CallType
    BY DEF NetTypeOK
  <1>2. ~(Rank[step] <= Rank["socket"])
    BY DEF Rank, Kinds
  <1>3. "socket" \notin calls[t].todo
    BY <1>2 DEF At
  <1> QED BY <1>1, <1>3 DEF Progress, At, CallType

\* The names and the socket come first: a call at one of these steps has no socket.
LEMMA NoSocketYet ==
    ASSUME NetTypeOK, NEW t \in Callers, Progress(calls[t]),
           NEW step \in {"host", "local", "socket"}, At(t, step)
    PROVE  calls[t].sock = None
  BY DEF Progress, At, Kinds

\* A call that ends or goes on without touching a socket keeps the invariant.
LEMMA CallsAlone ==
    ASSUME NetInv, NEW t \in Callers, NEW call \in CallType,
           calls[t].sock = call.sock, Progress(call),
           calls' = [calls EXCEPT ![t] = call], UNCHANGED <<socks, owned>>
    PROVE  NetInv'
  <1>1. NetTypeOK'
    BY DEF NetInv, NetTypeOK
  <1>2. \A u \in Callers : calls'[u].sock = calls[u].sock
    BY DEF NetInv, NetTypeOK
  <1>3. \A u \in Callers : Progress(calls[u])'
    BY DEF NetInv, NetTypeOK, Progress
  <1>4. SocketsAreOwned' /\ SocketIsAsAsked'
    BY <1>2 DEF NetInv, NetTypeOK, SocketsAreOwned, SocketIsAsAsked
  <1> QED BY <1>1, <1>3, <1>4 DEF NetInv

LEMMA OpenKeeps ==
    ASSUME NetAssumption, NetInv, NEW t \in Callers, NEW asked \in SocketRequests, NEW inet \in BOOLEAN,
           NEW names \in SUBSET {"host", "local"}, Open(t, asked, inet, names)
    PROVE  NetInv'
  <1> DEFINE call == [todo |-> asked \cup names \cup {"socket"}, sock |-> None, inet |-> inet, void |-> {}, asked |-> asked]
  <1>1. asked \in SUBSET Kinds
    BY DEF NetAssumption, Kinds
  <1>2. call \in CallType
    BY <1>1 DEF CallType, Steps, Kinds
  <1>3. Progress(call)
    BY DEF Progress
  <1>4. calls[t].sock = call.sock /\ calls' = [calls EXCEPT ![t] = call] /\ UNCHANGED <<socks, owned>>
    BY DEF Open, Idle
  <1> HIDE DEF call
  <1> QED BY <1>2, <1>3, <1>4, CallsAlone

LEMMA EndKeeps ==
    ASSUME NetInv, NEW t \in Callers, calls[t].sock = None,
           calls' = [calls EXCEPT ![t] = NoCall], UNCHANGED <<socks, owned>>
    PROVE  NetInv'
  <1>1. NoCall \in CallType /\ Progress(NoCall) /\ NoCall.sock = None
    BY DEF NoCall, CallType, Progress
  <1> QED BY <1>1, CallsAlone

LEMMA ResolveKeeps ==
    ASSUME NetInv, NEW t \in Callers, Resolve(t)
    PROVE  NetInv'
  <1>1. PICK name \in {"host", "local"} :
          /\ At(t, name)
          /\ \/ calls' = [calls EXCEPT ![t].todo = Rest(t, name)]
             \/ calls' = [calls EXCEPT ![t].todo = Rest(t, name), ![t].void = @ \cup {Address[name]}]
             \/ calls' = [calls EXCEPT ![t] = NoCall]
          /\ UNCHANGED <<socks, owned>>
    BY DEF Resolve
  <1>2. calls[t] \in CallType /\ Progress(calls[t]) /\ calls[t].sock = None
    BY <1>1, NoSocketYet DEF NetInv, NetTypeOK
  <1>3. CASE calls' = [calls EXCEPT ![t] = NoCall]
    BY <1>1, <1>2, <1>3, EndKeeps
  <1>4. ASSUME NEW void \in SUBSET Kinds,
               calls' = [calls EXCEPT ![t] = [calls[t] EXCEPT !.todo = Rest(t, name), !.void = void]]
        PROVE  NetInv'
    <2> DEFINE call == [calls[t] EXCEPT !.todo = Rest(t, name), !.void = void]
    <2>1. call \in CallType
      BY <1>2, <1>4 DEF CallType, Rest
    <2>2. call.todo = calls[t].todo \ {name} /\ call.sock = None /\ call.asked = calls[t].asked
      BY <1>2 DEF CallType, Rest
    <2>3. Progress(call)
      BY <1>1, <1>2, <2>2 DEF Progress, At, CallType, Kinds
    <2> HIDE DEF call
    <2> QED BY <1>1, <1>2, <1>4, <2>1, <2>2, <2>3, CallsAlone DEF call
  <1>5. CASE calls' = [calls EXCEPT ![t].todo = Rest(t, name)]
    <2>1. calls' = [calls EXCEPT ![t] = [calls[t] EXCEPT !.todo = Rest(t, name), !.void = calls[t].void]]
      BY <1>2, <1>5 DEF CallType, NetInv, NetTypeOK
    <2>2. calls[t].void \in SUBSET Kinds
      BY <1>2 DEF CallType
    <2> QED BY <1>4, <2>1, <2>2
  <1>6. CASE calls' = [calls EXCEPT ![t].todo = Rest(t, name), ![t].void = @ \cup {Address[name]}]
    <2> DEFINE void == calls[t].void \cup {Address[name]}
    <2>1. calls' = [calls EXCEPT ![t] = [calls[t] EXCEPT !.todo = Rest(t, name), !.void = void]]
      BY <1>2, <1>6 DEF CallType, NetInv, NetTypeOK
    <2>2. void \in SUBSET Kinds
      BY <1>2 DEF CallType, Address, Kinds
    <2> HIDE DEF void
    <2> QED BY <1>4, <2>1, <2>2
  <1> QED BY <1>1, <1>3, <1>5, <1>6

LEMMA NoSocketKeeps ==
    ASSUME NetInv, NEW t \in Callers, NoSocket(t)
    PROVE  NetInv'
  BY NoSocketYet, EndKeeps DEF NoSocket, NetInv

LEMMA MakeSocketKeeps ==
    ASSUME NetAssumption, NetInv, NEW t \in Callers, MakeSocket(t)
    PROVE  NetInv'
  <1>1. PICK d \in Descriptors :
          /\ ~socks[d].open
          /\ socks' = [socks EXCEPT ![d] = [open |-> TRUE, asked |-> calls[t].asked \ calls[t].void, done |-> {}]]
          /\ calls' = [calls EXCEPT ![t].todo = Rest(t, "socket"), ![t].sock = d]
    BY DEF MakeSocket
  <1>2. calls[t] \in CallType /\ calls[t].sock = None /\ Progress(calls[t])
    BY NoSocketYet DEF MakeSocket, NetInv, NetTypeOK
  <1>3. d # None /\ \A u \in Callers : calls[u].sock # d /\ d \notin owned[u]
    BY <1>1 DEF NetAssumption, NetInv, SocketsAreOwned
  <1>4. NetTypeOK'
    BY <1>1, <1>2 DEF MakeSocket, NetInv, NetTypeOK, CallType, SockType, Rest
  <1>5. calls'[t].todo = calls[t].todo \ {"socket"} /\ calls'[t].sock = d /\ calls'[t].void = calls[t].void
    BY <1>1, <1>2 DEF NetInv, NetTypeOK, CallType, Rest
  <1>6. calls[t].todo \ {"socket"} \subseteq Kinds
    BY <1>2 DEF MakeSocket, At, Rank, CallType, Steps, Kinds
  <1>7. socks'[d] = [open |-> TRUE, asked |-> calls[t].asked \ calls[t].void, done |-> {}]
    BY <1>1 DEF NetInv, NetTypeOK
  <1>8. calls[t].asked \subseteq calls[t].todo /\ calls[t].asked \subseteq Kinds
    BY <1>2 DEF MakeSocket, At, Progress, CallType
  <1>9. Progress(calls[t])'
    BY <1>2, <1>3, <1>5, <1>6, <1>7, <1>8 DEF Progress, Kinds
  <1>10. ASSUME NEW u \in Callers, u # t PROVE calls'[u] = calls[u] /\ Progress(calls[u])'
    BY <1>1, <1>3, <1>10 DEF NetInv, NetTypeOK, Progress, CallType
  <1>11. SocketsAreOwned'
    BY <1>1, <1>2, <1>3, <1>5, <1>7, <1>10 DEF NetInv, NetTypeOK, SocketsAreOwned, MakeSocket
  <1>12. SocketIsAsAsked'
    BY <1>1, <1>3 DEF NetInv, NetTypeOK, SocketIsAsAsked, MakeSocket
  <1> QED BY <1>4, <1>9, <1>10, <1>11, <1>12 DEF NetInv

LEMMA ReturnKeeps ==
    ASSUME NetAssumption, NetInv, NEW t \in Callers, ReturnSocket(t)
    PROVE  NetInv'
  <1>1. calls[t] \in CallType /\ Progress(calls[t]) /\ calls[t].sock \in Descriptors
    BY DEF ReturnSocket, NetInv, NetTypeOK, CallType
  <1>2. NoCall \in CallType /\ NoCall.sock = None /\ NoCall.todo = {}
    BY DEF NoCall, CallType
  <1>3. NetTypeOK'
    BY <1>1, <1>2 DEF ReturnSocket, NetInv, NetTypeOK
  <1>4. \A u \in Callers : Progress(calls[u])'
    BY <1>2 DEF ReturnSocket, NetInv, NetTypeOK, Progress
  <1>5. socks[calls[t].sock].asked \ {"flags"} \subseteq socks[calls[t].sock].done
    BY <1>1 DEF ReturnSocket, Progress, NetAssumption
  <1>6. SocketIsAsAsked'
    BY <1>5 DEF ReturnSocket, NetInv, NetTypeOK, SocketIsAsAsked
  <1>7. SocketsAreOwned'
    BY <1>1, <1>2 DEF ReturnSocket, NetInv, NetTypeOK, SocketsAreOwned, NetAssumption
  <1> QED BY <1>3, <1>4, <1>6, <1>7 DEF NetInv

LEMMA CloseKeeps ==
    ASSUME NetAssumption, NetInv, NEW t \in Callers, Close(t)
    PROVE  NetInv'
  <1>1. PICK d \in owned[t] :
          owned' = [owned EXCEPT ![t] = @ \ {d}] /\ socks' = [socks EXCEPT ![d] = Closed]
    BY DEF Close
  <1>2. d \in Descriptors /\ Closed \in SockType /\ Closed.open = FALSE
    BY DEF NetInv, NetTypeOK, Closed, SockType
  <1>3. \A u \in Callers : calls[u].sock # d /\ (u # t => d \notin owned[u])
    BY <1>2 DEF NetInv, SocketsAreOwned
  <1>4. NetTypeOK'
    BY <1>1, <1>2 DEF Close, NetInv, NetTypeOK
  <1>5. \A u \in Callers : Progress(calls[u])'
    BY <1>1, <1>3 DEF Close, NetInv, NetTypeOK, Progress, CallType
  <1>6. SocketIsAsAsked'
    BY <1>1, <1>3 DEF NetInv, NetTypeOK, SocketIsAsAsked
  <1>7. SocketsAreOwned'
    BY <1>1, <1>2, <1>3 DEF Close, NetInv, NetTypeOK, SocketsAreOwned
  <1> QED BY <1>4, <1>5, <1>6, <1>7 DEF NetInv

\* A step of a call that has its socket: only this socket changes.
LEMMA AcceptedKeeps ==
    ASSUME NetAssumption, NetInv, NEW t \in Callers, NEW step \in Kinds, Accepted(t, step)
    PROVE  NetInv'
  <1> DEFINE d == calls[t].sock
  <1>1. d \in Descriptors /\ d # None /\ calls[t] \in CallType /\ Progress(calls[t]) /\ At(t, step)
    BY FirstThings DEF Accepted, NetInv, NetTypeOK, NetAssumption
  <1>2. socks[d] \in SockType /\ socks' = [socks EXCEPT ![d].done = @ \cup ({step} \ calls[t].void)]
    BY <1>1 DEF Accepted, NetInv, NetTypeOK
  <1>3. /\ socks'[d].open = socks[d].open /\ socks'[d].asked = socks[d].asked
        /\ socks'[d].done = socks[d].done \cup ({step} \ calls[t].void)
    BY <1>1, <1>2 DEF SockType, NetInv, NetTypeOK
  <1>4. calls'[t].todo = calls[t].todo \ {step} /\ calls'[t].sock = d /\ calls'[t].void = calls[t].void
    BY <1>1 DEF Accepted, Rest, CallType, NetInv, NetTypeOK
  <1>5. NetTypeOK'
    <2>1. [socks[d] EXCEPT !.done = @ \cup ({step} \ calls[t].void)] \in SockType
      BY <1>2 DEF SockType
    <2>2. [calls[t] EXCEPT !.todo = Rest(t, step)] \in CallType
      BY <1>1 DEF CallType, Rest
    <2> QED BY <1>1, <1>2, <2>1, <2>2 DEF Accepted, NetInv, NetTypeOK
  <1>6. \A u \in Callers : u # t => calls'[u] = calls[u] /\ calls[u].sock # d
    BY <1>1 DEF Accepted, NetInv, NetTypeOK, SocketsAreOwned
  <1>7. \A e \in Descriptors : e # d => socks'[e] = socks[e]
    BY <1>1, <1>2 DEF NetInv, NetTypeOK
  <1>8. Progress(calls[t])'
    BY <1>1, <1>3, <1>4 DEF Progress
  <1>9. ASSUME NEW u \in Callers, u # t PROVE Progress(calls[u])'
    <2>1. calls[u].sock = None \/ socks'[calls[u].sock] = socks[calls[u].sock]
      BY <1>6, <1>7, <1>9 DEF NetInv, NetTypeOK, CallType
    <2> QED BY <1>6, <1>9, <2>1 DEF Progress, NetInv
  <1>10. SocketIsAsAsked' /\ SocketsAreOwned'
    BY <1>1, <1>3, <1>4, <1>6, <1>7 DEF Accepted, NetInv, NetTypeOK, SocketIsAsAsked, SocketsAreOwned
  <1> QED BY <1>5, <1>8, <1>9, <1>10 DEF NetInv

LEMMA RefusedKeeps ==
    ASSUME NetAssumption, NetInv, NEW t \in Callers, NEW step \in Kinds, Refused(t, step)
    PROVE  NetInv'
  <1> DEFINE d == calls[t].sock
  <1>1. d \in Descriptors /\ d # None /\ calls[t] \in CallType /\ Progress(calls[t]) /\ At(t, step)
    BY FirstThings DEF Refused, NetInv, NetTypeOK, NetAssumption
  <1>2. CASE step \notin Fatal
    <2> DEFINE call == [calls[t] EXCEPT !.todo = Rest(t, step)]
    <2>1. call \in CallType /\ call.sock = d /\ call.todo = calls[t].todo \ {step} /\ call.void = calls[t].void
      BY <1>1 DEF CallType, Rest
    <2>2. step = "flags"
      BY <1>2 DEF Fatal, Kinds
    <2>3. Progress(call)
      BY <1>1, <2>1, <2>2 DEF Progress
    <2>4. calls' = [calls EXCEPT ![t] = call] /\ UNCHANGED <<socks, owned>>
      BY <1>1, <1>2 DEF Refused, NetInv, NetTypeOK
    <2> HIDE DEF call
    <2> QED BY <2>1, <2>3, <2>4, CallsAlone
  <1>3. CASE step \in Fatal
    <2>1. calls' = [calls EXCEPT ![t] = NoCall] /\ socks' = [socks EXCEPT ![d] = Closed] /\ owned' = owned
      BY <1>3 DEF Refused, CloseSocket
    <2>2. /\ NoCall \in CallType /\ NoCall.sock = None /\ NoCall.todo = {}
          /\ Closed \in SockType /\ Closed.open = FALSE
      BY DEF NoCall, CallType, Closed, SockType
    <2>3. \A u \in Callers : (u # t => calls[u].sock # d) /\ d \notin owned[u]
      BY <1>1 DEF NetInv, NetTypeOK, SocketsAreOwned
    <2>4. NetTypeOK'
      BY <2>1, <2>2 DEF NetInv, NetTypeOK
    <2>5. \A u \in Callers : Progress(calls[u])'
      BY <1>1, <2>1, <2>2, <2>3 DEF NetInv, NetTypeOK, Progress, CallType
    <2>6. SocketIsAsAsked'
      BY <2>1, <2>3 DEF NetInv, NetTypeOK, SocketIsAsAsked
    <2>7. SocketsAreOwned'
      BY <1>1, <2>1, <2>2, <2>3 DEF NetInv, NetTypeOK, SocketsAreOwned
    <2> QED BY <2>4, <2>5, <2>6, <2>7 DEF NetInv
  <1> QED BY <1>2, <1>3

-----------------------------------------------------------------------------
LEMMA NetInvariant == NetSpec => []NetInv
  <1>1. NetInit => NetInv
    BY NetAssumption DEF NetInit, NetInv, NetTypeOK, NoCall, Closed, CallType, SockType, Progress,
                         SocketsAreOwned, SocketIsAsAsked
  <1>2. NetInv /\ [NetNext]_netVars => NetInv'
    <2> SUFFICES ASSUME NetInv, [NetNext]_netVars PROVE NetInv'
      OBVIOUS
    <2>1. CASE UNCHANGED netVars
      BY <2>1 DEF netVars, NetInv, NetTypeOK, Progress, SocketsAreOwned, SocketIsAsAsked
    <2>2. ASSUME NEW t \in Callers, NEW asked \in SocketRequests, NEW inet \in BOOLEAN,
                 SocketOpenAddr(t, asked, inet) \/ SocketOpenHost(t, asked, inet)
          PROVE  NetInv'
      BY <2>2, OpenKeeps, NetAssumption DEF SocketOpenAddr, SocketOpenHost
    <2>3. ASSUME NEW t \in Callers, Resolve(t) PROVE NetInv'
      BY <2>3, ResolveKeeps
    <2>4. ASSUME NEW t \in Callers, MakeSocket(t) \/ NoSocket(t) PROVE NetInv'
      BY <2>4, MakeSocketKeeps, NoSocketKeeps, NetAssumption
    <2>5. ASSUME NEW t \in Callers, ReturnSocket(t) \/ Close(t) PROVE NetInv'
      BY <2>5, ReturnKeeps, CloseKeeps, NetAssumption
    <2>6. ASSUME NEW t \in Callers, NEW step \in Kinds, Accepted(t, step) \/ Refused(t, step) PROVE NetInv'
      BY <2>6, AcceptedKeeps, RefusedKeeps, NetAssumption
    <2> QED BY <2>1, <2>2, <2>3, <2>4, <2>5, <2>6 DEF NetNext, Kinds
  <1> QED BY <1>1, <1>2, PTL DEF NetSpec

\* socket_open_addr never loses a descriptor, nor closes one that is somebody's, at
\* whatever step it fails.
THEOREM SocketsHaveOwners == NetSpec => []SocketsAreOwned
  BY NetInvariant, PTL DEF NetInv

\* A socket that is returned is bound, listening and connected as it was asked to be.
THEOREM SocketsAreAsAsked == NetSpec => []SocketIsAsAsked
  BY NetInvariant, PTL DEF NetInv

-----------------------------------------------------------------------------
(* util/buffer.c *)

Sound(b) == b \in Buffers /\ b.pos <= b.len

LEMMA SoundIs ==
    ASSUME NEW b, Sound(b)
    PROVE  /\ b = [data |-> b.data, pos |-> b.pos, len |-> b.len]
           /\ b.data \in [1..Cap -> Byte] /\ b.pos \in 0..Cap /\ b.len \in 0..Cap /\ b.pos <= b.len
           /\ b.pos \in Nat /\ b.len \in Nat /\ Cap \in Nat /\ b.len <= Cap
           /\ Size(b) = b.len - b.pos /\ Size(b) \in Nat /\ Free(b) = Cap - b.len /\ Free(b) \in Nat
<1>1. b \in Buffers
  BY DEF Sound
<1>2. /\ b = [data |-> b.data, pos |-> b.pos, len |-> b.len]
      /\ b.data \in [1..Cap -> Byte] /\ b.pos \in 0..Cap /\ b.len \in 0..Cap
  BY <1>1 DEF Buffers
<1> QED
  BY <1>2, CapAssumption DEF Sound, Size, Free

LEMMA LesserIs ==
    ASSUME NEW m \in Nat, NEW n \in Nat
    PROVE  Lesser(m, n) \in Nat /\ Lesser(m, n) <= m /\ Lesser(m, n) <= n /\ (m <= n => Lesser(m, n) = m)
BY DEF Lesser

\* The bytes between two places of the array.
LEMMA SliceIs ==
    ASSUME NEW d \in [1..Cap -> Byte], NEW m \in 0..Cap, NEW n \in 0..Cap, m <= n
    PROVE  /\ SubSeq(d, m + 1, n) \in Seq(Byte) /\ Len(SubSeq(d, m + 1, n)) = n - m
           /\ \A x \in 1..n - m : SubSeq(d, m + 1, n)[x] = d[m + x]
<1>1. \A x \in m + 1..n : d[x] \in Byte
  BY CapAssumption
<1>2. m + 1 \in Int /\ n \in Int /\ n - (m + 1) + 1 = n - m /\ (m + 1 <= n \/ n - m = 0)
  BY CapAssumption
<1>3. /\ SubSeq(d, m + 1, n) \in Seq(Byte)
      /\ Len(SubSeq(d, m + 1, n)) = IF m + 1 <= n THEN n - (m + 1) + 1 ELSE 0
      /\ \A x \in 1..n - (m + 1) + 1 : SubSeq(d, m + 1, n)[x] = d[(m + 1) + x - 1]
  BY <1>1, <1>2, SubSeqProperties
<1>4. ASSUME NEW x \in 1..n - m PROVE SubSeq(d, m + 1, n)[x] = d[m + x]
  <2>1. (m + 1) + x - 1 = m + x
    BY CapAssumption
  <2> QED
    BY <1>2, <1>3, <2>1
<1> QED
  BY <1>2, <1>3, <1>4

-----------------------------------------------------------------------------
(* What the operations do to a buffer b that becomes c *)

\* Bytes are added at the end.
Grown(b, c) ==
    /\ Sound(c) /\ c.pos = b.pos /\ b.len <= c.len
    /\ \A x \in 1..b.len : c.data[x] = b.data[x]

\* The read cursor is moved.
Moved(b, c) == Sound(c) /\ c.data = b.data /\ c.len = b.len

\* The first n bytes are given up.
Retreated(b, c, n) ==
    /\ Sound(c) /\ n \in 0..b.len /\ c.len = b.len - n /\ c.pos = Cursor(b.pos, n)
    /\ \A x \in 1..c.len : c.data[x] = b.data[x + n]

LEMMA WrittenGrows ==
    ASSUME NEW b, Sound(b), NEW s \in Seq(Byte)
    PROVE  /\ Grown(b, Written(b, s))
           /\ Len(s) <= Free(b) => /\ Written(b, s).len = b.len + Len(s)
                                   /\ \A x \in 1..Len(s) : Written(b, s).data[b.len + x] = s[x]
<1> DEFINE n == Lesser(Len(s), Free(b))
           d == [i \in 1..Cap |-> IF i > b.len /\ i <= b.len + n THEN s[i - b.len] ELSE b.data[i]]
           c == [data |-> d, pos |-> b.pos, len |-> b.len + n]
<1>1. /\ b = [data |-> b.data, pos |-> b.pos, len |-> b.len]
      /\ b.data \in [1..Cap -> Byte] /\ b.pos \in 0..Cap /\ b.len \in 0..Cap /\ b.pos <= b.len
      /\ Free(b) = Cap - b.len /\ Free(b) \in Nat /\ Cap \in Nat
  BY SoundIs
<1>2. Len(s) \in Nat /\ n \in Nat /\ n <= Len(s) /\ n <= Free(b) /\ (Len(s) <= Free(b) => n = Len(s))
  <2>1. Len(s) \in Nat
    OBVIOUS
  <2> QED
    BY <1>1, <2>1, LesserIs
<1>3. Written(b, s) = c
  BY DEF Written
<1> HIDE DEF n
<1>4. \A i \in 1..Cap : d[i] \in Byte
  <2>1. \A x \in 1..Len(s) : s[x] \in Byte
    OBVIOUS
  <2>2. ASSUME NEW i \in 1..Cap, i > b.len, i <= b.len + n PROVE i - b.len \in 1..Len(s)
    BY <1>1, <1>2, <2>2
  <2> QED
    BY <1>1, <2>1, <2>2
<1>5. d \in [1..Cap -> Byte]
  BY <1>4
<1>6. ASSUME NEW x \in 1..b.len PROVE d[x] = b.data[x]
  BY <1>1
<1>10. \A i \in 1..Cap : i > b.len /\ i <= b.len + n => d[i] = s[i - b.len]
  OBVIOUS
<1> HIDE DEF d
<1>7. ASSUME Len(s) <= Free(b), NEW x \in 1..Len(s) PROVE d[b.len + x] = s[x]
  <2>1. b.len + x \in 1..Cap /\ b.len + x > b.len /\ b.len + x <= b.len + n /\ b.len + x - b.len = x
    BY <1>1, <1>2, <1>7
  <2> DEFINE i == b.len + x
  <2>2. i \in 1..Cap /\ i > b.len /\ i <= b.len + n /\ i - b.len = x
    BY <1>1, <2>1
  <2> HIDE DEF i
  <2>3. d[i] = s[i - b.len]
    BY <1>10, <2>2
  <2>4. d[i] = s[x]
    BY <2>2, <2>3
  <2> QED
    BY <2>4 DEF i
<1>8. b.len + n \in 0..Cap /\ b.pos <= b.len + n
  BY <1>1, <1>2
<1>9. Sound(c)
  BY <1>1, <1>5, <1>8 DEF Sound, Buffers
<1> QED
  BY <1>1, <1>2, <1>3, <1>6, <1>7, <1>8, <1>9 DEF Grown

LEMMA CursorMoves ==
    ASSUME NEW b, Sound(b), NEW n \in Nat
    PROVE  /\ Moved(b, Advanced(b, n)) /\ Advanced(b, n).pos = b.pos + Lesser(n, Size(b))
           /\ Moved(b, Unread(b, n)) /\ Unread(b, n).pos = b.pos - Lesser(n, b.pos)
           /\ Moved(b, [b EXCEPT !.pos = 0])
           /\ Grown(b, Reserved(b, n))
<1>1. /\ b = [data |-> b.data, pos |-> b.pos, len |-> b.len]
      /\ b.data \in [1..Cap -> Byte] /\ b.pos \in 0..Cap /\ b.len \in 0..Cap /\ b.pos <= b.len
      /\ Free(b) = Cap - b.len /\ Free(b) \in Nat /\ Cap \in Nat /\ Size(b) = b.len - b.pos /\ Size(b) \in Nat
  BY SoundIs
<1>2. /\ Advanced(b, n) = [data |-> b.data, pos |-> b.pos + Lesser(n, Size(b)), len |-> b.len]
      /\ Unread(b, n) = [data |-> b.data, pos |-> b.pos - Lesser(n, b.pos), len |-> b.len]
      /\ [b EXCEPT !.pos = 0] = [data |-> b.data, pos |-> 0, len |-> b.len]
      /\ Reserved(b, n) = [data |-> b.data, pos |-> b.pos, len |-> b.len + Lesser(n, Free(b))]
  BY <1>1 DEF Advanced, Unread, Reserved
<1>3. /\ b.pos + Lesser(n, Size(b)) \in 0..Cap /\ b.pos + Lesser(n, Size(b)) <= b.len
      /\ b.pos - Lesser(n, b.pos) \in 0..Cap /\ b.pos - Lesser(n, b.pos) <= b.len
      /\ b.len + Lesser(n, Free(b)) \in 0..Cap /\ b.len <= b.len + Lesser(n, Free(b))
      /\ b.pos <= b.len + Lesser(n, Free(b))
  <2>1. /\ Lesser(n, Size(b)) \in Nat /\ Lesser(n, Size(b)) <= Size(b)
        /\ Lesser(n, b.pos) \in Nat /\ Lesser(n, b.pos) <= b.pos
        /\ Lesser(n, Free(b)) \in Nat /\ Lesser(n, Free(b)) <= Free(b)
    BY <1>1, LesserIs
  <2> DEFINE x == Lesser(n, Size(b))  y == Lesser(n, b.pos)  z == Lesser(n, Free(b))
             c == Cap  p == b.pos  l == b.len
  <2>2. /\ x \in Nat /\ x <= l - p /\ y \in Nat /\ y <= p /\ z \in Nat /\ z <= c - l
        /\ c \in Nat /\ p \in Nat /\ l \in Nat /\ p <= l /\ l <= c
    BY <1>1, <2>1
  <2> HIDE DEF x, y, z, c, p, l
  <2>3. p + x \in 0..c /\ p + x <= l /\ p - y \in 0..c /\ p - y <= l
    BY <2>2
  <2>4. l + z \in 0..c /\ l <= l + z /\ p <= l + z
    BY <2>2
  <2> QED
    BY <2>3, <2>4, Zenon DEF x, y, z, c, p, l
<1>4. \A p \in 0..Cap, l \in 0..Cap : p <= l => Sound([data |-> b.data, pos |-> p, len |-> l])
  BY <1>1 DEF Sound, Buffers
<1>5. Sound(Advanced(b, n)) /\ Sound(Unread(b, n)) /\ Sound([b EXCEPT !.pos = 0]) /\ Sound(Reserved(b, n))
  <2>1. Sound(Advanced(b, n)) /\ Sound(Unread(b, n))
    BY <1>1, <1>2, <1>3, <1>4
  <2>2. 0 \in 0..Cap /\ 0 <= b.len
    BY <1>1
  <2> QED
    BY <1>1, <1>2, <1>3, <1>4, <2>1, <2>2
<1> QED
  BY <1>1, <1>2, <1>3, <1>5 DEF Moved, Grown

LEMMA RetractedRetreats ==
    ASSUME NEW b, Sound(b), NEW count \in Nat
    PROVE  Retreated(b, Retracted(b, count), Lesser(count, b.len))
<1> DEFINE n == Lesser(count, b.len)
           d == [i \in 1..Cap |-> IF i + n <= Cap THEN b.data[i + n] ELSE b.data[i]]
           c == [data |-> d, pos |-> Cursor(b.pos, n), len |-> b.len - n]
<1>1. /\ b.data \in [1..Cap -> Byte] /\ b.pos \in 0..Cap /\ b.len \in 0..Cap /\ b.pos <= b.len /\ Cap \in Nat
  BY SoundIs
<1>2. n \in 0..b.len
  BY <1>1 DEF Lesser
<1>3. Retracted(b, count) = c
  BY DEF Retracted
<1> HIDE DEF n
<1>4. d \in [1..Cap -> Byte]
  BY <1>1, <1>2
<1>5. \A x \in 1..b.len - n : d[x] = b.data[x + n]
  BY <1>1, <1>2
<1>6. Cursor(b.pos, n) \in 0..Cap /\ b.len - n \in 0..Cap /\ Cursor(b.pos, n) <= b.len - n
  BY <1>1, <1>2 DEF Cursor
<1> HIDE DEF d
<1>7. Sound(c)
  BY <1>4, <1>6 DEF Sound, Buffers
<1> QED
  BY <1>2, <1>3, <1>5, <1>7 DEF Retreated, n

-----------------------------------------------------------------------------
(* What that is for the queue *)

Past(b)    == SubSeq(b.data, 1, b.pos)
Waiting(b) == SubSeq(b.data, b.pos + 1, b.len)

LEMMA QueueIs ==
    ASSUME NEW b, Sound(b)
    PROVE  /\ Past(b) \in Seq(Byte) /\ Len(Past(b)) = b.pos /\ \A x \in 1..b.pos : Past(b)[x] = b.data[x]
           /\ Waiting(b) \in Seq(Byte) /\ Len(Waiting(b)) = b.len - b.pos
           /\ \A x \in 1..b.len - b.pos : Waiting(b)[x] = b.data[b.pos + x]
<1>1. /\ b.data \in [1..Cap -> Byte] /\ b.pos \in 0..Cap /\ b.len \in 0..Cap /\ b.pos <= b.len
      /\ 0 \in 0..Cap /\ 0 <= b.pos /\ 0 + 1 = 1 /\ b.pos - 0 = b.pos
  BY SoundIs
<1>2. /\ SubSeq(b.data, 0 + 1, b.pos) \in Seq(Byte) /\ Len(SubSeq(b.data, 0 + 1, b.pos)) = b.pos - 0
      /\ \A x \in 1..b.pos - 0 : SubSeq(b.data, 0 + 1, b.pos)[x] = b.data[0 + x]
  BY <1>1, SliceIs
<1>3. \A x \in 1..b.pos : 0 + x = x
  OBVIOUS
<1>4. Past(b) \in Seq(Byte) /\ Len(Past(b)) = b.pos /\ \A x \in 1..b.pos : Past(b)[x] = b.data[x]
  BY <1>1, <1>2, <1>3 DEF Past
<1>5. /\ Waiting(b) \in Seq(Byte) /\ Len(Waiting(b)) = b.len - b.pos
      /\ \A x \in 1..b.len - b.pos : Waiting(b)[x] = b.data[b.pos + x]
  BY <1>1, SliceIs DEF Waiting
<1> QED
  BY <1>4, <1>5

LEMMA GrownIsWrite ==
    ASSUME Sound(buf), Grown(buf, buf') PROVE Queue!Write
<1> DEFINE added == SubSeq(buf'.data, buf.len + 1, buf'.len)
           n == buf'.len - buf.len
<1>1. /\ buf.data \in [1..Cap -> Byte] /\ buf.pos \in 0..Cap /\ buf.len \in 0..Cap /\ buf.pos <= buf.len /\ Cap \in Nat
  BY SoundIs
<1>2. /\ Sound(buf') /\ buf'.pos = buf.pos /\ buf.len <= buf'.len
      /\ \A x \in 1..buf.len : buf'.data[x] = buf.data[x]
  BY DEF Grown
<1>3. /\ buf'.data \in [1..Cap -> Byte] /\ buf'.len \in 0..Cap
  BY <1>2, SoundIs
<1>4. /\ added \in Seq(Byte) /\ Len(added) = n /\ \A x \in 1..n : added[x] = buf'.data[buf.len + x]
  BY <1>1, <1>2, <1>3, SliceIs
<1>5. /\ Past(buf) \in Seq(Byte) /\ Len(Past(buf)) = buf.pos /\ \A x \in 1..buf.pos : Past(buf)[x] = buf.data[x]
      /\ Waiting(buf) \in Seq(Byte) /\ Len(Waiting(buf)) = buf.len - buf.pos
      /\ \A x \in 1..buf.len - buf.pos : Waiting(buf)[x] = buf.data[buf.pos + x]
  BY QueueIs
<1>6. /\ Past(buf') \in Seq(Byte) /\ Len(Past(buf')) = buf.pos /\ \A x \in 1..buf.pos : Past(buf')[x] = buf'.data[x]
      /\ Waiting(buf') \in Seq(Byte) /\ Len(Waiting(buf')) = buf'.len - buf.pos
      /\ \A x \in 1..buf'.len - buf.pos : Waiting(buf')[x] = buf'.data[buf.pos + x]
  BY <1>2, QueueIs
<1> HIDE DEF added
<1>7. Past(buf') = Past(buf)
  <2>1. \A x \in 1..buf.pos : Past(buf')[x] = Past(buf)[x]
    BY <1>1, <1>2, <1>5, <1>6
  <2> QED
    BY <1>5, <1>6, <2>1, SeqEqual
<1>8. Waiting(buf') = Waiting(buf) \o added
  <2>1. /\ Waiting(buf) \o added \in Seq(Byte)
        /\ Len(Waiting(buf) \o added) = (buf.len - buf.pos) + n
        /\ \A x \in 1..(buf.len - buf.pos) + n :
             (Waiting(buf) \o added)[x] = IF x <= buf.len - buf.pos THEN Waiting(buf)[x]
                                          ELSE added[x - (buf.len - buf.pos)]
    BY <1>4, <1>5, ConcatProperties
  <2>2. (buf.len - buf.pos) + n = buf'.len - buf.pos
    BY <1>1, <1>3
  <2>3. ASSUME NEW x \in 1..buf'.len - buf.pos PROVE Waiting(buf')[x] = (Waiting(buf) \o added)[x]
    <3>1. CASE x <= buf.len - buf.pos
      <4>1. x \in 1..buf.len - buf.pos /\ buf.pos + x \in 1..buf.len
        BY <1>1, <3>1
      <4> QED
        BY <1>2, <1>5, <1>6, <2>1, <2>2, <3>1, <4>1
    <3>2. CASE ~(x <= buf.len - buf.pos)
      <4>1. x - (buf.len - buf.pos) \in 1..n /\ buf.len + (x - (buf.len - buf.pos)) = buf.pos + x
        BY <1>1, <1>3, <3>2
      <4> QED
        BY <1>4, <1>6, <2>1, <2>2, <3>2, <4>1
    <3> QED
      BY <3>1, <3>2
  <2> QED
    BY <1>6, <2>1, <2>2, <2>3, SeqEqual
<1>9. Len(Past(buf) \o Waiting(buf)) = buf.len
  <2>1. Len(Past(buf) \o Waiting(buf)) = Len(Past(buf)) + Len(Waiting(buf))
    BY <1>5, ConcatProperties
  <2> QED
    BY <1>1, <1>5, <2>1
<1>10. n \in 0..Cap - buf.len /\ added \in [1..n -> Byte]
  BY <1>1, <1>2, <1>3, <1>4
<1>11. Queue!Room = Cap - buf.len
  BY <1>9 DEF Queue!Room, Queue!Kept, Past, Waiting
<1>12. Past(buf') = SubSeq(buf.data, 1, buf.pos)' /\ Waiting(buf') = SubSeq(buf.data, buf.pos + 1, buf.len)'
  BY DEF Past, Waiting
<1> HIDE DEF n
<1> QED
  BY <1>7, <1>8, <1>10, <1>11, <1>12 DEF Queue!Write, Past, Waiting

\* Slices of slices, slices that meet, and slices of what was moved down.
LEMMA SliceOfSlice ==
    ASSUME NEW d \in [1..Cap -> Byte], NEW m \in 0..Cap, NEW k \in 0..Cap, m <= k,
           NEW p \in 0..k - m, NEW q \in 0..k - m, p <= q
    PROVE  SubSeq(SubSeq(d, m + 1, k), p + 1, q) = SubSeq(d, m + p + 1, m + q)
<1> DEFINE s == SubSeq(d, m + 1, k)
<1>1. s \in Seq(Byte) /\ Len(s) = k - m /\ \A x \in 1..k - m : s[x] = d[m + x]
  BY SliceIs
<1>2. Cap \in Nat /\ m + p \in 0..Cap /\ m + q \in 0..Cap /\ m + p <= m + q /\ (m + q) - (m + p) = q - p
  BY CapAssumption
<1>3. /\ SubSeq(d, m + p + 1, m + q) \in Seq(Byte) /\ Len(SubSeq(d, m + p + 1, m + q)) = q - p
      /\ \A x \in 1..q - p : SubSeq(d, m + p + 1, m + q)[x] = d[m + p + x]
  BY <1>2, SliceIs
<1> HIDE DEF s
<1>4. /\ SubSeq(s, p + 1, q) \in Seq(Byte) /\ Len(SubSeq(s, p + 1, q)) = q - p
      /\ \A x \in 1..q - p : SubSeq(s, p + 1, q)[x] = s[p + x]
  <2>1. \A x \in p + 1..q : s[x] \in Byte
    BY <1>1
  <2>2. p + 1 \in Int /\ q \in Int /\ q - (p + 1) + 1 = q - p /\ (p + 1 <= q \/ q - p = 0)
    OBVIOUS
  <2>3. /\ SubSeq(s, p + 1, q) \in Seq(Byte)
        /\ Len(SubSeq(s, p + 1, q)) = IF p + 1 <= q THEN q - (p + 1) + 1 ELSE 0
        /\ \A x \in 1..q - (p + 1) + 1 : SubSeq(s, p + 1, q)[x] = s[(p + 1) + x - 1]
    BY <2>1, <2>2, SubSeqProperties
  <2>4. \A x \in 1..q - p : (p + 1) + x - 1 = p + x
    OBVIOUS
  <2> QED
    BY <2>2, <2>3, <2>4
<1>5. ASSUME NEW x \in 1..q - p PROVE SubSeq(s, p + 1, q)[x] = SubSeq(d, m + p + 1, m + q)[x]
  <2>1. p + x \in 1..k - m /\ m + (p + x) = m + p + x
    OBVIOUS
  <2> QED
    BY <1>1, <1>3, <1>4, <2>1
<1>6. SubSeq(s, p + 1, q) = SubSeq(d, m + p + 1, m + q)
  BY <1>3, <1>4, <1>5, SeqEqual
<1> QED
  BY <1>6 DEF s

LEMMA SlicesMeet ==
    ASSUME NEW d \in [1..Cap -> Byte], NEW m \in 0..Cap, NEW k \in 0..Cap, NEW n \in 0..Cap, m <= k, k <= n
    PROVE  SubSeq(d, m + 1, k) \o SubSeq(d, k + 1, n) = SubSeq(d, m + 1, n)
<1>1. d \in Seq(Byte) /\ Len(d) = Cap /\ Cap \in Nat
  BY CapAssumption
<1>2. m + 1 \in 1..Cap + 1 /\ k \in (m + 1) - 1..Cap /\ n \in k..Cap
  BY <1>1
<1> QED
  BY <1>1, <1>2, ConcatAdjacentSubSeq

LEMMA SliceMovedDown ==
    ASSUME NEW d \in [1..Cap -> Byte], NEW e \in [1..Cap -> Byte], NEW n \in 0..Cap, NEW l \in 0..Cap - n,
           \A x \in 1..l : e[x] = d[x + n], NEW m \in 0..l, NEW k \in 0..l, m <= k
    PROVE  SubSeq(e, m + 1, k) = SubSeq(d, m + n + 1, k + n)
<1>1. /\ Cap \in Nat /\ m \in 0..Cap /\ k \in 0..Cap /\ m + n \in 0..Cap /\ k + n \in 0..Cap /\ m + n <= k + n
      /\ (k + n) - (m + n) = k - m
  BY CapAssumption
<1>2. /\ SubSeq(e, m + 1, k) \in Seq(Byte) /\ Len(SubSeq(e, m + 1, k)) = k - m
      /\ \A x \in 1..k - m : SubSeq(e, m + 1, k)[x] = e[m + x]
  BY <1>1, SliceIs
<1>3. /\ SubSeq(d, m + n + 1, k + n) \in Seq(Byte) /\ Len(SubSeq(d, m + n + 1, k + n)) = k - m
      /\ \A x \in 1..k - m : SubSeq(d, m + n + 1, k + n)[x] = d[m + n + x]
  BY <1>1, SliceIs
<1>4. ASSUME NEW x \in 1..k - m PROVE SubSeq(e, m + 1, k)[x] = SubSeq(d, m + n + 1, k + n)[x]
  <2>1. m + x \in 1..l /\ (m + x) + n = m + n + x
    BY <1>1
  <2> QED
    BY <1>2, <1>3, <2>1
<1> QED
  BY <1>2, <1>3, <1>4, SeqEqual

LEMMA MovedIsRead ==
    ASSUME Sound(buf), Moved(buf, buf'), buf.pos <= buf'.pos PROVE Queue!Read
<1> DEFINE n == buf'.pos - buf.pos
           d == buf.data
<1>1. /\ d \in [1..Cap -> Byte] /\ buf.pos \in 0..Cap /\ buf.len \in 0..Cap /\ Cap \in Nat /\ buf.pos <= buf.len
      /\ buf'.pos \in 0..Cap /\ buf'.pos <= buf.len /\ buf'.data = d /\ buf'.len = buf.len
  BY SoundIs DEF Moved
<1> HIDE DEF d
<1>2. /\ n \in 0..buf.len - buf.pos /\ buf.pos + n = buf'.pos /\ buf.pos + (buf.len - buf.pos) = buf.len
      /\ 0 \in 0..buf.len - buf.pos /\ 0 <= n /\ buf.len - buf.pos \in 0..buf.len - buf.pos
      /\ n <= buf.len - buf.pos /\ buf.pos + 0 = buf.pos /\ 0 + 1 = 1 /\ 0 \in 0..Cap /\ 0 <= buf.pos
  BY <1>1
<1>3. Len(Waiting(buf)) = buf.len - buf.pos /\ Waiting(buf) = SubSeq(d, buf.pos + 1, buf.len) /\ Past(buf) = SubSeq(d, 1, buf.pos)
  BY QueueIs DEF Waiting, Past, d
<1> HIDE DEF n
<1>4. SubSeq(Waiting(buf), 1, n) = SubSeq(d, buf.pos + 1, buf'.pos)
  <2>1. SubSeq(SubSeq(d, buf.pos + 1, buf.len), 0 + 1, n) = SubSeq(d, buf.pos + 0 + 1, buf.pos + n)
    BY <1>1, <1>2, SliceOfSlice
  <2> QED
    BY <1>2, <1>3, <2>1
<1>5. SubSeq(Waiting(buf), n + 1, buf.len - buf.pos) = SubSeq(d, buf'.pos + 1, buf.len)
  <2>1. SubSeq(SubSeq(d, buf.pos + 1, buf.len), n + 1, buf.len - buf.pos) = SubSeq(d, buf.pos + n + 1, buf.pos + (buf.len - buf.pos))
    BY <1>1, <1>2, SliceOfSlice
  <2> QED
    BY <1>2, <1>3, <2>1
<1>6. SubSeq(d, 1, buf.pos) \o SubSeq(d, buf.pos + 1, buf'.pos) = SubSeq(d, 1, buf'.pos)
  <2>1. SubSeq(d, 0 + 1, buf.pos) \o SubSeq(d, buf.pos + 1, buf'.pos) = SubSeq(d, 0 + 1, buf'.pos)
    BY <1>1, <1>2, SlicesMeet
  <2> QED
    BY <1>2, <2>1
<1>7. /\ SubSeq(buf.data, 1, buf.pos)' = Past(buf) \o SubSeq(Waiting(buf), 1, n)
      /\ SubSeq(buf.data, buf.pos + 1, buf.len)' = SubSeq(Waiting(buf), n + 1, Len(Waiting(buf)))
  BY <1>1, <1>3, <1>4, <1>5, <1>6
<1>8. n \in 0..Len(Waiting(buf))
  BY <1>2, <1>3
<1> QED
  BY <1>7, <1>8 DEF Queue!Read, Queue!Take, Queue!Drop, Past, Waiting

LEMMA MovedIsUnread ==
    ASSUME Sound(buf), Moved(buf, buf'), buf'.pos <= buf.pos PROVE Queue!Unread
<1> DEFINE n == buf'.pos
           d == buf.data
<1>1. /\ d \in [1..Cap -> Byte] /\ buf.pos \in 0..Cap /\ buf.len \in 0..Cap /\ Cap \in Nat /\ buf.pos <= buf.len
      /\ n \in 0..Cap /\ n <= buf.len /\ n <= buf.pos /\ buf'.data = d /\ buf'.len = buf.len
  BY SoundIs DEF Moved
<1>2. Len(Past(buf)) = buf.pos /\ Waiting(buf) = SubSeq(d, buf.pos + 1, buf.len) /\ Past(buf) = SubSeq(d, 1, buf.pos)
  BY QueueIs DEF Waiting, Past, d
<1> HIDE DEF d
<1>3. /\ n \in 0..buf.pos - 0 /\ 0 \in 0..buf.pos - 0 /\ 0 <= n /\ 0 + 1 = 1 /\ 0 \in 0..Cap /\ 0 <= buf.pos
      /\ buf.pos \in 0..buf.pos - 0 /\ 0 + n = n /\ 0 + buf.pos = buf.pos /\ 0 + 0 + 1 = 1
  BY <1>1
<1>4. SubSeq(Past(buf), 1, n) = SubSeq(d, 1, n)
  <2>1. SubSeq(SubSeq(d, 0 + 1, buf.pos), 0 + 1, n) = SubSeq(d, 0 + 0 + 1, 0 + n)
    BY <1>1, <1>3, SliceOfSlice
  <2> QED
    BY <1>2, <1>3, <2>1
<1>5. SubSeq(Past(buf), n + 1, buf.pos) = SubSeq(d, n + 1, buf.pos)
  <2>1. SubSeq(SubSeq(d, 0 + 1, buf.pos), n + 1, buf.pos) = SubSeq(d, 0 + n + 1, 0 + buf.pos)
    BY <1>1, <1>3, SliceOfSlice
  <2> QED
    BY <1>2, <1>3, <2>1
<1>6. SubSeq(d, n + 1, buf.pos) \o SubSeq(d, buf.pos + 1, buf.len) = SubSeq(d, n + 1, buf.len)
  BY <1>1, SlicesMeet
<1>7. /\ SubSeq(buf.data, 1, buf.pos)' = SubSeq(Past(buf), 1, n)
      /\ SubSeq(buf.data, buf.pos + 1, buf.len)' = SubSeq(Past(buf), n + 1, Len(Past(buf))) \o Waiting(buf)
  BY <1>1, <1>2, <1>4, <1>5, <1>6
<1>8. n \in 0..Len(Past(buf))
  BY <1>1, <1>2
<1> QED
  BY <1>7, <1>8 DEF Queue!Unread, Queue!Take, Queue!Drop, Past, Waiting

LEMMA RetreatedIsForget ==
    ASSUME Sound(buf), NEW n, Retreated(buf, buf', n) PROVE Queue!Forget
<1> DEFINE d == buf.data
           e == buf'.data
           l == buf'.len
<1>1. /\ d \in [1..Cap -> Byte] /\ buf.pos \in 0..Cap /\ buf.len \in 0..Cap /\ Cap \in Nat /\ buf.pos <= buf.len
      /\ e \in [1..Cap -> Byte] /\ buf'.pos \in 0..Cap /\ l \in 0..Cap
      /\ n \in 0..buf.len /\ l = buf.len - n /\ buf'.pos = Cursor(buf.pos, n)
      /\ \A x \in 1..l : e[x] = d[x + n]
  BY SoundIs DEF Retreated
<1>2. /\ Past(buf) \in Seq(Byte) /\ Waiting(buf) \in Seq(Byte)
      /\ Len(Past(buf)) = buf.pos /\ Waiting(buf) = SubSeq(d, buf.pos + 1, buf.len) /\ Past(buf) = SubSeq(d, 1, buf.pos)
      /\ Len(Waiting(buf)) = buf.len - buf.pos
  BY QueueIs DEF Waiting, Past, d
<1> HIDE DEF d, e, l
<1>3. n \in 0..Cap /\ l \in 0..Cap - n /\ 0 \in 0..l /\ 0 + 1 = 1 /\ 0 + n + 1 = n + 1 /\ l + n = buf.len
  BY <1>1
<1>4. n \in 0..Len(Past(buf) \o Waiting(buf))
  <2>1. Len(Past(buf) \o Waiting(buf)) = Len(Past(buf)) + Len(Waiting(buf))
    BY <1>2, ConcatProperties
  <2> QED
    BY <1>1, <1>2, <2>1
<1>5. CASE n <= buf.pos
  <2> DEFINE k == buf.pos - n
  <2>1. buf'.pos = k /\ k \in 0..l /\ 0 <= k /\ k <= l /\ l \in 0..l /\ k + n = buf.pos
    BY <1>1, <1>5 DEF Cursor
  <2> HIDE DEF k
  <2>2. SubSeq(e, 0 + 1, k) = SubSeq(d, 0 + n + 1, k + n)
    <3>1. /\ d \in [1..Cap -> Byte] /\ e \in [1..Cap -> Byte] /\ n \in 0..Cap /\ l \in 0..Cap - n
          /\ \A x \in 1..l : e[x] = d[x + n]
      BY <1>1, <1>3
    <3>2. 0 \in 0..l /\ k \in 0..l /\ 0 <= k
      BY <1>3, <2>1
    <3> QED
      BY <3>1, <3>2, SliceMovedDown, Zenon
  <2>3. SubSeq(e, k + 1, l) = SubSeq(d, k + n + 1, l + n)
    <3>1. /\ d \in [1..Cap -> Byte] /\ e \in [1..Cap -> Byte] /\ n \in 0..Cap /\ l \in 0..Cap - n
          /\ \A x \in 1..l : e[x] = d[x + n]
      BY <1>1, <1>3
    <3>2. k \in 0..l /\ l \in 0..l /\ k <= l
      BY <2>1
    <3> QED
      BY <3>1, <3>2, SliceMovedDown, Zenon
  <2>4. SubSeq(Past(buf), n + 1, buf.pos) = SubSeq(d, n + 1, buf.pos)
    <3>1. buf.pos \in Nat /\ n \in Nat /\ 0 \in 0..Cap
      BY <1>1
    <3>2. 0 <= buf.pos /\ n \in 0..buf.pos - 0 /\ buf.pos \in 0..buf.pos - 0 /\ 0 + n = n /\ 0 + buf.pos = buf.pos
      BY <1>5, <3>1
    <3>3. SubSeq(SubSeq(d, 0 + 1, buf.pos), n + 1, buf.pos) = SubSeq(d, 0 + n + 1, 0 + buf.pos)
      BY <1>1, <1>5, <3>1, <3>2, SliceOfSlice
    <3> QED
      BY <1>2, <1>3, <3>2, <3>3
  <2>5. /\ SubSeq(buf.data, 1, buf.pos)' = SubSeq(Past(buf), n + 1, Len(Past(buf)))
        /\ SubSeq(buf.data, buf.pos + 1, buf.len)' = Waiting(buf)
    BY <1>2, <1>3, <2>1, <2>2, <2>3, <2>4 DEF e, l
  <2> QED
    BY <1>2, <1>4, <1>5, <2>5 DEF Queue!Forget, Queue!Drop, Queue!Kept, Past, Waiting
<1>6. CASE n > buf.pos
  <2>1. buf'.pos = 0 /\ l \in 0..l /\ 0 <= l /\ ~(n < buf.pos)
    BY <1>1, <1>6 DEF Cursor
  <2>2. SubSeq(e, 0 + 1, l) = SubSeq(d, 0 + n + 1, l + n)
    <3>1. /\ d \in [1..Cap -> Byte] /\ e \in [1..Cap -> Byte] /\ n \in 0..Cap /\ l \in 0..Cap - n
          /\ \A x \in 1..l : e[x] = d[x + n]
      BY <1>1, <1>3
    <3>2. 0 \in 0..l /\ l \in 0..l /\ 0 <= l
      BY <1>3, <2>1
    <3> QED
      BY <3>1, <3>2, SliceMovedDown, Zenon
  <2>3. SubSeq(Waiting(buf), (n - buf.pos) + 1, buf.len - buf.pos) = SubSeq(d, n + 1, buf.len)
    <3>1. /\ n - buf.pos \in 0..buf.len - buf.pos /\ buf.len - buf.pos \in 0..buf.len - buf.pos
          /\ n - buf.pos <= buf.len - buf.pos
          /\ buf.pos + (n - buf.pos) = n /\ buf.pos + (buf.len - buf.pos) = buf.len
      BY <1>1, <1>6
    <3>2. SubSeq(SubSeq(d, buf.pos + 1, buf.len), (n - buf.pos) + 1, buf.len - buf.pos)
            = SubSeq(d, buf.pos + (n - buf.pos) + 1, buf.pos + (buf.len - buf.pos))
      BY <1>1, <3>1, SliceOfSlice
    <3> QED
      BY <1>2, <3>1, <3>2
  <2>4. SubSeq(e, 1, 0) = <<>>
    BY SubSeqEmpty
  <2>5. /\ SubSeq(buf.data, 1, buf.pos)' = <<>>
        /\ SubSeq(buf.data, buf.pos + 1, buf.len)' = SubSeq(Waiting(buf), (n - buf.pos) + 1, Len(Waiting(buf)))
    BY <1>2, <1>3, <2>1, <2>2, <2>3, <2>4 DEF e, l
  <2> QED
    BY <1>2, <1>4, <1>6, <2>5 DEF Queue!Forget, Queue!Drop, Queue!Kept, Past, Waiting
<1> QED
  BY <1>1, <1>5, <1>6

-----------------------------------------------------------------------------
(* Loops over a format *)

\* Induction over the numbers, as a set that contains its successors.
LEMMA SetInduction ==
    ASSUME NEW S, 0 \in S, \A n \in Nat : n \in S => n + 1 \in S
    PROVE  \A n \in Nat : n \in S
<1> DEFINE Less == {p \in Nat \X Nat : p[1] < p[2]}
<1> SUFFICES ASSUME Nat \ S # {} PROVE FALSE
  OBVIOUS
<1>1. IsWellFoundedOn(Less, Nat)
  BY NatLessThanWellFounded DEF OpToRel
<1>2. PICK x \in Nat \ S : \A y \in Nat \ S : <<y, x>> \notin Less
  <2>1. Nat \ S \subseteq Nat
    OBVIOUS
  <2> QED
    BY <1>1, <2>1, WFMin
<1>3. x - 1 \in Nat /\ <<x - 1, x>> \in Less
  OBVIOUS
<1> QED
  BY <1>2, <1>3

\* A loop of N turns, each a function on the states R, has a history.
History(N, R, a, turn, g) ==
    g \in [0..N -> R] /\ g[0] = a /\ \A i \in 1..N : g[i] = turn[i][g[i - 1]]

LEMMA LoopRuns ==
    ASSUME NEW N \in Nat, NEW R, NEW a \in R, NEW turn \in [1..N -> [R -> R]]
    PROVE  \E g : History(N, R, a, turn, g)
<1> DEFINE Run(m, g) == g[0] = a /\ \A i \in 1..m : g[i] = turn[i][g[i - 1]]
           S == {m \in Nat : m <= N => \E g \in [0..m -> R] : Run(m, g)}
<1>1. 0 \in S
  <2>1. [i \in 0..0 |-> a] \in [0..0 -> R] /\ Run(0, [i \in 0..0 |-> a])
    OBVIOUS
  <2> QED
    BY <2>1
<1>2. ASSUME NEW m \in Nat, m \in S PROVE m + 1 \in S
  <2> SUFFICES ASSUME m + 1 <= N PROVE \E g \in [0..m + 1 -> R] : Run(m + 1, g)
    OBVIOUS
  <2>1. PICK g \in [0..m -> R] : Run(m, g)
    BY <1>2
  <2> DEFINE h == [i \in 0..m + 1 |-> IF i <= m THEN g[i] ELSE turn[m + 1][g[m]]]
  <2>2. m + 1 \in 1..N /\ g[m] \in R
    OBVIOUS
  <2>3. turn[m + 1][g[m]] \in R
    BY <2>2
  <2>4. h \in [0..m + 1 -> R]
    BY <2>3
  <2>5. h[0] = a
    BY <2>1
  <2>6. ASSUME NEW i \in 1..m + 1 PROVE h[i] = turn[i][h[i - 1]]
    <3>1. i - 1 \in 0..m /\ i \in 0..m + 1 /\ i - 1 \in 0..m + 1
      OBVIOUS
    <3>2. h[i - 1] = g[i - 1]
      BY <3>1
    <3>3. CASE i <= m
      <4>1. i \in 1..m /\ h[i] = g[i]
        BY <3>3
      <4> QED
        BY <2>1, <3>2, <4>1
    <3>4. CASE ~(i <= m)
      <4>1. i = m + 1 /\ h[i] = turn[m + 1][g[m]] /\ i - 1 = m
        BY <3>4
      <4> QED
        BY <3>2, <4>1
    <3> QED
      BY <3>3, <3>4
  <2> HIDE DEF h
  <2> QED
    BY <2>4, <2>5, <2>6
<1> HIDE DEF S
<1>3. N \in S
  BY <1>1, <1>2, SetInduction
<1> QED
  BY <1>3 DEF S, History

-----------------------------------------------------------------------------
(* Packing *)

LEMMA FormatIs ==
    ASSUME NEW fmt \in Formats
    PROVE  Len(fmt) \in Nat /\ DOMAIN fmt = 1..Len(fmt) /\ \A i \in 1..Len(fmt) : fmt[i].v \in Seq(Byte)
<1>1. PICK n \in 0..MaxField + 1 : fmt \in [1..n -> Items]
  BY DEF Formats
<1>2. n \in Nat
  BY CapAssumption
<1>3. Len(fmt) = n /\ DOMAIN fmt = 1..n
  BY <1>1, <1>2
<1>4. \A item \in Items : item.v \in Seq(Byte)
  <2>1. \A m \in Nat : [1..m -> Byte] \subseteq Seq(Byte)
    OBVIOUS
  <2>2. 1..MaxField \subseteq Nat /\ 0..MaxField \subseteq Nat
    BY CapAssumption
  <2>3. <<>> \in Seq(Byte)
    OBVIOUS
  <2>4. ASSUME NEW item \in Items PROVE item.v \in Seq(Byte)
    <3>1. CASE item \in [c : {"W"}, v : UNION {[1..m -> Byte] : m \in 1..MaxField}]
      BY <2>1, <2>2, <3>1
    <3>2. CASE item \in [c : {"S"}, v : UNION {[1..m -> Byte] : m \in 0..MaxField}]
      BY <2>1, <2>2, <3>2
    <3>3. CASE item \in [c : {"<", ">", "?"}, v : {<<>>}]
      BY <2>3, <3>3
    <3>4. CASE item \in [c : {"Q", "L"}, v : [1..MaxField -> Byte]]
      BY <2>1, <3>4, CapAssumption
    <3> QED
      BY <3>1, <3>2, <3>3, <3>4 DEF Items
  <2> QED
    BY <2>4
<1> QED
  BY <1>1, <1>2, <1>3, <1>4

LEMMA WireIs ==
    ASSUME NEW item, item.v \in Seq(Byte), NEW big \in BOOLEAN
    PROVE  /\ Wire(item, big) \in Seq(Byte) /\ Len(Wire(item, big)) = Len(item.v)
           /\ Value(item.c, Wire(item, big), big) = item.v
<1> DEFINE v == item.v
<1>1. Len(v) \in Nat /\ \A x \in 1..Len(v) : v[x] \in Byte /\ Len(v) - x + 1 \in 1..Len(v)
  OBVIOUS
<1> HIDE DEF v
<1> DEFINE w == [x \in 1..Len(v) |-> v[Len(v) - x + 1]]
<1>2. w \in [1..Len(v) -> Byte]
  BY <1>1
<1>3. w \in Seq(Byte) /\ Len(w) = Len(v)
  BY <1>1, <1>2
<1>4. Reverse(v) = w
  BY DEF Reverse
<1>5. Reverse(w) = v
  <2>1. ASSUME NEW x \in 1..Len(v) PROVE w[Len(v) - x + 1] = v[x]
    <3>1. Len(v) - x + 1 \in 1..Len(v) /\ Len(v) - (Len(v) - x + 1) + 1 = x
      BY <1>1
    <3> QED
      BY <3>1
  <2>2. Reverse(w) = [x \in 1..Len(v) |-> w[Len(v) - x + 1]]
    BY <1>3 DEF Reverse
  <2>3. v \in [1..Len(v) -> Byte]
    BY <1>1 DEF v
  <2> HIDE DEF w
  <2> QED
    BY <2>1, <2>2, <2>3
<1> HIDE DEF w
<1> QED
  BY <1>1, <1>3, <1>4, <1>5 DEF Wire, Value, v

LEMMA GrownAgain ==
    ASSUME NEW b, NEW c, NEW d, Sound(b), Grown(b, c), Grown(c, d) PROVE Grown(b, d)
<1>1. b.len \in Nat /\ c.len \in Nat /\ d.len \in Nat
  BY SoundIs DEF Grown
<1>2. \A x \in 1..b.len : x \in 1..c.len
  BY <1>1 DEF Grown
<1> QED
  BY <1>1, <1>2 DEF Grown

PackStates == [b : {c \in Buffers : c.pos <= c.len}, big : BOOLEAN, n : Nat, ok : BOOLEAN]

LEMMA PackItemIs ==
    ASSUME NEW r \in PackStates, NEW item, item.v \in Seq(Byte)
    PROVE  LET q == PackItem(r, item)
               w == Wire(item, r.big)
           IN  /\ q \in PackStates /\ Grown(r.b, q.b)
               /\ q.ok => /\ r.ok
                          /\ item.c \in PackFields => q.big = r.big /\ q.b = Written(r.b, w) /\ Len(w) <= Free(r.b)
                          /\ item.c \notin PackFields => q.big = Order(r.big, item.c) /\ q.b = r.b
<1> DEFINE q == PackItem(r, item)
           w == Wire(item, r.big)
<1>1. /\ r = [b |-> r.b, big |-> r.big, n |-> r.n, ok |-> r.ok] /\ Sound(r.b)
      /\ r.big \in BOOLEAN /\ r.n \in Nat /\ r.ok \in BOOLEAN
  BY DEF PackStates, Sound
<1>2. w \in Seq(Byte)
  BY <1>1, WireIs
<1>3. Grown(r.b, Written(r.b, w)) /\ Grown(r.b, r.b)
  <2>1. Grown(r.b, Written(r.b, w))
    BY <1>1, <1>2, WrittenGrows
  <2>2. r.b.len \in Nat
    BY <1>1, SoundIs
  <2> QED
    BY <1>1, <2>1, <2>2 DEF Grown
<1>4. \A c, g, m, o : Sound(c) /\ g \in BOOLEAN /\ m \in Nat /\ o \in BOOLEAN
                      => [b |-> c, big |-> g, n |-> m, ok |-> o] \in PackStates
  BY DEF PackStates, Sound
<1> HIDE DEF w
<1>5. Sound(Written(r.b, w))
  BY <1>3 DEF Grown
<1> HIDE DEF q
<1>6. CASE ~r.ok
  <2>1. q = r
    BY <1>6 DEF PackItem, q
  <2> QED
    BY <1>1, <1>3, <1>6, <2>1 DEF q, w
<1>7. CASE r.ok /\ item.c \notin PackFields
  <2>1. q = [b |-> r.b, big |-> Order(r.big, item.c), n |-> r.n + 1, ok |-> r.ok]
    BY <1>1, <1>7 DEF PackItem, q
  <2>2. Order(r.big, item.c) \in BOOLEAN
    BY <1>1 DEF Order
  <2>3. q \in PackStates
    BY <1>1, <1>4, <2>1, <2>2
  <2>4. q.b = r.b /\ q.big = Order(r.big, item.c)
    BY <2>1
  <2> QED
    BY <1>3, <1>7, <2>3, <2>4 DEF q, w
<1>8. CASE r.ok /\ item.c \in PackFields /\ Len(w) <= Free(r.b)
  <2>1. q = [b |-> Written(r.b, w), big |-> r.big, n |-> r.n + 1, ok |-> r.ok]
    BY <1>1, <1>8 DEF PackItem, w, q
  <2>2. q \in PackStates
    BY <1>1, <1>4, <1>5, <2>1
  <2>3. q.b = Written(r.b, w) /\ q.big = r.big
    BY <2>1
  <2> QED
    BY <1>3, <1>8, <2>2, <2>3 DEF q, w
<1>9. CASE r.ok /\ item.c \in PackFields /\ ~(Len(w) <= Free(r.b))
  <2>1. q = [b |-> Written(r.b, w), big |-> r.big, n |-> r.n, ok |-> FALSE]
    BY <1>1, <1>9 DEF PackItem, w, q
  <2>2. q \in PackStates
    BY <1>1, <1>4, <1>5, <2>1
  <2>3. q.b = Written(r.b, w) /\ ~q.ok
    BY <2>1
  <2> QED
    BY <1>3, <2>2, <2>3 DEF q, w
<1> QED
  BY <1>6, <1>7, <1>8, <1>9 DEF q, w

\* The history of a call of buffer_packv.
PackRun(b, fmt, g) ==
    /\ g \in [0..Len(fmt) -> PackStates]
    /\ g[0] = [b |-> b, big |-> FALSE, n |-> 0, ok |-> TRUE]
    /\ \A i \in 1..Len(fmt) : g[i] = PackItem(g[i - 1], fmt[i])

LEMMA PackedRuns ==
    ASSUME NEW b, Sound(b), NEW fmt \in Formats
    PROVE  \E g : PackRun(b, fmt, g) /\ Packed(b, fmt) = g[Len(fmt)]
<1> DEFINE N == Len(fmt)
           start == [b |-> b, big |-> FALSE, n |-> 0, ok |-> TRUE]
           turn == [i \in 1..N |-> [r \in PackStates |-> PackItem(r, fmt[i])]]
           Loop(f) == f = [i \in 0..N |-> IF i = 0 THEN start ELSE PackItem(f[i - 1], fmt[i])]
<1>1. N \in Nat /\ \A i \in 1..N : fmt[i].v \in Seq(Byte)
  BY FormatIs
<1>2. start \in PackStates
  BY DEF PackStates, Sound
<1>3. turn \in [1..N -> [PackStates -> PackStates]]
  BY <1>1, PackItemIs
<1> HIDE DEF N, start
<1>4. PICK g : History(N, PackStates, start, turn, g)
  <2> HIDE DEF turn
  <2>1. N \in Nat
    BY <1>1
  <2> QED
    BY <1>2, <1>3, <2>1, LoopRuns
<1>5. ASSUME NEW i \in 1..N PROVE g[i] = PackItem(g[i - 1], fmt[i])
  <2>1. g[i - 1] \in PackStates /\ g[i] = turn[i][g[i - 1]]
    BY <1>1, <1>4 DEF History
  <2> QED
    BY <2>1
<1>6. Loop(g)
  <2>1. ASSUME NEW i \in 0..N PROVE g[i] = IF i = 0 THEN start ELSE PackItem(g[i - 1], fmt[i])
    BY <1>1, <1>4, <1>5 DEF History
  <2>2. g \in [0..N -> PackStates]
    BY <1>4 DEF History
  <2> QED
    BY <2>1, <2>2
<1> DEFINE f == CHOOSE f : Loop(f)
<1>7. Loop(f)
  BY <1>6
<1>8. Packed(b, fmt) = f[N]
  BY DEF Packed, N, start
<1> HIDE DEF f
<1>9. f[0] = start /\ \A i \in 1..N : f[i] = PackItem(f[i - 1], fmt[i])
  BY <1>1, <1>7
<1>10. f \in [0..N -> PackStates]
  <2> DEFINE S == {i \in Nat : i <= N => f[i] \in PackStates}
  <2>1. 0 \in S
    BY <1>2, <1>9
  <2>2. ASSUME NEW i \in Nat, i \in S PROVE i + 1 \in S
    <3> SUFFICES ASSUME i + 1 <= N PROVE f[i + 1] \in PackStates
      OBVIOUS
    <3>1. i + 1 \in 1..N /\ (i + 1) - 1 = i /\ f[i] \in PackStates
      BY <1>1, <2>2
    <3>2. f[i + 1] = PackItem(f[i], fmt[i + 1])
      BY <1>9, <3>1
    <3> QED
      BY <1>1, <3>1, <3>2, PackItemIs
  <2> HIDE DEF S
  <2>3. \A i \in Nat : i \in S
    BY <2>1, <2>2, SetInduction
  <2> QED
    BY <1>7, <2>3 DEF S
<1> QED
  BY <1>8, <1>9, <1>10 DEF PackRun, N, start

LEMMA PackedGrows ==
    ASSUME NEW b, NEW fmt \in Formats, NEW g, PackRun(b, fmt, g), NEW i \in 0..Len(fmt), NEW j \in i..Len(fmt)
    PROVE  Grown(g[i].b, g[j].b) /\ (g[j].ok => g[i].ok)
<1> DEFINE N == Len(fmt)
           S == {n \in Nat : i + n <= N => Grown(g[i].b, g[i + n].b) /\ (g[i + n].ok => g[i].ok)}
<1>1. N \in Nat /\ \A m \in 1..N : fmt[m].v \in Seq(Byte)
  BY FormatIs
<1>2. \A m \in 0..N : g[m] \in PackStates
  BY DEF PackRun
<1>3. \A m \in 0..N : Sound(g[m].b) /\ g[m].b.len \in Nat
  <2>1. \A m \in 0..N : Sound(g[m].b)
    BY <1>2 DEF PackStates, Sound
  <2> QED
    BY <2>1, SoundIs
<1> HIDE DEF N
<1>4. 0 \in S
  <2>1. i + 0 = i /\ Sound(g[i].b) /\ g[i].b.len \in Nat
    BY <1>3 DEF N
  <2>2. Grown(g[i].b, g[i].b)
    BY <2>1 DEF Grown
  <2> QED
    BY <2>1, <2>2
<1>5. ASSUME NEW n \in Nat, n \in S PROVE n + 1 \in S
  <2> SUFFICES ASSUME i + (n + 1) <= N
               PROVE  Grown(g[i].b, g[i + (n + 1)].b) /\ (g[i + (n + 1)].ok => g[i].ok)
    OBVIOUS
  <2> DEFINE m == i + n
  <2>1. m \in 0..N /\ m + 1 \in 1..N /\ (m + 1) - 1 = m /\ i + (n + 1) = m + 1 /\ i \in 0..N /\ m <= N
    BY <1>1 DEF N
  <2>2. Grown(g[i].b, g[m].b) /\ (g[m].ok => g[i].ok)
    BY <1>5, <2>1
  <2> HIDE DEF m
  <2>3. g[m + 1] = PackItem(g[m], fmt[m + 1])
    BY <2>1 DEF PackRun, N
  <2>4. Grown(g[m].b, g[m + 1].b) /\ (g[m + 1].ok => g[m].ok)
    <3>1. g[m] \in PackStates /\ fmt[m + 1].v \in Seq(Byte)
      BY <1>1, <1>2, <2>1
    <3> QED
      BY <2>3, <3>1, PackItemIs
  <2>5. Grown(g[i].b, g[m + 1].b)
    BY <1>3, <2>1, <2>2, <2>4, GrownAgain
  <2> QED
    BY <2>1, <2>2, <2>4, <2>5
<1> HIDE DEF S
<1>6. \A n \in Nat : n \in S
  BY <1>4, <1>5, SetInduction
<1>7. j - i \in Nat /\ i + (j - i) = j /\ j <= N
  BY <1>1 DEF N
<1> QED
  BY <1>6, <1>7 DEF S

-----------------------------------------------------------------------------
(* Unpacking *)

UnpackStates == [b : {c \in Buffers : c.pos <= c.len}, big : BOOLEAN, n : Nat, ok : BOOLEAN, out : Seq(Seq(Byte))]

LEMMA ReadOutIs ==
    ASSUME NEW b, Sound(b), NEW n \in Nat
    PROVE  /\ ReadOut(b, n) \in Seq(Byte) /\ Len(ReadOut(b, n)) = Lesser(n, Size(b))
           /\ \A x \in 1..Lesser(n, Size(b)) : ReadOut(b, n)[x] = b.data[b.pos + x]
<1> DEFINE k == Lesser(n, Size(b))
           last == b.pos + k
<1>1. /\ b.data \in [1..Cap -> Byte] /\ b.pos \in 0..Cap /\ b.len \in 0..Cap /\ b.pos <= b.len /\ Cap \in Nat
      /\ Size(b) = b.len - b.pos /\ Size(b) \in Nat
  BY SoundIs
<1>2. k \in Nat /\ k <= Size(b)
  BY <1>1, LesserIs
<1> HIDE DEF k
<1>3. last \in 0..Cap /\ b.pos <= last /\ last - b.pos = k
  BY <1>1, <1>2
<1>4. ReadOut(b, n) = SubSeq(b.data, b.pos + 1, last)
  BY DEF ReadOut, k
<1> HIDE DEF last
<1>5. /\ SubSeq(b.data, b.pos + 1, last) \in Seq(Byte) /\ Len(SubSeq(b.data, b.pos + 1, last)) = last - b.pos
      /\ \A x \in 1..last - b.pos : SubSeq(b.data, b.pos + 1, last)[x] = b.data[b.pos + x]
  BY <1>1, <1>3, SliceIs
<1> QED
  BY <1>3, <1>4, <1>5 DEF k

LEMMA ValueIs ==
    ASSUME NEW c, NEW w \in Seq(Byte), NEW big \in BOOLEAN PROVE Value(c, w, big) \in Seq(Byte)
<1>1. Reverse(w) \in Seq(Byte)
  <2>1. Len(w) \in Nat /\ \A x \in 1..Len(w) : w[x] \in Byte /\ Len(w) - x + 1 \in 1..Len(w)
    OBVIOUS
  <2>2. [x \in 1..Len(w) |-> w[Len(w) - x + 1]] \in [1..Len(w) -> Byte]
    BY <2>1
  <2> QED
    BY <2>1, <2>2 DEF Reverse
<1> QED
  BY <1>1 DEF Value

LEMMA UnpackItemIs ==
    ASSUME NEW r \in UnpackStates, NEW item, item.v \in Seq(Byte)
    PROVE  LET q == UnpackItem(r, item)
               w == ReadOut(r.b, Len(item.v))
           IN  /\ q \in UnpackStates /\ Moved(r.b, q.b) /\ r.b.pos <= q.b.pos
               /\ r.ok /\ item.c \in UnpackFields /\ Len(w) = Len(item.v) =>
                    q.ok /\ q.big = r.big /\ q.b = Advanced(r.b, Len(item.v))
                    /\ q.out = Append(r.out, Value(item.c, w, r.big))
               /\ r.ok /\ item.c \notin UnpackFields =>
                    q.ok /\ q.big = Order(r.big, item.c) /\ q.b = r.b /\ q.out = r.out
<1> DEFINE q == UnpackItem(r, item)
           width == Len(item.v)
           w == ReadOut(r.b, width)
<1>1. /\ r = [b |-> r.b, big |-> r.big, n |-> r.n, ok |-> r.ok, out |-> r.out] /\ Sound(r.b)
      /\ r.big \in BOOLEAN /\ r.n \in Nat /\ r.ok \in BOOLEAN /\ r.out \in Seq(Seq(Byte)) /\ width \in Nat
  BY DEF UnpackStates, Sound
<1>2. w \in Seq(Byte) /\ Len(w) \in Nat /\ Len(w) <= width
  <2>1. Size(r.b) \in Nat
    BY <1>1, SoundIs
  <2>2. w \in Seq(Byte) /\ Len(w) = Lesser(width, Size(r.b))
    BY <1>1, ReadOutIs
  <2> QED
    BY <1>1, <2>1, <2>2, LesserIs
<1>3. /\ Moved(r.b, Advanced(r.b, width)) /\ r.b.pos <= Advanced(r.b, width).pos
      /\ Moved(r.b, r.b) /\ r.b.pos <= r.b.pos
  <2>1. Moved(r.b, Advanced(r.b, width)) /\ Advanced(r.b, width).pos = r.b.pos + Lesser(width, Size(r.b))
    BY <1>1, CursorMoves
  <2>2. r.b.pos \in Nat /\ Size(r.b) \in Nat
    BY <1>1, SoundIs
  <2>3. Lesser(width, Size(r.b)) \in Nat
    BY <1>1, <2>2, LesserIs
  <2>4. Moved(r.b, r.b)
    BY <1>1 DEF Moved
  <2> QED
    BY <2>1, <2>2, <2>3, <2>4
<1>4. \A c, g, m, o, t : Sound(c) /\ g \in BOOLEAN /\ m \in Nat /\ o \in BOOLEAN /\ t \in Seq(Seq(Byte))
                         => [b |-> c, big |-> g, n |-> m, ok |-> o, out |-> t] \in UnpackStates
  BY DEF UnpackStates, Sound
<1>5. Sound(Advanced(r.b, width))
  BY <1>3 DEF Moved
<1>6. Value(item.c, w, r.big) \in Seq(Byte)
  BY <1>1, <1>2, ValueIs
<1>7. Append(r.out, Value(item.c, w, r.big)) \in Seq(Seq(Byte))
  BY <1>1, <1>6
<1> HIDE DEF w, width, q
<1>8. CASE ~r.ok
  <2>1. q = r
    BY <1>8 DEF UnpackItem, q
  <2> QED
    BY <1>3, <1>8, <2>1 DEF q, w, width
<1>9. CASE r.ok /\ item.c \notin UnpackFields
  <2>1. q = [b |-> r.b, big |-> Order(r.big, item.c), n |-> r.n + 1, ok |-> r.ok, out |-> r.out]
    BY <1>1, <1>9 DEF UnpackItem, q
  <2>2. Order(r.big, item.c) \in BOOLEAN
    BY <1>1 DEF Order
  <2>3. q \in UnpackStates
    BY <1>1, <1>4, <2>1, <2>2
  <2>4. q.b = r.b /\ q.big = Order(r.big, item.c) /\ q.ok = r.ok /\ q.out = r.out
    BY <2>1
  <2> QED
    BY <1>3, <1>9, <2>3, <2>4 DEF q, w, width
<1>10. CASE r.ok /\ item.c \in UnpackFields /\ Len(w) < width
  <2>1. q = [b |-> Advanced(r.b, width), big |-> r.big, n |-> r.n, ok |-> FALSE, out |-> r.out]
    BY <1>1, <1>10 DEF UnpackItem, q, w, width
  <2>2. q \in UnpackStates
    BY <1>1, <1>4, <1>5, <2>1
  <2>3. q.b = Advanced(r.b, width) /\ Len(w) # width
    BY <1>1, <1>2, <1>10, <2>1
  <2> QED
    BY <1>3, <1>10, <2>2, <2>3 DEF q, w, width
<1>11. CASE r.ok /\ item.c \in UnpackFields /\ ~(Len(w) < width)
  <2>1. q = [b |-> Advanced(r.b, width), big |-> r.big, n |-> r.n + 1, ok |-> r.ok,
             out |-> Append(r.out, Value(item.c, w, r.big))]
    BY <1>1, <1>11 DEF UnpackItem, q, w, width
  <2>2. q \in UnpackStates
    <3> DEFINE t == Append(r.out, Value(item.c, w, r.big))
    <3>1. t \in Seq(Seq(Byte)) /\ r.n + 1 \in Nat /\ q = [b |-> Advanced(r.b, width), big |-> r.big, n |-> r.n + 1, ok |-> r.ok, out |-> t]
      BY <1>1, <1>7, <2>1
    <3> HIDE DEF t
    <3> QED
      BY <1>1, <1>4, <1>5, <3>1
  <2>3. q.b = Advanced(r.b, width) /\ q.big = r.big /\ q.ok = r.ok /\ q.out = Append(r.out, Value(item.c, w, r.big))
    BY <2>1
  <2> QED
    BY <1>3, <1>11, <2>2, <2>3 DEF q, w, width
<1> QED
  BY <1>8, <1>9, <1>10, <1>11

\* The history of a call of buffer_unpackv.
UnpackRun(b, fmt, g) ==
    /\ g \in [0..Len(fmt) -> UnpackStates]
    /\ g[0] = [b |-> b, big |-> FALSE, n |-> 0, ok |-> TRUE, out |-> <<>>]
    /\ \A i \in 1..Len(fmt) : g[i] = UnpackItem(g[i - 1], fmt[i])

LEMMA UnpackedRuns ==
    ASSUME NEW b, Sound(b), NEW fmt \in Formats
    PROVE  \E g : UnpackRun(b, fmt, g) /\ Unpacked(b, fmt) = g[Len(fmt)]
<1> DEFINE N == Len(fmt)
           start == [b |-> b, big |-> FALSE, n |-> 0, ok |-> TRUE, out |-> <<>>]
           turn == [i \in 1..N |-> [r \in UnpackStates |-> UnpackItem(r, fmt[i])]]
           Loop(f) == f = [i \in 0..N |-> IF i = 0 THEN start ELSE UnpackItem(f[i - 1], fmt[i])]
<1>1. N \in Nat /\ \A i \in 1..N : fmt[i].v \in Seq(Byte)
  BY FormatIs
<1>2. start \in UnpackStates
  BY DEF UnpackStates, Sound
<1>3. turn \in [1..N -> [UnpackStates -> UnpackStates]]
  BY <1>1, UnpackItemIs
<1> HIDE DEF N, start
<1>4. PICK g : History(N, UnpackStates, start, turn, g)
  <2> HIDE DEF turn
  <2>1. N \in Nat
    BY <1>1
  <2> QED
    BY <1>2, <1>3, <2>1, LoopRuns
<1>5. ASSUME NEW i \in 1..N PROVE g[i] = UnpackItem(g[i - 1], fmt[i])
  <2>1. g[i - 1] \in UnpackStates /\ g[i] = turn[i][g[i - 1]]
    BY <1>1, <1>4 DEF History
  <2> QED
    BY <2>1
<1>6. Loop(g)
  <2>1. ASSUME NEW i \in 0..N PROVE g[i] = IF i = 0 THEN start ELSE UnpackItem(g[i - 1], fmt[i])
    BY <1>1, <1>4, <1>5 DEF History
  <2>2. g \in [0..N -> UnpackStates]
    BY <1>4 DEF History
  <2> QED
    BY <2>1, <2>2
<1> DEFINE f == CHOOSE f : Loop(f)
<1>7. Loop(f)
  BY <1>6
<1>8. Unpacked(b, fmt) = f[N]
  BY DEF Unpacked, N, start
<1> HIDE DEF f
<1>9. f[0] = start /\ \A i \in 1..N : f[i] = UnpackItem(f[i - 1], fmt[i])
  BY <1>1, <1>7
<1>10. f \in [0..N -> UnpackStates]
  <2> DEFINE S == {i \in Nat : i <= N => f[i] \in UnpackStates}
  <2>1. 0 \in S
    BY <1>2, <1>9
  <2>2. ASSUME NEW i \in Nat, i \in S PROVE i + 1 \in S
    <3> SUFFICES ASSUME i + 1 <= N PROVE f[i + 1] \in UnpackStates
      OBVIOUS
    <3>1. i + 1 \in 1..N /\ (i + 1) - 1 = i /\ f[i] \in UnpackStates
      BY <1>1, <2>2
    <3>2. f[i + 1] = UnpackItem(f[i], fmt[i + 1])
      BY <1>9, <3>1
    <3> QED
      BY <1>1, <3>1, <3>2, UnpackItemIs
  <2> HIDE DEF S
  <2>3. \A i \in Nat : i \in S
    BY <2>1, <2>2, SetInduction
  <2> QED
    BY <1>7, <2>3 DEF S
<1> QED
  BY <1>8, <1>9, <1>10 DEF UnpackRun, N, start

LEMMA UnpackedMoves ==
    ASSUME NEW b, Sound(b), NEW fmt \in Formats, NEW g, UnpackRun(b, fmt, g), NEW j \in 0..Len(fmt)
    PROVE  Moved(b, g[j].b) /\ b.pos <= g[j].b.pos
<1> DEFINE N == Len(fmt)
           S == {n \in Nat : n <= N => Moved(b, g[n].b) /\ b.pos <= g[n].b.pos}
<1>1. N \in Nat /\ \A m \in 1..N : fmt[m].v \in Seq(Byte)
  BY FormatIs
<1>2. \A m \in 0..N : g[m] \in UnpackStates
  BY DEF UnpackRun
<1>3. \A m \in 0..N : g[m].b.pos \in Nat
  <2>1. \A m \in 0..N : Sound(g[m].b)
    BY <1>2 DEF UnpackStates, Sound
  <2> QED
    BY <2>1, SoundIs
<1>4. 0 \in S
  <2>1. g[0].b = b /\ b.pos \in Nat
    BY SoundIs DEF UnpackRun
  <2> QED
    BY <2>1 DEF Moved
<1> HIDE DEF N
<1>5. ASSUME NEW n \in Nat, n \in S PROVE n + 1 \in S
  <2> SUFFICES ASSUME n + 1 <= N PROVE Moved(b, g[n + 1].b) /\ b.pos <= g[n + 1].b.pos
    OBVIOUS
  <2>1. n \in 0..N /\ n + 1 \in 1..N /\ n + 1 \in 0..N /\ (n + 1) - 1 = n /\ b.pos \in Nat
    BY <1>1, SoundIs
  <2>2. Moved(b, g[n].b) /\ b.pos <= g[n].b.pos
    BY <1>5, <2>1
  <2>3. g[n + 1] = UnpackItem(g[n], fmt[n + 1])
    BY <2>1 DEF UnpackRun, N
  <2>4. Moved(g[n].b, g[n + 1].b) /\ g[n].b.pos <= g[n + 1].b.pos
    BY <1>1, <1>2, <2>1, <2>3, UnpackItemIs
  <2>5. g[n].b.pos \in Nat /\ g[n + 1].b.pos \in Nat
    BY <1>3, <2>1
  <2>6. b.pos <= g[n + 1].b.pos
    BY <2>1, <2>2, <2>4, <2>5
  <2> QED
    BY <2>2, <2>4, <2>6 DEF Moved
<1> HIDE DEF S
<1>6. \A n \in Nat : n \in S
  BY <1>4, <1>5, SetInduction
<1> QED
  BY <1>1, <1>6 DEF S, N

-----------------------------------------------------------------------------
(* Unpacking what was packed *)

\* The values collected so far.
ValueLists == Seq(Seq(Byte))

LEMMA WithValueIs ==
    ASSUME NEW vs \in ValueLists, NEW item, item.v \in Seq(Byte)
    PROVE  WithValue(vs, item) \in ValueLists
BY DEF WithValue, ValueLists

ValuesSoFar(fmt, g) ==
    /\ g \in [0..Len(fmt) -> ValueLists]
    /\ g[0] = <<>>
    /\ \A i \in 1..Len(fmt) : g[i] = WithValue(g[i - 1], fmt[i])

LEMMA ValuesRun ==
    ASSUME NEW fmt \in Formats
    PROVE  \E g : ValuesSoFar(fmt, g) /\ Values(fmt) = g[Len(fmt)]
<1> DEFINE N == Len(fmt)
           start == <<>>
           turn == [i \in 1..N |-> [r \in ValueLists |-> WithValue(r, fmt[i])]]
           Loop(f) == f = [i \in 0..N |-> IF i = 0 THEN start ELSE WithValue(f[i - 1], fmt[i])]
<1>1. N \in Nat /\ \A i \in 1..N : fmt[i].v \in Seq(Byte)
  BY FormatIs
<1>2. start \in ValueLists
  BY DEF ValueLists
<1>3. turn \in [1..N -> [ValueLists -> ValueLists]]
  BY <1>1, WithValueIs
<1> HIDE DEF N, start
<1>4. PICK g : History(N, ValueLists, start, turn, g)
  <2> HIDE DEF turn
  <2>1. N \in Nat
    BY <1>1
  <2> QED
    BY <1>2, <1>3, <2>1, LoopRuns
<1>5. ASSUME NEW i \in 1..N PROVE g[i] = WithValue(g[i - 1], fmt[i])
  <2>1. g[i - 1] \in ValueLists /\ g[i] = turn[i][g[i - 1]]
    BY <1>1, <1>4 DEF History
  <2> QED
    BY <2>1
<1>6. Loop(g)
  <2>1. ASSUME NEW i \in 0..N PROVE g[i] = IF i = 0 THEN start ELSE WithValue(g[i - 1], fmt[i])
    BY <1>1, <1>4, <1>5 DEF History
  <2>2. g \in [0..N -> ValueLists]
    BY <1>4 DEF History
  <2> QED
    BY <2>1, <2>2
<1> DEFINE f == CHOOSE f : Loop(f)
<1>7. Loop(f)
  BY <1>6
<1>8. Values(fmt) = f[N]
  BY DEF Values, N, start
<1> HIDE DEF f
<1>9. f[0] = start /\ \A i \in 1..N : f[i] = WithValue(f[i - 1], fmt[i])
  BY <1>1, <1>7
<1>10. f \in [0..N -> ValueLists]
  <2> DEFINE S == {i \in Nat : i <= N => f[i] \in ValueLists}
  <2>1. 0 \in S
    BY <1>2, <1>9
  <2>2. ASSUME NEW i \in Nat, i \in S PROVE i + 1 \in S
    <3> SUFFICES ASSUME i + 1 <= N PROVE f[i + 1] \in ValueLists
      OBVIOUS
    <3>1. i + 1 \in 1..N /\ (i + 1) - 1 = i /\ f[i] \in ValueLists
      BY <1>1, <2>2
    <3>2. f[i + 1] = WithValue(f[i], fmt[i + 1])
      BY <1>9, <3>1
    <3> QED
      BY <1>1, <3>1, <3>2, WithValueIs
  <2> HIDE DEF S
  <2>3. \A i \in Nat : i \in S
    BY <2>1, <2>2, SetInduction
  <2> QED
    BY <1>7, <2>3 DEF S
<1> QED
  BY <1>8, <1>9, <1>10 DEF ValuesSoFar, N, start

\* A turn of buffer_unpackv on what the same turn of buffer_packv wrote: f is the
\* buffer when everything is packed.
Mirrors(r, u, f) ==
    u.ok /\ u.big = r.big /\ u.b.data = f.data /\ u.b.pos = r.b.len /\ u.b.len = f.len

LEMMA CounterpartIs ==
    ASSUME NEW item \in Items
    PROVE  LET other == Counterpart(item)
           IN  /\ other.v = item.v /\ (item.c \in PackFields <=> other.c \in UnpackFields)
               /\ \A w, big : Value(other.c, w, big) = Value(item.c, w, big)
               /\ \A big : Order(big, other.c) = Order(big, item.c)
               /\ other \in Items
<1> DEFINE other == Counterpart(item)
<1>1. /\ other.v = item.v
      /\ other.c = IF item.c = "Q" THEN "L" ELSE IF item.c = "L" THEN "Q" ELSE item.c
      /\ (item.c \notin {"Q", "L"} => other = item)
      /\ (item.c \in {"Q", "L"} => other \in Items)
  BY DEF Counterpart, Items
<1> HIDE DEF other
<1> QED
  BY <1>1 DEF PackFields, UnpackFields, Value, Numbers, Order, other

LEMMA TurnsMirror ==
    ASSUME NEW item \in Items, item.v \in Seq(Byte), NEW r \in PackStates, NEW f, Sound(f),
           PackItem(r, item).ok, Grown(PackItem(r, item).b, f),
           NEW u \in UnpackStates, Mirrors(r, u, f)
    PROVE  LET v == UnpackItem(u, Counterpart(item))
           IN  Mirrors(PackItem(r, item), v, f) /\ v.out = WithValue(u.out, item)
<1> DEFINE other == Counterpart(item)
           q == PackItem(r, item)
           w == Wire(item, r.big)
           width == Len(item.v)
           got == ReadOut(u.b, width)
           v == UnpackItem(u, other)
<1>1. /\ q \in PackStates /\ Grown(r.b, q.b) /\ q.ok /\ r.ok
      /\ item.c \in PackFields => q.big = r.big /\ q.b = Written(r.b, w) /\ Len(w) <= Free(r.b)
      /\ item.c \notin PackFields => q.big = Order(r.big, item.c) /\ q.b = r.b
  BY PackItemIs
<1>2. /\ v \in UnpackStates /\ Moved(u.b, v.b) /\ u.b.pos <= v.b.pos
      /\ u.ok /\ item.c \in PackFields /\ Len(got) = width =>
           v.ok /\ v.big = u.big /\ v.b = Advanced(u.b, width) /\ v.out = Append(u.out, Value(item.c, got, u.big))
      /\ u.ok /\ item.c \notin PackFields => v.ok /\ v.big = Order(u.big, item.c) /\ v.b = u.b /\ v.out = u.out
  <2>1. /\ other.v = item.v /\ (item.c \in PackFields <=> other.c \in UnpackFields)
        /\ \A w2, g2 : Value(other.c, w2, g2) = Value(item.c, w2, g2)
        /\ \A g2 : Order(g2, other.c) = Order(g2, item.c)
    BY CounterpartIs
  <2> HIDE DEF other
  <2>2. /\ v \in UnpackStates /\ Moved(u.b, v.b) /\ u.b.pos <= v.b.pos
        /\ u.ok /\ other.c \in UnpackFields /\ Len(got) = width =>
             v.ok /\ v.big = u.big /\ v.b = Advanced(u.b, width) /\ v.out = Append(u.out, Value(other.c, got, u.big))
        /\ u.ok /\ other.c \notin UnpackFields => v.ok /\ v.big = Order(u.big, other.c) /\ v.b = u.b /\ v.out = u.out
    BY <2>1, UnpackItemIs
  <2> QED
    BY <2>1, <2>2
<1>3. Grown(q.b, f)
  OBVIOUS
<1> HIDE DEF q, v
<1>4. u.ok /\ u.big = r.big /\ u.b.data = f.data /\ u.b.pos = r.b.len /\ u.b.len = f.len
  BY DEF Mirrors
<1>5. Sound(r.b) /\ Sound(u.b) /\ r.big \in BOOLEAN /\ width \in Nat
  BY DEF PackStates, UnpackStates, Sound
<1>6. CASE item.c \notin PackFields
  BY <1>1, <1>2, <1>4, <1>6 DEF Mirrors, WithValue, q, v
<1>7. CASE item.c \in PackFields
  <2>1. w \in Seq(Byte) /\ Len(w) = width /\ Value(item.c, w, r.big) = item.v
    BY <1>5, WireIs
  <2>2. q.b.len = r.b.len + width /\ \A x \in 1..width : q.b.data[r.b.len + x] = w[x]
    BY <1>1, <1>5, <1>7, <2>1, WrittenGrows
  <2> HIDE DEF w, width
  <2>3. r.b.len \in Nat /\ f.len \in Nat /\ Size(u.b) = u.b.len - u.b.pos
    BY <1>5, SoundIs
  <2>4. q.b.len <= f.len /\ \A x \in 1..q.b.len : f.data[x] = q.b.data[x]
    BY <1>3 DEF Grown
  <2>5. width <= Size(u.b) /\ Size(u.b) \in Nat
    BY <1>4, <1>5, <2>2, <2>3, <2>4
  <2>6. Lesser(width, Size(u.b)) = width
    BY <1>5, <2>5, LesserIs
  <2>7. /\ got \in Seq(Byte) /\ Len(got) = width
        /\ \A x \in 1..width : got[x] = u.b.data[u.b.pos + x]
    BY <1>5, <2>6, ReadOutIs
  <2>8. got = w
    <3>1. ASSUME NEW x \in 1..width PROVE got[x] = w[x]
      <4>1. r.b.len + x \in 1..q.b.len
        BY <1>5, <2>2, <2>3
      <4>2. f.data[r.b.len + x] = q.b.data[r.b.len + x]
        BY <2>4, <4>1
      <4>3. got[x] = f.data[r.b.len + x]
        BY <1>4, <2>7
      <4> QED
        BY <2>2, <4>2, <4>3
    <3> QED
      BY <2>1, <2>7, <3>1, SeqEqual
  <2>9. v.ok /\ v.big = r.big /\ v.b = Advanced(u.b, width) /\ v.out = Append(u.out, item.v)
    BY <1>2, <1>4, <1>7, <2>1, <2>7, <2>8
  <2>10. v.b.pos = u.b.pos + width /\ v.b.data = u.b.data /\ v.b.len = u.b.len
    <3>1. Advanced(u.b, width).pos = u.b.pos + Lesser(width, Size(u.b))
      BY <1>5, CursorMoves
    <3>2. v.b.data = u.b.data /\ v.b.len = u.b.len
      BY <1>2 DEF Moved
    <3> QED
      BY <2>6, <2>9, <3>1, <3>2
  <2> QED
    BY <1>1, <1>4, <1>7, <2>2, <2>9, <2>10 DEF Mirrors, WithValue, q, v
<1> QED
  BY <1>6, <1>7

LEMMA ItemsOf == ASSUME NEW fmt \in Formats PROVE \A i \in 1..Len(fmt) : fmt[i] \in Items
BY CapAssumption DEF Formats

LEMMA ReadingIs ==
    ASSUME NEW fmt \in Formats
    PROVE  /\ Reading(fmt) \in Formats /\ Len(Reading(fmt)) = Len(fmt)
           /\ \A i \in 1..Len(fmt) : Reading(fmt)[i] = Counterpart(fmt[i])
<1>1. PICK n \in 0..MaxField + 1 : fmt \in [1..n -> Items]
  BY DEF Formats
<1>2. n \in Nat /\ Len(fmt) = n /\ DOMAIN fmt = 1..n
  BY <1>1, CapAssumption
<1>3. \A i \in 1..n : Counterpart(fmt[i]) \in Items
  BY <1>1, CounterpartIs
<1>4. Reading(fmt) = [i \in 1..n |-> Counterpart(fmt[i])]
  BY <1>2 DEF Reading
<1>5. Reading(fmt) \in [1..n -> Items] /\ Len(Reading(fmt)) = n
  BY <1>2, <1>3, <1>4
<1> QED
  BY <1>2, <1>4, <1>5 DEF Formats

\* What was packed into an empty buffer, or behind what was read, comes back.
LEMMA PackedComesBack ==
    ASSUME NEW b, Sound(b), b.pos = b.len, NEW fmt \in Formats, Packed(b, fmt).ok
    PROVE  LET u == Unpacked(Packed(b, fmt).b, Reading(fmt)) IN u.ok /\ u.out = Values(fmt) /\ u.b.pos = u.b.len
<1> DEFINE N == Len(fmt)
           back == Reading(fmt)
           f == Packed(b, fmt).b
<1>1. PICK g : PackRun(b, fmt, g) /\ Packed(b, fmt) = g[N]
  BY PackedRuns
<1>2. N \in Nat /\ \A i \in 1..N : fmt[i] \in Items /\ fmt[i].v \in Seq(Byte)
  BY FormatIs, ItemsOf
<1>12. back \in Formats /\ Len(back) = N /\ \A i \in 1..N : back[i] = Counterpart(fmt[i])
  BY ReadingIs
<1>3. ASSUME NEW i \in 0..N PROVE g[i] \in PackStates /\ Sound(g[i].b) /\ g[i].ok /\ Grown(g[i].b, f)
  <2>1. N \in i..Len(fmt) /\ i \in 0..Len(fmt)
    BY <1>2
  <2>2. Grown(g[i].b, g[N].b) /\ (g[N].ok => g[i].ok)
    BY <1>1, <2>1, PackedGrows
  <2>3. g[i] \in PackStates
    BY <1>1 DEF PackRun
  <2> QED
    BY <1>1, <2>2, <2>3 DEF PackStates, Sound
<1>4. Sound(f)
  BY <1>1, <1>2, <1>3
<1>5. PICK h : UnpackRun(f, back, h) /\ Unpacked(f, back) = h[N]
  BY <1>4, <1>12, UnpackedRuns
<1>6. PICK vs : ValuesSoFar(fmt, vs) /\ Values(fmt) = vs[N]
  BY ValuesRun
<1> HIDE DEF N, f, back
<1> DEFINE S == {i \in Nat : i <= N => Mirrors(g[i], h[i], f) /\ h[i].out = vs[i]}
<1>7. 0 \in S
  <2>1. g[0].b = b /\ g[0].big = FALSE
    BY <1>1 DEF PackRun
  <2>2. h[0].b = f /\ h[0].big = FALSE /\ h[0].ok /\ h[0].out = <<>> /\ vs[0] = <<>>
    BY <1>5, <1>6 DEF UnpackRun, ValuesSoFar
  <2>3. 0 \in 0..N
    BY <1>2
  <2>4. f.pos = b.pos
    BY <1>3, <2>1, <2>3 DEF Grown
  <2> QED
    BY <2>1, <2>2, <2>4 DEF Mirrors
<1>8. ASSUME NEW i \in Nat, i \in S PROVE i + 1 \in S
  <2> SUFFICES ASSUME i + 1 <= N PROVE Mirrors(g[i + 1], h[i + 1], f) /\ h[i + 1].out = vs[i + 1]
    OBVIOUS
  <2>1. i \in 0..N /\ i + 1 \in 0..N /\ i + 1 \in 1..N /\ (i + 1) - 1 = i
    BY <1>2
  <2>2. Mirrors(g[i], h[i], f) /\ h[i].out = vs[i]
    BY <1>8, <2>1
  <2>3. g[i + 1] = PackItem(g[i], fmt[i + 1])
    BY <1>1, <2>1 DEF PackRun, N
  <2>4. h[i + 1] = UnpackItem(h[i], Counterpart(fmt[i + 1])) /\ h[i] \in UnpackStates
    BY <1>5, <1>12, <2>1 DEF UnpackRun
  <2>5. vs[i + 1] = WithValue(vs[i], fmt[i + 1])
    BY <1>6, <2>1 DEF ValuesSoFar, N
  <2>6. g[i] \in PackStates /\ g[i + 1].ok /\ Grown(g[i + 1].b, f) /\ fmt[i + 1] \in Items /\ fmt[i + 1].v \in Seq(Byte)
    BY <1>2, <1>3, <2>1
  <2> QED
    BY <1>4, <2>2, <2>3, <2>4, <2>5, <2>6, TurnsMirror
<1> HIDE DEF S
<1>9. N \in S
  BY <1>2, <1>7, <1>8, SetInduction
<1>10. Mirrors(g[N], h[N], f) /\ h[N].out = vs[N]
  BY <1>2, <1>9 DEF S
<1>11. g[N].b = f
  BY <1>1 DEF f
<1> QED
  BY <1>5, <1>6, <1>10, <1>11 DEF Mirrors, f, back

-----------------------------------------------------------------------------
(* The steps *)

LEMMA Initial == BufferInit => Sound(buf) /\ Queue!Init
<1> SUFFICES ASSUME BufferInit PROVE Sound(buf) /\ Queue!Init
  OBVIOUS
<1>1. buf.data \in [1..Cap -> Byte] /\ buf.pos = 0 /\ buf.len = 0 /\ buf = [data |-> buf.data, pos |-> 0, len |-> 0]
  BY DEF BufferInit
<1>2. Sound(buf)
  BY <1>1, CapAssumption DEF Sound, Buffers
<1>3. SubSeq(buf.data, 1, 0) = <<>>
  BY SubSeqEmpty
<1> QED
  BY <1>1, <1>2, <1>3 DEF Queue!Init

LEMMA TextIs == ASSUME NEW s \in Texts PROVE s \in Seq(Byte) /\ Len(s) \in Nat
BY CapAssumption DEF Texts

\* Giving up everything.
LEMMA ClearedRetreats ==
    ASSUME NEW b, Sound(b), NEW d \in [1..Cap -> Byte]
    PROVE  Retreated(b, [data |-> d, pos |-> 0, len |-> 0], b.len)
<1>1. b.pos \in Nat /\ b.len \in Nat /\ b.pos <= b.len /\ 0 \in 0..Cap
  BY SoundIs
<1>2. Cursor(b.pos, b.len) = 0 /\ b.len - b.len = 0 /\ b.len \in 0..b.len
  BY <1>1 DEF Cursor
<1>3. Sound([data |-> d, pos |-> 0, len |-> 0])
  BY <1>1 DEF Sound, Buffers
<1> QED
  BY <1>1, <1>2, <1>3 DEF Retreated

LEMMA StepsAreTheQueues ==
    ASSUME Sound(buf), BufferNext
    PROVE  \/ buf' = buf
           \/ Grown(buf, buf')
           \/ Moved(buf, buf')
           \/ \E n : Retreated(buf, buf', n)
<1> USE CapAssumption
<1>0. \A n \in 0..MaxLen : n \in Nat
  OBVIOUS
<1>1. CASE BufferRead
  BY <1>0, <1>1, CursorMoves DEF BufferRead
<1>2. CASE BufferWrite
  BY <1>2, TextIs, WrittenGrows DEF BufferWrite
<1>3. CASE BufferUnread
  BY <1>0, <1>3, CursorMoves DEF BufferUnread
<1>4. CASE BufferRewind
  <2>1. Moved(buf, [buf EXCEPT !.pos = 0])
    BY CursorMoves
  <2> QED
    BY <1>4, <2>1 DEF BufferRewind
<1>5. CASE BufferReserve
  BY <1>0, <1>5, CursorMoves DEF BufferReserve
<1>6. CASE BufferRetract
  BY <1>0, <1>6, RetractedRetreats DEF BufferRetract
<1>7. CASE BufferPrepare
  <2>1. PICK n \in 0..MaxLen : buf' = Prepared(buf, n)
    BY <1>7 DEF BufferPrepare
  <2>2. Shortfall(buf, n) \in Nat
    BY <1>0, SoundIs DEF Shortfall
  <2> QED
    BY <2>1, <2>2, RetractedRetreats DEF Prepared
<1>8. CASE BufferClear
  <2>1. buf = [data |-> buf.data, pos |-> buf.pos, len |-> buf.len] /\ buf.data \in [1..Cap -> Byte]
    BY SoundIs
  <2>2. buf' = [data |-> buf.data, pos |-> 0, len |-> 0]
    BY <1>8, <2>1 DEF BufferClear
  <2> QED
    BY <2>1, <2>2, ClearedRetreats
<1>9. CASE BufferZero
  <2>1. PICK z \in Byte : buf' = [data |-> [i \in 1..Cap |-> z], pos |-> 0, len |-> 0]
    BY <1>9 DEF BufferZero
  <2>2. [i \in 1..Cap |-> z] \in [1..Cap -> Byte]
    OBVIOUS
  <2> QED
    BY <2>1, <2>2, ClearedRetreats
<1>10. CASE BufferAppend
  BY <1>10, TextIs, WrittenGrows DEF BufferAppend
<1>11. CASE BufferAppendString
  BY <1>11, TextIs, WrittenGrows DEF BufferAppendString
<1>12. CASE BufferPack
  <2>1. PICK fmt \in Formats : buf' = Packed(buf, fmt).b
    BY <1>12 DEF BufferPack
  <2>2. PICK g : PackRun(buf, fmt, g) /\ Packed(buf, fmt) = g[Len(fmt)]
    BY PackedRuns
  <2>3. 0 \in 0..Len(fmt) /\ Len(fmt) \in 0..Len(fmt)
    BY FormatIs
  <2>4. Grown(g[0].b, g[Len(fmt)].b)
    BY <2>2, <2>3, PackedGrows
  <2>5. g[0].b = buf
    BY <2>2 DEF PackRun
  <2> QED
    BY <2>1, <2>2, <2>4, <2>5
<1>13. CASE BufferUnpack
  <2>1. PICK fmt \in Formats : buf' = Unpacked(buf, fmt).b
    BY <1>13 DEF BufferUnpack
  <2>2. PICK g : UnpackRun(buf, fmt, g) /\ Unpacked(buf, fmt) = g[Len(fmt)]
    BY UnpackedRuns
  <2>3. Len(fmt) \in 0..Len(fmt)
    BY FormatIs
  <2>4. Moved(buf, g[Len(fmt)].b)
    BY <2>2, <2>3, UnpackedMoves
  <2> QED
    BY <2>1, <2>2, <2>4
<1> QED
  BY <1>1, <1>2, <1>3, <1>4, <1>5, <1>6, <1>7, <1>8, <1>9, <1>10, <1>11, <1>12, <1>13 DEF BufferNext

LEMMA SoundAlways == BufferSpec => []Sound(buf)
<1>1. Sound(buf) /\ [BufferNext]_buf => Sound(buf)'
  BY StepsAreTheQueues DEF Grown, Moved, Retreated
<1> QED
  BY <1>1, Initial, PTL DEF BufferSpec

-----------------------------------------------------------------------------
\* The cursors of a buffer are never out of order, so that buffer_size and
\* buffer_free do not wrap around.
THEOREM CursorsStayInOrder == BufferSpec => []CursorsInOrder
<1>1. Sound(buf) => CursorsInOrder
  BY DEF Sound, CursorsInOrder
<1> QED
  BY <1>1, SoundAlways, PTL

\* Whatever is done to a buffer, of whatever size, its bytes come out in the order
\* they went in and the oldest are given up first.
THEOREM BufferIsQueue == BufferSpec => IsQueue
<1>1. BufferInit => Queue!Init
  BY Initial
<1>2. Sound(buf) /\ [BufferNext]_buf => [Queue!Next]_<<SubSeq(buf.data, 1, buf.pos), SubSeq(buf.data, buf.pos + 1, buf.len)>>
  <2> SUFFICES ASSUME Sound(buf), BufferNext, buf' # buf PROVE Queue!Next
    OBVIOUS
  <2>1. CASE Grown(buf, buf')
    BY <2>1, GrownIsWrite DEF Queue!Next
  <2>2. CASE Moved(buf, buf')
    <3>1. buf.pos \in Nat /\ buf'.pos \in Nat
      BY <2>2, SoundIs DEF Moved
    <3>2. buf.pos <= buf'.pos \/ buf'.pos <= buf.pos
      BY <3>1
    <3> QED
      BY <2>2, <3>2, MovedIsRead, MovedIsUnread DEF Queue!Next
  <2>3. ASSUME NEW n, Retreated(buf, buf', n) PROVE Queue!Next
    BY <2>3, RetreatedIsForget DEF Queue!Next
  <2> QED
    BY <2>1, <2>2, <2>3, StepsAreTheQueues
<1> QED
  BY <1>1, <1>2, SoundAlways, PTL DEF BufferSpec, IsQueue, Queue!Spec, Queue!vars

\* Unpacking by the counterpart of a format gives back what was packed, for formats
\* of any length.
THEOREM PackingRoundTrips == BufferSpec => []RoundTrip
<1>1. Sound(buf) => RoundTrip
  BY PackedComesBack DEF RoundTrip
<1> QED
  BY <1>1, SoundAlways, PTL

=============================================================================
