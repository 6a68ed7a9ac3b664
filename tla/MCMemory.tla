------------------------------ MODULE MCMemory ------------------------------
(***************************************************************************)
(* What is handed out and taken back: the two allocators of core/, arena   *)
(* and pool, and the sockets of util/net.c.  They share nothing, so that a *)
(* behaviour uses one of them.  An arena of whole and one of broken        *)
(* multiples of the alignment, with requests on both sides of a multiple;  *)
(* a pool small enough to be exhausted and returned more than once, with   *)
(* pointers to the start of a block and into it; more sockets asked for    *)
(* than there are descriptors.                                             *)
(***************************************************************************)
EXTENDS Arena, Mempool, Net

MemoryInit == Init /\ PoolInit /\ NetInit

OnlyArena == PoolInit /\ NetInit /\ Next /\ UNCHANGED <<poolVars, netVars>>
OnlyPool  == Init /\ NetInit /\ PoolNext /\ UNCHANGED <<vars, netVars>>
OnlyNet   == Init /\ PoolInit /\ NetNext /\ UNCHANGED <<vars, poolVars>>

MemorySpec == MemoryInit /\ [][OnlyArena \/ OnlyPool \/ OnlyNet]_<<vars, poolVars, netVars>>

Asked == {{}, {"connect"}, {"bind", "listen"}, {"bind", "connect", "flags"}}
=============================================================================
