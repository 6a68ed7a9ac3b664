---------------------------- MODULE MCObservers ----------------------------
(***************************************************************************)
(* Small instance of Observers: three observers, so that one can be        *)
(* deleted on either side of the one being called.                         *)
(***************************************************************************)
EXTENDS Observers
=============================================================================
