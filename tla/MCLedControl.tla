---------------------------- MODULE MCLedControl ----------------------------
(***************************************************************************)
(* Two channels and two pins, so that a channel can move to the pin that   *)
(* another one gave up.  Patterns have two bits: dark at first, then half  *)
(* lit.                                                                    *)
(***************************************************************************)
EXTENDS LedControl

HalfLit == {[b \in {0, 1} |-> b]}
=============================================================================
