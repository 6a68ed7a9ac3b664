----------------------------- MODULE MCWireless -----------------------------
(***************************************************************************)
(* Small instance of Wireless.  The model needs no bound of its own: the   *)
(* queue's capacity and the retry budget make its states finite, so calls  *)
(* repeat for ever.                                                        *)
(***************************************************************************)
EXTENDS Wireless
=============================================================================
