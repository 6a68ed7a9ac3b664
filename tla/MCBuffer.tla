------------------------------ MODULE MCBuffer ------------------------------
(***************************************************************************)
(* A buffer of four bytes, of two values, and calls of up to five.         *)
(***************************************************************************)
EXTENDS Buffer
=============================================================================
