---------------------------- MODULE MCSerialPort ----------------------------
(***************************************************************************)
(* Small instance of SerialPort: two rates and two words per window are    *)
(* what a mixed measurement needs.                                         *)
(***************************************************************************)
EXTENDS SerialPort
=============================================================================
