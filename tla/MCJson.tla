------------------------------- MODULE MCJson -------------------------------
(***************************************************************************)
(* A stack as deep as the documents, which any characters overflow, and a  *)
(* buffer of two characters.                                               *)
(***************************************************************************)
EXTENDS JsonDocs
=============================================================================
