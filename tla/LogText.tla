------------------------------ MODULE LogText ------------------------------
(***************************************************************************)
(* What core/logger.c promises: the log is the last LOG_SIZE bytes of      *)
(* everything written since it was cleared, and log_str returns it.        *)
(***************************************************************************)
EXTENDS Naturals, Sequences

CONSTANTS
    Texts,  \* what one call can write
    Size    \* LOG_SIZE

VARIABLES
    log,    \* the text of the log
    out     \* what log_str returned last

vars == <<log, out>>

Latest(s) == IF Len(s) <= Size THEN s ELSE SubSeq(s, Len(s) - Size + 1, Len(s))

Init == log = <<>> /\ out = <<>>

Write == (\E s \in Texts : log' = Latest(log \o s)) /\ UNCHANGED out
Clear == log' = <<>> /\ UNCHANGED out
Read  == out' = log /\ UNCHANGED log

Next == Write \/ Clear \/ Read
Spec == Init /\ [][Next]_vars
=============================================================================
