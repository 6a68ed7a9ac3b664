----------------------------- MODULE ByteQueue -----------------------------
(***************************************************************************)
(* What util/buffer.c promises: a queue of bytes of limited capacity that  *)
(* remembers what was read until room is made, so that it can be unread.   *)
(***************************************************************************)
EXTENDS Naturals, Sequences

CONSTANTS Byte, Cap

VARIABLES past, unread   \* bytes read and still kept, bytes to be read

vars == <<past, unread>>

Kept == past \o unread
Room == Cap - Len(Kept)

Take(s, n) == SubSeq(s, 1, n)
Drop(s, n) == SubSeq(s, n + 1, Len(s))

Init == past = <<>> /\ unread = <<>>

\* Bytes are added at the end, as many as there is room for.
Write == \E n \in 0..Room : \E s \in [1..n -> Byte] : unread' = unread \o s /\ UNCHANGED past

Read == \E n \in 0..Len(unread) : past' = past \o Take(unread, n) /\ unread' = Drop(unread, n)

Unread ==
    \E n \in 0..Len(past) : past' = Take(past, n) /\ unread' = Drop(past, n) \o unread

\* The oldest bytes are given up, those already read first.
Forget ==
    \E n \in 0..Len(Kept) :
        \/ n <= Len(past) /\ past' = Drop(past, n) /\ UNCHANGED unread
        \/ n > Len(past) /\ past' = <<>> /\ unread' = Drop(unread, n - Len(past))

Next == Write \/ Read \/ Unread \/ Forget
Spec == Init /\ [][Next]_vars
=============================================================================
