------------------------------- MODULE Buffer -------------------------------
(***************************************************************************)
(* util/buffer.c and util/buffer.h: a caller's array with a read and a     *)
(* write cursor, and the packing of values into it.  A buffer is used by   *)
(* one task.                                                               *)
(***************************************************************************)
EXTENDS Naturals, Sequences, SequencesExt

CONSTANTS
    Byte,    \* the values of a byte
    Cap,     \* buffer.cap
    MaxLen,  \* bound: bytes given to or asked from one call
    MaxField \* bound: bytes of a packed field; a format has one item more

ASSUME CapAssumption == Cap \in Nat /\ MaxLen \in Nat /\ MaxField \in Nat \ {0}

VARIABLE buf   \* data, pos and len

Buffers == [data : [1..Cap -> Byte], pos : 0..Cap, len : 0..Cap]

Texts == UNION {[1..n -> Byte] : n \in 0..MaxLen}

Lesser(a, b) == IF a < b THEN a ELSE b

Size(b) == b.len - b.pos
Free(b) == Cap - b.len

-----------------------------------------------------------------------------
(* The operations, on a buffer b *)

\* buffer_read: the cursor moves by what there is.
Advanced(b, n) == [b EXCEPT !.pos = @ + Lesser(n, Size(b))]
ReadOut(b, n)  == SubSeq(b.data, b.pos + 1, b.pos + Lesser(n, Size(b)))

\* buffer_write: what does not fit is left out.
Written(b, s) ==
    LET n == Lesser(Len(s), Free(b))
    IN  [data |-> [i \in 1..Cap |-> IF i > b.len /\ i <= b.len + n THEN s[i - b.len] ELSE b.data[i]],
         pos |-> b.pos, len |-> b.len + n]

\* buffer_unread, buffer_reserve.
Unread(b, n)   == [b EXCEPT !.pos = @ - Lesser(n, b.pos)]
Reserved(b, n) == [b EXCEPT !.len = @ + Lesser(n, Free(b))]

\* Faulty variant: the read cursor stays.
CursorKept(pos, n) == pos

\* The read cursor after the first n bytes are gone.
Cursor(pos, n) == IF n < pos THEN pos - n ELSE 0

\* buffer_retract: memmove of the whole array.
Retracted(b, count) ==
    LET n == Lesser(count, b.len)
    IN  [data |-> [i \in 1..Cap |-> IF i + n <= Cap THEN b.data[i + n] ELSE b.data[i]],
         pos |-> Cursor(b.pos, n), len |-> b.len - n]

\* How many bytes buffer_prepare retracts.
Shortfall(b, n) == IF n > Free(b) THEN n - Free(b) ELSE 0

Prepared(b, n) == IF Shortfall(b, n) > 0 THEN Retracted(b, Shortfall(b, n)) ELSE b

-----------------------------------------------------------------------------
(* buffer_pack and buffer_unpack: an item of a format is a letter with the *)
(* bytes of its value in memory order; "<" and ">" switch the byte order,  *)
(* "W" stands for every integer of up to 32 bits (B, W, D, b, w, d), "S"   *)
(* for a string.  A 64-bit integer has the letter "Q" (Q, q) when it is    *)
(* packed and "L" (L, l) when it is unpacked.  Any other letter is skipped.*)

PackFields   == {"W", "Q", "S"}
UnpackFields == {"W", "L", "S"}

\* The items whose bytes depend on the order.
Numbers == {"W", "Q", "L"}

\* Bytes of an item on the wire.
Wire(item, big) == IF item.c \in Numbers /\ big THEN Reverse(item.v) ELSE item.v

Order(big, c) == IF c = "<" THEN FALSE ELSE IF c = ">" THEN TRUE ELSE big

\* The turn of the loop of buffer_packv for an item: r is the buffer, the byte order,
\* the items done and whether all fields fitted.
PackItem(r, item) ==
    LET w == Wire(item, r.big)
    IN  IF ~r.ok THEN r
        ELSE IF item.c \notin PackFields THEN [r EXCEPT !.big = Order(@, item.c), !.n = @ + 1]
        ELSE IF Len(w) <= Free(r.b) THEN [r EXCEPT !.b = Written(@, w), !.n = @ + 1]
        ELSE [r EXCEPT !.b = Written(@, w), !.ok = FALSE]

\* buffer_packv with the items fmt.
Packed(b, fmt) ==
    LET turn[i \in 0..Len(fmt)] ==
            IF i = 0 THEN [b |-> b, big |-> FALSE, n |-> 0, ok |-> TRUE] ELSE PackItem(turn[i - 1], fmt[i])
    IN  turn[Len(fmt)]

\* Faulty variant: a string is taken for an integer.
ValueSwapped(c, w, big) == IF big THEN Reverse(w) ELSE w

\* The value of a field that was read.
Value(c, w, big) == IF c \in Numbers /\ big THEN Reverse(w) ELSE w

\* The turn of buffer_unpackv for an item: out collects the values.  A field that is
\* not there in full is taken off the buffer all the same.
UnpackItem(r, item) ==
    LET size == Len(item.v)
        w == ReadOut(r.b, size)
    IN  IF ~r.ok THEN r
        ELSE IF item.c \notin UnpackFields THEN [r EXCEPT !.big = Order(@, item.c), !.n = @ + 1]
        ELSE IF Len(w) < size THEN [r EXCEPT !.b = Advanced(@, size), !.ok = FALSE]
        ELSE [r EXCEPT !.b = Advanced(@, size), !.n = @ + 1, !.out = Append(@, Value(item.c, w, r.big))]

\* buffer_unpackv with the items fmt, of which only the sizes are used.
Unpacked(b, fmt) ==
    LET turn[i \in 0..Len(fmt)] ==
            IF i = 0 THEN [b |-> b, big |-> FALSE, n |-> 0, ok |-> TRUE, out |-> <<>>]
            ELSE UnpackItem(turn[i - 1], fmt[i])
    IN  turn[Len(fmt)]

\* A 64-bit integer is the widest field.
Items ==
    [c : {"Q", "L"}, v : [1..MaxField -> Byte]]
    \cup [c : {"W"}, v : UNION {[1..n -> Byte] : n \in 1..MaxField}]
    \cup [c : {"S"}, v : UNION {[1..n -> Byte] : n \in 0..MaxField}]
    \cup [c : {"<", ">", "?"}, v : {<<>>}]
Formats == UNION {[1..n -> Items] : n \in 0 .. MaxField + 1}

-----------------------------------------------------------------------------

\* buffer_init, on an array that holds anything.
BufferInit == buf \in [data : [1..Cap -> Byte], pos : {0}, len : {0}]

BufferRead    == \E n \in 0..MaxLen : buf' = Advanced(buf, n)
BufferWrite   == \E s \in Texts : buf' = Written(buf, s)
BufferUnread  == \E n \in 0..MaxLen : buf' = Unread(buf, n)
BufferRewind  == buf' = [buf EXCEPT !.pos = 0]
BufferReserve == \E n \in 0..MaxLen : buf' = Reserved(buf, n)
BufferRetract == \E n \in 0..MaxLen : buf' = Retracted(buf, n)
BufferPrepare == \E n \in 0..MaxLen : buf' = Prepared(buf, n)
BufferClear   == buf' = [buf EXCEPT !.pos = 0, !.len = 0]

\* buffer_zero clears the array, too; any byte may be the zero.
BufferZero == \E z \in Byte : buf' = [data |-> [i \in 1..Cap |-> z], pos |-> 0, len |-> 0]

\* Nothing at all unless all of it fits.  For a length of zero the code takes that
\* of the buffer's own structure read as a string: any bytes, at least one.
BufferAppend ==
    \E s \in Texts :
        \/ s # <<>> /\ Len(s) <= Free(buf) /\ buf' = Written(buf, s)
        \/ s # <<>> /\ Len(s) > Free(buf) /\ UNCHANGED buf

BufferAppendString == \E s \in Texts \ {<<>>} : buf' = Written(buf, s)

BufferPack   == \E fmt \in Formats : buf' = Packed(buf, fmt).b
BufferUnpack == \E fmt \in Formats : buf' = Unpacked(buf, fmt).b

BufferNext ==
    \/ BufferRead \/ BufferWrite \/ BufferUnread \/ BufferRewind \/ BufferReserve
    \/ BufferRetract \/ BufferPrepare \/ BufferClear \/ BufferZero
    \/ BufferAppend \/ BufferAppendString \/ BufferPack \/ BufferUnpack

BufferSpec == BufferInit /\ [][BufferNext]_buf

-----------------------------------------------------------------------------
(* Properties *)

\* The cursors stay in order: buffer_size and buffer_free are unsigned
\* differences, so one cursor past the next would make them huge.
CursorsInOrder == buf \in Buffers /\ buf.pos <= buf.len

Queue == INSTANCE ByteQueue WITH
    past <- SubSeq(buf.data, 1, buf.pos), unread <- SubSeq(buf.data, buf.pos + 1, buf.len)

\* The buffer is the queue of ByteQueue: bytes come out in the order they went in,
\* and making room gives up the oldest ones, those already read first.
IsQueue == Queue!Spec

\* The values that are packed, in their order.
WithValue(vs, item) == IF item.c \in PackFields THEN Append(vs, item.v) ELSE vs
Values(fmt) ==
    LET vs[i \in 0..Len(fmt)] == IF i = 0 THEN <<>> ELSE WithValue(vs[i - 1], fmt[i])
    IN  vs[Len(fmt)]

\* The format that reads what fmt writes: it has the other letter for each 64-bit
\* integer, and a letter that only the other function knows becomes one that is
\* skipped.  A format is its own counterpart only if it has no 64-bit field.
Counterpart(item) ==
    [item EXCEPT !.c = IF @ = "Q" THEN "L" ELSE IF @ = "L" THEN "Q" ELSE @]
Reading(fmt) == [i \in DOMAIN fmt |-> Counterpart(fmt[i])]

\* What was packed is unpacked unchanged by the counterpart of its format, in
\* whatever byte order, when it fitted and nothing else was left to be read.
RoundTrip ==
    buf.pos = buf.len =>
        \A fmt \in Formats :
            LET p == Packed(buf, fmt)
                u == Unpacked(p.b, Reading(fmt))
            IN  p.ok => u.ok /\ u.out = Values(fmt) /\ u.b.pos = u.b.len
=============================================================================
