-------------------------------- MODULE Str --------------------------------
(***************************************************************************)
(* core/str.c: what the functions that take a text apart return and what   *)
(* they leave of it, and the reading of numbers.  A text is a sequence of  *)
(* characters.                                                             *)
(***************************************************************************)
EXTENDS Integers, SequencesExt

CONSTANTS
    Chars, \* the characters of texts
    NUL,   \* the zero character
    U64    \* the number of values of a u64, which wraps: 2^64 in the code

ASSUME StrAssumption == U64 \in Nat /\ U64 > 255 /\ U64 % 2 = 0

Cut(text, n) == [got |-> SubSeq(text, 1, n), rest |-> SubSeq(text, n + 1, Len(text))]

\* str_split
Split(text, n) == Cut(text, IF n > Len(text) THEN Len(text) ELSE n)

\* The characters a text begins with that are in set.
Leading(text, set) ==
    CHOOSE n \in 0 .. Len(text) :
        /\ \A m \in 1 .. n : text[m] \in set
        /\ n < Len(text) => text[n + 1] \notin set

\* str_span, str_cspan: strchr finds the zero at the end of any set.
Span(text, set)  == Split(text, Leading(text, set \cup {NUL}))
CSpan(text, set) == Split(text, Leading(text, {text[n] : n \in DOMAIN text} \ (set \cup {NUL})))

\* str_accept
Accept(text, p) ==
    IF IsPrefix(p, text) THEN [ok |-> TRUE, rest |-> Split(text, Len(p)).rest] ELSE [ok |-> FALSE, rest |-> text]

-----------------------------------------------------------------------------
Numerals == <<"0", "1", "2", "3", "4", "5", "6", "7", "8", "9">>
Letters  == <<"a", "b", "c", "d", "e", "f">>
Capitals == <<"A", "B", "C", "D", "E", "F">>

\* The characters that are digits in radix, with their values; none has more than 16.
Digits(radix) ==
    {d \in {<<Numerals[n], n - 1>> : n \in DOMAIN Numerals}
           \cup {<<Letters[n], n + 9>> : n \in DOMAIN Letters}
           \cup {<<Capitals[n], n + 9>> : n \in DOMAIN Capitals} : d[2] < radix}

ASSUME CharsAssumption ==
    {d[1] : d \in Digits(16)} \cup {"+", "-", ".", "E", ":", "/", "?", "#", "@", "[", "]"} \subseteq Chars \ {NUL}

DigitOf(ch, radix) == (CHOOSE d \in Digits(radix) : d[1] = ch)[2]

Value(digits, radix, modulus) ==
    LET value[n \in 0 .. Len(digits)] ==
            IF n = 0 THEN 0 ELSE (value[n - 1] * radix + DigitOf(digits[n], radix)) % modulus
    IN  value[Len(digits)]

\* Faulty variant: the value is kept modulo what the result can hold.
ReadUNarrow(text, radix, max) ==
    LET digits == Cut(text, Leading(text, {d[1] : d \in Digits(radix)}))
    IN  [ok |-> digits.got # <<>>, value |-> Value(digits.got, radix, max + 1), rest |-> digits.rest]

\* str_readu8 to str_readu64: the digits are taken from the text whether or not their
\* value fits.
ReadU(text, radix, max) ==
    LET digits == Cut(text, Leading(text, {d[1] : d \in Digits(radix)}))
        value  == Value(digits.got, radix, U64)
    IN  [ok |-> digits.got # <<>> /\ value <= max, value |-> value, rest |-> digits.rest]

\* An unsigned integer of so many values, as a signed one.
Signed(v, values) == IF v < values \div 2 THEN v ELSE v - values

\* str_readi8 to str_readi64; max is the greatest value, and the smallest -max - 1.
ReadI(text, radix, max) ==
    LET minus == Accept(text, <<"-">>)
        plus  == Accept(text, <<"+">>)
        start == IF minus.ok THEN minus.rest ELSE plus.rest
        read  == ReadU(start, radix, U64 - 1)
        value == Signed(IF minus.ok THEN (U64 - read.value) % U64 ELSE read.value, U64)
    IN  [ok |-> read.ok /\ value \in -max - 1 .. max, value |-> value, rest |-> read.rest]

TenTo(n) == LET power[m \in 0 .. n] == IF m = 0 THEN 1 ELSE 10 * power[m - 1] IN power[n]

\* str_readf64, up to rounding: mantissa times ten to the exponent.  The digits behind
\* the point are added to the integer, whatever its sign.
ReadF(text) ==
    LET whole    == ReadI(text, 10, U64 \div 2 - 1)
        dot      == Accept(whole.rest, <<".">>)
        fraction == IF dot.ok THEN ReadU(dot.rest, 10, U64 - 1) ELSE [value |-> 0, rest |-> whole.rest]
        places   == Len(dot.rest) - Len(fraction.rest)
        small    == Accept(fraction.rest, <<"e">>)
        capital  == Accept(fraction.rest, <<"E">>)
        exponent == ReadI(IF small.ok THEN small.rest ELSE capital.rest, 10, U64 \div 2 - 1)
        scaled   == small.ok \/ capital.ok
    IN  [ok       |-> whole.ok /\ (scaled => exponent.ok),
         mantissa |-> whole.value * TenTo(places) + fraction.value,
         exponent |-> (IF scaled THEN exponent.value ELSE 0) - places]
=============================================================================
