-------------------------------- MODULE Text --------------------------------
(***************************************************************************)
(* The functions on texts and bytes that keep no state: uri_parse, the     *)
(* numbers of core/str.c, the addresses of util/net.c, util/crc16.c.  A    *)
(* behaviour is one call: what it is asked and what it answers.            *)
(***************************************************************************)
EXTENDS Uri

CONSTANTS
    AnyText,    \* texts uri_parse is given, any at all
    Uris,       \* uris that are written and parsed
    Numbers,    \* texts of integers
    Decimals,   \* numbers with a fraction and an exponent
    Addresses,  \* addresses that are written and parsed
    Messages,   \* bytes that are summed up
    Byte        \* the bytes they are of

\* A byte is the set of its ones.
ASSUME TextAssumption ==
    /\ AnyText \subseteq Seq(Chars) /\ Numbers \subseteq Seq(Chars)
    /\ Addresses \subseteq [1 .. 4 -> 0 .. 255]
    /\ Messages \subseteq Seq(SUBSET (0 .. 7)) /\ Byte \subseteq SUBSET (0 .. 7)

VARIABLES asked, answer

textVars == <<asked, answer>>

TextInit == asked = [kind |-> "none"] /\ answer = asked

-----------------------------------------------------------------------------
\* A component, if it is there, with what is written around it.
Part(before, component, behind) == IF component = <<>> THEN <<>> ELSE before \o component[1] \o behind

\* A uri as it is written.
Written(u) ==
    Part(<<>>, u.scheme, <<":">>) \o Part(<<"/", "/">>, u.authority, <<>>) \o u.path
    \o Part(<<"?">>, u.query, <<>>) \o Part(<<"#">>, u.fragment, <<>>)

ParseUri ==
    \/ \E u \in Uris : asked' = [kind |-> "uri", uri |-> u] /\ answer' = UriParse(Written(u))
    \/ \E text \in AnyText : asked' = [kind |-> "text", text |-> text] /\ answer' = UriParse(text)

\* str_readu8 and str_readi8, for the others with a wider range.
ReadNumber ==
    \E text \in Numbers, signed \in BOOLEAN, radix \in {10, 16} :
      /\ asked' = [kind |-> "number", text |-> text, signed |-> signed, radix |-> radix]
      /\ answer' = IF signed THEN ReadI(text, radix, 127) ELSE ReadU(text, radix, 255)

\* A number as it is written.
Spell(d) ==
    d.whole \o (IF d.fraction = <<>> THEN <<>> ELSE <<".">> \o d.fraction)
    \o (IF d.exponent = <<>> THEN <<>> ELSE <<"e">> \o d.exponent)

ReadDecimal == \E d \in Decimals : asked' = [kind |-> "decimal", number |-> d] /\ answer' = ReadF(Spell(d))

\* ipv4_parse: bytes behind dots, as many as there are, but no more than an address
\* has; a byte that cannot be read fails all.
Dotted(text, parts, radix) ==
    LET Bytes[n \in 0 .. parts] ==
          IF n = 0 THEN [ok |-> TRUE, more |-> TRUE, addr |-> <<>>, rest |-> text]
          ELSE LET before == Bytes[n - 1]
                   dot    == IF n = 1 THEN [ok |-> TRUE, rest |-> before.rest] ELSE Accept(before.rest, <<".">>)
                   part   == ReadU(dot.rest, radix, 255)
               IN  IF ~before.more \/ ~dot.ok THEN [before EXCEPT !.more = FALSE]
                   ELSE [ok |-> part.ok, more |-> part.ok, addr |-> Append(before.addr, part.value), rest |-> part.rest]
    IN  Bytes[parts]

Decimal(n) ==
    (IF n >= 100 THEN <<Numerals[n \div 100 + 1]>> ELSE <<>>)
    \o (IF n >= 10 THEN <<Numerals[((n \div 10) % 10) + 1]>> ELSE <<>>) \o <<Numerals[(n % 10) + 1]>>

\* IPV4ADDR_STR_F
Ipv4Format(addr) ==
    Decimal(addr[1]) \o <<".">> \o Decimal(addr[2]) \o <<".">> \o Decimal(addr[3]) \o <<".">> \o Decimal(addr[4])

ParseAddress ==
    \E addr \in Addresses, behind \in {<<>>, <<":">>, <<".">>} :
      /\ asked' = [kind |-> "address", addr |-> addr, behind |-> behind]
      /\ answer' = Dotted(Ipv4Format(addr) \o behind, 4, 10)

-----------------------------------------------------------------------------
\* A number of up to 16 bits is the set of its ones.
Xor(v, w) == (v \ w) \cup (w \ v)

\* Faulty variant: the bit that is shifted out is looked at too late.
ShiftLate(crc) == LET s == {b + 1 : b \in crc \ {15}} IN IF 15 \in s THEN Xor(s, {0, 5, 12}) ELSE s
\* "crc & 0x8000 ? crc << 1 ^ 0x1021 : crc << 1"
Shift1(crc)    == LET s == {b + 1 : b \in crc \ {15}} IN IF 15 \in crc THEN Xor(s, {0, 5, 12}) ELSE s

\* crc16_next, crc16_buf
CrcNext(crc, ch) ==
    LET shifted[n \in 0 .. 8] == IF n = 0 THEN Xor(crc, {b + 8 : b \in ch}) ELSE Shift1(shifted[n - 1])
    IN  shifted[8]
CrcBuf(crc, bytes) ==
    LET sum[n \in 0 .. Len(bytes)] == IF n = 0 THEN crc ELSE CrcNext(sum[n - 1], bytes[n]) IN sum[Len(bytes)]

SumUp ==
    \E bytes \in Messages :
      /\ asked' = [kind |-> "crc", bytes |-> bytes]
      /\ answer' = [crc |-> CrcBuf({}, bytes)]

TextNext == asked.kind = "none" /\ (ParseUri \/ ReadNumber \/ ReadDecimal \/ ParseAddress \/ SumUp)
TextSpec == TextInit /\ [][TextNext]_textVars
-----------------------------------------------------------------------------

\* The digits of a number, what they spell, and the number with its sign.
Magnitude(text) == IF text # <<>> /\ Head(text) \in {"-", "+"} THEN Tail(text) ELSE text
Number(digits, radix) ==
    LET number[n \in 0 .. Len(digits)] ==
            IF n = 0 THEN 0 ELSE number[n - 1] * radix + DigitOf(digits[n], radix)
    IN  number[Len(digits)]
Spelled(text, radix) ==
    LET v == Number(Magnitude(text), radix) IN IF text # <<>> /\ Head(text) = "-" THEN -v ELSE v

IsNumber(text, radix) == Magnitude(text) \in Seq({d[1] : d \in Digits(radix)})

Unsigned64 == 0 .. U64 - 1
Signed64   == -(U64 \div 2) .. U64 \div 2 - 1

ASSUME DecimalsAssumption ==
    \A d \in Decimals :
      /\ d.whole \in Seq(Chars) /\ IsNumber(d.whole, 10) /\ Magnitude(d.whole) # <<>>
      /\ d.fraction \in Seq({e[1] : e \in Digits(10)})
      /\ d.exponent \in Seq(Chars) /\ IsNumber(d.exponent, 10)
      /\ d.exponent # <<>> => Magnitude(d.exponent) # <<>>

-----------------------------------------------------------------------------
\* Uris that can be told apart from what they are written as.  A text with none of the
\* marks, and a component that is such a text or is not there.
Without(text, marks) == text \in Seq(Chars) /\ \A n \in DOMAIN text : text[n] \notin marks \cup {NUL}
Component(part, marks) == part # <<>> => part = <<part[1]>> /\ Without(part[1], marks)

\* The ways to write a login, a host and a port.
LoginTexts(u) ==
    {u.user \o <<":">> \o u.pass \o <<"@">>} \cup (IF u.pass = <<>> THEN {u.user \o <<"@">>} ELSE {})
    \cup (IF u.user = <<>> /\ u.pass = <<>> THEN {<<>>} ELSE {})
HostTexts(u) ==
    {<<"[">> \o u.host \o <<"]">>}
    \cup (IF Without(u.host, {":"}) /\ ~IsPrefix(<<"[">>, u.host) THEN {u.host} ELSE {})
IsPort(text, port) ==
    \/ text \in {<<>>, <<":">>} /\ port = -1
    \/ /\ text # <<>> /\ text = <<":">> \o Tail(text) /\ Tail(text) # <<>>
       /\ Tail(text) \in Seq({d[1] : d \in Digits(10)})
       /\ port = Number(Tail(text), 10) /\ port < U32 \div 2

WellFormed(u) ==
    /\ u = [scheme |-> u.scheme, authority |-> u.authority, user |-> u.user, pass |-> u.pass, host |-> u.host,
            port |-> u.port, path |-> u.path, query |-> u.query, fragment |-> u.fragment]
    /\ Component(u.scheme, {":", "/", "?", "#"}) /\ Component(u.authority, {"/"})
    /\ Without(u.user, {":", "@"}) /\ Without(u.pass, {"@"}) /\ Without(u.host, {"]", "@"})
    /\ Without(u.path, {"?", "#"}) /\ Component(u.query, {"#"}) /\ Component(u.fragment, {})
    /\ IF u.authority # <<>>
       THEN /\ \E login \in LoginTexts(u), host \in HostTexts(u), port \in Suffixes(u.authority[1]) :
                 u.authority[1] = (login \o host) \o port /\ IsPort(port, u.port)
            /\ IF u.path = <<>> THEN u.query = <<>> /\ u.fragment = <<>> ELSE u.path[1] = "/"
       ELSE /\ u.user = <<>> /\ u.pass = <<>> /\ u.host = <<>> /\ u.port = -1
            /\ ~IsPrefix(<<"/", "/">>, u.path)
            /\ u.scheme = <<>> =>
                 \A n \in DOMAIN u.path : u.path[n] = ":" => \E m \in 1 .. n - 1 : u.path[m] = "/"

ASSUME UrisAssumption == \A u \in Uris : WellFormed(u)

\* A uri that is put together from its parts comes apart into these parts.  Of any
\* other text without a zero byte nothing is lost: put together again, what uri_parse
\* found is the text.
UriIsRead ==
    /\ asked.kind = "uri" => answer = asked.uri
    /\ asked.kind = "text" => (~Contains(asked.text, NUL) => Written(answer) = asked.text)

\* What is stored fits the type and is the number that was written, and every number
\* that fits is stored, unless the digits run over a u64; one with a fraction, unless
\* it is negative.  The bytes of an address come back as they were written.
NumberIsRead ==
    /\ asked.kind = "number" /\ IsNumber(asked.text, asked.radix) =>
         LET v     == Spelled(asked.text, asked.radix)
             range == IF asked.signed THEN -128 .. 127 ELSE 0 .. 255
         IN  (IF asked.signed THEN v \in Signed64 ELSE v \in Unsigned64 /\ Magnitude(asked.text) = asked.text) =>
                 /\ answer.ok <=> v \in range /\ Magnitude(asked.text) # <<>>
                 /\ answer.ok => answer.value = v
    /\ asked.kind = "decimal" =>
         LET d == asked.number
         IN  (/\ Spelled(d.whole, 10) \in Signed64 /\ Number(d.fraction, 10) \in Unsigned64
              /\ Spelled(d.exponent, 10) \in Signed64
              /\ Head(d.whole) # "-" \/ Number(d.fraction, 10) = 0) =>
                 /\ answer.ok /\ answer.mantissa = Spelled(d.whole \o d.fraction, 10)
                 /\ answer.exponent = Spelled(d.exponent, 10) - Len(d.fraction)
    /\ asked.kind = "address" => answer.ok /\ answer.addr = asked.addr /\ answer.rest = asked.behind

\* "Read an unsigned k-bit integer, return true on success": what is stored is what
\* was written, without exception.
KBitsAreRead ==
    asked.kind = "number" /\ IsNumber(asked.text, asked.radix) /\ answer.ok =>
        answer.value = Spelled(asked.text, asked.radix)

\* A message followed by its checksum sums up to zero, and no change of one byte
\* leaves the checksum as it is.
ChecksumDetects ==
    asked.kind = "crc" =>
        /\ CrcBuf({}, asked.bytes \o <<{b - 8 : b \in answer.crc \ 0 .. 7}, answer.crc \cap 0 .. 7>>) = {}
        /\ \A n \in DOMAIN asked.bytes, ch \in Byte :
             ch # asked.bytes[n] => CrcBuf({}, [asked.bytes EXCEPT ![n] = ch]) # answer.crc
=============================================================================
