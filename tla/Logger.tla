------------------------------- MODULE Logger -------------------------------
(***************************************************************************)
(* core/logger.c: the log kept in RTC memory, a ring of LOG_SIZE bytes     *)
(* that log_str turns in place, one memory pool block at a time, until the *)
(* oldest byte comes first.                                                *)
(*                                                                         *)
(* One task at a time uses the logger here.  The code has no lock:         *)
(* LoggerTasks is about calls of several tasks that overlap.               *)
(***************************************************************************)
EXTENDS Naturals, Sequences

CONSTANTS
    Byte,     \* the characters a message is made of
    Levels,   \* LOG_DEBUG .. LOG_ERROR; a level's code is one character of its own
    Tag,      \* the text "esp-idf: ", one character
    Size,     \* LOG_SIZE: 7872 in the code
    Chunk,    \* size of the block log_str rotates with: 2048 in the code
    MaxMsg    \* bound: length of a message

ASSUME ByteAssumption == Levels \subseteq Byte /\ Tag \in Byte
ASSUME SizeAssumption == Size \in Nat \ {0} /\ Chunk \in Nat \ {0} /\ MaxMsg \in Nat

VARIABLES
    g_log,     \* the ring: g_log.text, g_log.length and g_log.wrap
    enabled,   \* g_log.enabled: the levels that are kept
    pc,        \* "idle", or "rotate" inside log_str
    out,       \* what log_str returned last
    torn       \* history: since the log was cleared a memcpy did not move the text

vars == <<g_log, enabled, pc, out, torn>>

Rings == [text : [1..Size -> Byte], length : 0..Size, wrap : BOOLEAN]

\* The bytes of a message.  A message longer than g_log.temp is followed there
\* by whatever comes next in memory, so its tail is arbitrary; a negative length
\* (vsnprintf failed inside esp_printfv) is one beyond LOG_SIZE, of any bytes.
Messages == UNION {[1..n -> Byte] : n \in 0..MaxMsg}

Lesser(a, b) == IF a < b THEN a ELSE b

-----------------------------------------------------------------------------
(* log_write *)

\* A message longer than the log keeps its last bytes.
Clamp(msg) == IF Len(msg) > Size THEN SubSeq(msg, Len(msg) - Size + 1, Len(msg)) ELSE msg

\* One memcpy up to the end of the text, one from its start.
CopyIn(g, msg) ==
    LET num  == Lesser(Size - g.length, Len(msg))
        rest == Len(msg) - num
    IN  [i \in 1..Size |-> IF i <= rest THEN msg[num + i]
                           ELSE IF g.length < i /\ i <= g.length + num THEN msg[i - g.length]
                           ELSE g.text[i]]

\* The test at the end of log_write: start over at the beginning.
Full(len) == len >= Size

\* The ring after log_write(bytes) on the ring g.
LogWrite(g, bytes) ==
    LET msg == Clamp(bytes)
        end == g.length + Len(msg)
    IN  [text   |-> CopyIn(g, msg),
         length |-> IF Full(end) THEN end - Size ELSE end,
         wrap   |-> g.wrap \/ Full(end)]

-----------------------------------------------------------------------------

\* log_init, on memory that holds anything.
Init ==
    /\ g_log \in [text : [1..Size -> Byte], length : {0}, wrap : {FALSE}]
    /\ enabled = Levels
    /\ pc = "idle" /\ out = <<>> /\ torn = FALSE

Idle == pc = "idle" /\ UNCHANGED <<pc, out>>

LogClear ==
    /\ Idle
    /\ g_log' = [g_log EXCEPT !.length = 0, !.wrap = FALSE]
    /\ torn' = FALSE
    /\ UNCHANGED enabled

\* log_set on a level; LOG_DIRECT only copies the bytes to the console as well.
LogSet ==
    /\ Idle
    /\ \E l \in Levels : enabled' \in {enabled \cup {l}, enabled \ {l}}
    /\ UNCHANGED <<g_log, torn>>

\* log_printf and each line of log_hexdump: the level's code, then the message
\* unless it is empty.
LogPrintf ==
    /\ Idle
    /\ \E l \in enabled, m \in Messages :
          g_log' = IF m = <<>> THEN LogWrite(g_log, <<l>>)
                               ELSE LogWrite(LogWrite(g_log, <<l>>), m)
    /\ UNCHANGED <<enabled, torn>>

LogPuts ==
    /\ Idle
    /\ enabled # {}
    /\ \E m \in Messages : g_log' = LogWrite(g_log, m)
    /\ UNCHANGED <<enabled, torn>>

\* esp_printfv: a line of ESP-IDF itself, whatever levels are enabled; the code
\* of its level, when it has one, goes before the tag.
EspPrintfv ==
    /\ Idle
    /\ \E c \in {<<l>> : l \in Levels} \cup {<<>>}, m \in Messages :
          LET coded == IF c = <<>> THEN g_log ELSE LogWrite(g_log, c)
          IN  g_log' = LogWrite(LogWrite(coded, <<Tag>>), m)
    /\ UNCHANGED <<enabled, torn>>

-----------------------------------------------------------------------------
(* log_str *)

LogStr ==
    /\ pc = "idle"
    /\ IF g_log.wrap THEN pc' = "rotate" /\ UNCHANGED out
                     ELSE out' = SubSeq(g_log.text, 1, g_log.length) /\ UNCHANGED pc
    /\ UNCHANGED <<g_log, enabled, torn>>

\* All but the first num bytes of the text, where one byte does not disturb another.
Rest(num) == [i \in 1 .. Size - num |-> g_log.text[i + num]]

\* What memcpy(g_log.text, g_log.text + num, rem) leaves at the start of the text.
\* Where the bytes to be moved reach into the place they are moved to, C does not
\* say: the bytes themselves if the memcpy of the build copies upwards, or any.
Copied(num) == IF Size - num > num THEN [1 .. Size - num -> Byte] ELSE {Rest(num)}

\* The text turned by num bytes: the first num, kept in tmp, go to the end.
Turned(num, lower) ==
    [i \in 1..Size |-> IF i <= Size - num THEN lower[i] ELSE g_log.text[i - (Size - num)]]

\* Faulty variant: the text counts as empty afterwards.
StraightenEmpty(g) == [g EXCEPT !.wrap = FALSE]

\* One turn of the loop.
Rotate(num) ==
    \E lower \in Copied(num) :
        /\ g_log' = [g_log EXCEPT !.text = Turned(num, lower), !.length = @ - num]
        /\ torn' = (torn \/ lower # Rest(num))

\* wrap is reset and the whole text counts.
Straighten(g) == [g EXCEPT !.wrap = FALSE, !.length = Size]

LogStrRotate ==
    /\ pc = "rotate" /\ g_log.length > 0
    /\ Rotate(Lesser(g_log.length, Chunk))
    /\ UNCHANGED <<enabled, pc, out>>

LogStrEnd ==
    /\ pc = "rotate" /\ g_log.length = 0
    /\ g_log' = Straighten(g_log)
    /\ out' = SubSeq(g_log'.text, 1, g_log'.length)
    /\ pc' = "idle"
    /\ UNCHANGED <<enabled, torn>>

-----------------------------------------------------------------------------

Reading == LogStrRotate \/ LogStrEnd

Next == LogClear \/ LogSet \/ LogPrintf \/ LogPuts \/ EspPrintfv \/ LogStr \/ Reading

Spec == Init /\ [][Next]_vars /\ WF_vars(Reading)

-----------------------------------------------------------------------------
(* Properties *)

\* In particular length never passes the end of the text, even after log_str has
\* set it to LOG_SIZE, from where the next write must wrap at once.
TypeOK ==
    /\ g_log \in Rings
    /\ enabled \subseteq Levels
    /\ pc \in {"idle", "rotate"} /\ (pc = "rotate" => g_log.wrap)
    /\ out \in Seq(Byte) /\ Len(out) <= Size /\ torn \in BOOLEAN

\* The text of the log, oldest byte first.
View(g) ==
    LET new == SubSeq(g.text, 1, g.length)
    IN  IF g.wrap THEN SubSeq(g.text, g.length + 1, Size) \o new ELSE new

Text == INSTANCE LogText WITH
    log <- View(g_log), Texts <- UNION {[1..n -> Byte] : n \in 0 .. MaxMsg + 2}

\* The ring is the log of LogText: no byte is lost or out of order however the
\* writes fall on the end of the text, and turning the ring changes nothing.  This
\* ends, until the log is cleared, with a turn in which memcpy did something else
\* to overlapping bytes than move them, as C allows; the block of 2048 bytes makes
\* every turn of the log's 7872 one whose bytes overlap.
IsLastBytes == Text!Init /\ [][Text!Next \/ torn']_(Text!vars)
=============================================================================
