-------------------------------- MODULE Repl --------------------------------
(***************************************************************************)
(* util/repl.c: the loop that reads a command line and splits it, quotes   *)
(* and escapes resolved, into arguments for the program's callback.  The   *)
(* words are written into the line's own buffer, over what was read        *)
(* already (str_readqstr and str_readstr of core/str.c).                   *)
(*                                                                         *)
(* One character per step.  Keywords are left out: they only label the     *)
(* arguments, once the splitting is done.                                  *)
(***************************************************************************)
EXTENDS Integers, Sequences

CONSTANTS
    Char,            \* the characters of a line
    Space, Escape,   \* white space and the backslash
    QuoteMarks,      \* the two quotation marks
    ArgvNum,         \* REPL_ARGV_NUM
    Inputs,          \* lines typed: line, repl.prefix, and the words spelled or NoWords
    NoWords

ASSUME ReplAssumption ==
    /\ ArgvNum \in Nat \ {0}
    /\ Space \in Char /\ Escape \in Char /\ QuoteMarks \subseteq Char
    /\ Space \notin QuoteMarks /\ Escape \notin QuoteMarks /\ Space # Escape
    /\ \A typed \in Inputs : typed.line \in Seq(Char) /\ typed.prefix \in Seq(Char)

VARIABLES
    input,    \* the line typed and the prefix set
    mem,      \* the characters of the buffer
    at,       \* characters read: tok.ptr - buf
    phase,    \* where repl_run and repl_eval are
    quote,    \* the word's quotation mark, or Space for none
    esc,      \* whether the last character was the backslash
    word,     \* where the word is written: from start on, len characters
    argv      \* the arguments found

vars == <<input, mem, at, phase, quote, esc, word, argv>>

Piece(start, len) == [start |-> start, len |-> len]
Content(piece)    == SubSeq(mem, piece.start + 1, piece.start + piece.len)

Reset(typed, step) ==
    /\ input' = typed /\ mem' = typed.line
    /\ at' = 0 /\ phase' = step /\ quote' = Space /\ esc' = FALSE
    /\ word' = Piece(0, 0) /\ argv' = <<>>

NoLine == [line |-> <<>>, prefix |-> <<>>, words |-> NoWords]

Init ==
    /\ input = NoLine
    /\ mem = <<>>
    /\ at = 0 /\ phase = "ended" /\ quote = Space /\ esc = FALSE
    /\ word = Piece(0, 0) /\ argv = <<>>

More   == at < Len(mem)
Ch     == mem[at + 1]
Rest   == SubSeq(mem, at + 1, Len(mem))

Spaces(from, to) == \A n \in from + 1 .. to : mem[n] = Space

\* str_ltrim and str_rtrim: the rest starts behind position n, or ends there.
LTrim(n) == n \in at .. Len(mem) /\ Spaces(at, n) /\ (n < Len(mem) => mem[n + 1] # Space)
RTrim(n) == n \in at .. Len(mem) /\ Spaces(n, Len(mem)) /\ (n > at => mem[n] # Space)

-----------------------------------------------------------------------------
\* repl_run begins, and ends when no line comes.
Run    == phase = "ended" /\ Reset(NoLine, "idle")
NoMore == phase = "idle" /\ Reset(NoLine, "ended")

\* A line is read, after the callback has run for the one before.
Gets ==
    /\ phase = "idle"
    /\ \E typed \in Inputs : Reset(typed, "trim")

\* Behind a line the loop goes on, or ends because a callback called repl_quit.
LineDone == \E step \in {"idle", "ended"} : Reset(NoLine, step)

\* A line of nothing but white space is not evaluated.
Empty == phase = "trim" /\ Spaces(at, Len(mem)) /\ LineDone

Trim ==
    /\ phase = "trim" /\ ~Spaces(at, Len(mem))
    /\ \E n \in 0 .. Len(mem) : LTrim(n) /\ at' = n
    /\ phase' = "prefix"
    /\ UNCHANGED <<input, mem, quote, esc, word, argv>>

\* "str_accept(&tok, &r->prefix)"; a line without the prefix is one argument.
Accepted ==
    /\ at + Len(input.prefix) <= Len(mem)
    /\ SubSeq(mem, at + 1, at + Len(input.prefix)) = input.prefix

Command ==
    /\ phase = "prefix"
    /\ \/ /\ Accepted
          /\ at' = at + Len(input.prefix) /\ phase' = "next"
          /\ UNCHANGED argv
       \/ /\ ~Accepted
          /\ argv' = <<Piece(at, Len(Rest))>> /\ phase' = "eval"
          /\ UNCHANGED at
    /\ UNCHANGED <<input, mem, quote, esc, word>>

\* Faulty variant: the word is written one character further on.
StartBehind == at + 1

\* "(char*)tok.ptr", before the quotation mark is taken.
Start == at
Slots == ArgvNum - 1

BeginWord ==
    /\ phase = "next" /\ Len(argv) < Slots /\ More
    /\ word' = Piece(Start, 0) /\ esc' = FALSE /\ phase' = "word"
    /\ \/ Ch \in QuoteMarks /\ quote' = Ch /\ at' = at + 1
       \/ Ch \notin QuoteMarks /\ quote' = Space /\ at' = at
    /\ UNCHANGED <<input, mem, argv>>

EndOfWords ==
    /\ phase = "next" /\ (Len(argv) >= Slots \/ ~More)
    /\ phase' = "rest"
    /\ UNCHANGED <<input, mem, at, quote, esc, word, argv>>

Backslash ==
    /\ phase = "word" /\ More /\ ~esc /\ Ch = Escape
    /\ at' = at + 1 /\ esc' = TRUE
    /\ UNCHANGED <<input, mem, phase, quote, word, argv>>

\* Faulty variant: an escaped character still ends the word.
EndsEscaped == Ch = quote
Ends        == ~esc /\ Ch = quote

\* Escaped letters stand for control characters: one character all the same.
Copy ==
    /\ phase = "word" /\ More /\ ~Ends /\ (esc \/ Ch # Escape)
    /\ mem' = [mem EXCEPT ![word.start + word.len + 1] = Ch]
    /\ word' = [word EXCEPT !.len = @ + 1]
    /\ at' = at + 1 /\ esc' = FALSE
    /\ UNCHANGED <<input, phase, quote, argv>>

\* A quoted word may be empty but needs its second mark; without quotes an empty
\* word means that there are no more.
IsWord == IF quote = Space THEN word.len > 0 ELSE More

\* The word's end; str_ltrim then skips to the next.  A quoted word whose second
\* mark is missing is dropped.
EndWord ==
    /\ phase = "word" /\ (More => Ends)
    /\ IF IsWord
       THEN /\ argv' = Append(argv, word) /\ phase' = "skip"
            /\ at' = IF quote = Space THEN at ELSE at + 1
       ELSE phase' = "rest" /\ UNCHANGED <<argv, at>>
    /\ UNCHANGED <<input, mem, quote, esc, word>>

SkipSpaces ==
    /\ phase = "skip"
    /\ \E n \in 0 .. Len(mem) : LTrim(n) /\ at' = n
    /\ phase' = "next"
    /\ UNCHANGED <<input, mem, quote, esc, word, argv>>

\* What is left is the last argument, as it is.
LastArgument ==
    /\ phase = "rest"
    /\ \E first, last \in 0 .. Len(mem) :
         /\ LTrim(first) /\ RTrim(last)
         /\ argv' = IF first < last THEN Append(argv, Piece(first, last - first)) ELSE argv
    /\ at' = Len(mem) /\ phase' = "eval"
    /\ UNCHANGED <<input, mem, quote, esc, word>>

\* The program's callback is given argv.
Eval == phase = "eval" /\ LineDone

Next ==
    \/ Run \/ NoMore \/ Gets \/ Empty \/ Trim \/ Command \/ BeginWord \/ EndOfWords \/ Backslash \/ Copy \/ EndWord
    \/ SkipSpaces \/ LastArgument \/ Eval

Spec == Init /\ [][Next]_vars

-----------------------------------------------------------------------------

\* The variables hold what they are meant to hold; argv has room for what is in it.
TypeOK ==
    /\ mem \in Seq(Char) /\ Len(mem) = Len(input.line)
    /\ at \in 0 .. Len(mem) /\ quote \in QuoteMarks \cup {Space} /\ esc \in BOOLEAN
    /\ phase \in {"ended", "idle", "trim", "prefix", "next", "word", "skip", "rest", "eval"}
    /\ word \in [start : Nat, len : Nat]
    /\ argv \in Seq([start : Nat, len : Nat]) /\ Len(argv) <= ArgvNum

\* "This should be safe as we at most copy the string as is": no character is
\* written over before it was read.
UnreadIsIntact == \A n \in at + 1 .. Len(mem) : mem[n] = input.line[n]

\* The arguments lie one behind the other in the buffer: none is written over by a
\* later one.
ArgumentsAreApart ==
    \A i, j \in DOMAIN argv : i < j => argv[i].start + argv[i].len <= argv[j].start

\* Splitting a line within its own buffer does no harm.
InPlaceIsSafe == UnreadIsIntact /\ ArgumentsAreApart

\* How words are spelled.  In quotation marks, or in none where mark is Space, these
\* characters are written behind a backslash.
Special(mark) == {mark, Escape} \cup (IF mark = Space THEN QuoteMarks ELSE {})

\* The last n characters of a text as they are spelled, with what is behind them.
Escaped(text, mark, behind, n) ==
    LET spelled[m \in 0 .. Len(text)] ==
            IF m = 0 THEN behind
            ELSE LET ch == text[Len(text) - m + 1]
                 IN  IF ch \in Special(mark) THEN <<Escape>> \o (<<ch>> \o spelled[m - 1]) ELSE <<ch>> \o spelled[m - 1]
    IN  spelled[n]

Spelling(text, mark, behind) ==
    IF mark = Space THEN Escaped(text, mark, behind, Len(text))
    ELSE <<mark>> \o Escaped(text, mark, <<mark>> \o behind, Len(text))

\* The last n of some words, each in its marks.
Words(texts, marks, n) ==
    LET spelled[m \in 0 .. Len(texts)] ==
            IF m = 0 THEN <<>>
            ELSE LET p == Len(texts) - m + 1
                 IN  Spelling(texts[p], marks[p], IF m = 1 THEN <<>> ELSE <<Space>> \o spelled[m - 1])
    IN  spelled[n]

MarksFor(texts) ==
    {marks \in [DOMAIN texts -> QuoteMarks \cup {Space}] :
       \A n \in DOMAIN texts : marks[n] = Space => texts[n] # <<>>}

ASSUME WordsAssumption ==
    \A typed \in Inputs : typed.words # NoWords =>
      /\ typed.words \in Seq(Seq(Char)) /\ Len(typed.words) <= Slots
      /\ typed.prefix # <<>> => typed.prefix[1] # Space
      /\ \E marks \in MarksFor(typed.words) : typed.line = typed.prefix \o Words(typed.words, marks, Len(typed.words))

\* A line that spells words, in quotation marks or with backslashes, arrives as
\* these words, if there are slots for them.
WordsArrive ==
    phase = "eval" /\ input.words # NoWords =>
        [n \in DOMAIN argv |-> Content(argv[n])] = input.words

=============================================================================
