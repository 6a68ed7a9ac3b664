---------------------------- MODULE ConsoleProofs ----------------------------
(***************************************************************************)
(* What the program does with lines and with arrays: util/repl.c splits a  *)
(* line in its own buffer without losing any of it, and a line that spells *)
(* words arrives as these words, for every line, prefix and number of      *)
(* slots; phy/terminal.c edits a line as backspaces ask and shows nothing  *)
(* of a hidden input, for every size of its buffer; the sorts of           *)
(* core/algorithm.h sort and its searches split, for arrays of any size    *)
(* and any keys.                                                           *)
(*                                                                         *)
(* i, j and k are the variables of algorithm.h: places are p and q.        *)
(***************************************************************************)
EXTENDS Repl, Terminal, Algorithm, TextProofs

-----------------------------------------------------------------------------
(* Repl: the arguments of a line *)

Pieces == [start : Nat, len : Nat]
End(piece) == piece.start + piece.len

\* What is written never gets ahead of what is read, and slots are left for the
\* word at hand and for the rest.
Behind ==
    /\ phase = "word" => word.start + word.len <= at
    /\ phase = "word" => Len(argv) < Slots /\ \A p \in DOMAIN argv : End(argv[p]) <= word.start
    /\ phase \in {"next", "skip", "rest"} => Len(argv) <= Slots
    /\ phase \in {"ended", "idle", "trim", "prefix"} => argv = <<>>
    /\ phase # "eval" => \A p \in DOMAIN argv : End(argv[p]) <= at

Apart == \A p, q \in DOMAIN argv : p < q => End(argv[p]) <= argv[q].start

IInv ==
    /\ TypeOK
    /\ input.line \in Seq(Char) /\ input.prefix \in Seq(Char)
    /\ Behind /\ Apart /\ UnreadIsIntact

LEMMA SlotNumber == ArgvNum \in Nat \ {0}
BY ReplAssumption

LEMMA Later ==
    ASSUME NEW a \in Nat, NEW b \in Nat, NEW l \in Nat, a <= b
    PROVE  \A n \in b + 1 .. l : n \in a + 1 .. l
OBVIOUS

\* What was not read stays so when more is read and nothing written.
LEMMA UnreadStays ==
    ASSUME UnreadIsIntact, mem' = mem, input' = input,
           at \in Nat, at' \in Nat, Len(mem) \in Nat, at <= at'
    PROVE  UnreadIsIntact'
<1>1. SUFFICES ASSUME NEW n \in at' + 1 .. Len(mem) PROVE mem[n] = input.line[n]
  BY DEF UnreadIsIntact
<1>2. n \in at + 1 .. Len(mem)
  BY <1>1, Later
<1> QED
  BY <1>2 DEF UnreadIsIntact

\* A list of arguments that lie one behind the other goes on with one behind them.
LEMMA AppendApart ==
    ASSUME NEW args \in Seq(Pieces), NEW piece \in Pieces,
           \A p, q \in DOMAIN args : p < q => End(args[p]) <= args[q].start,
           \A p \in DOMAIN args : End(args[p]) <= piece.start
    PROVE  /\ Append(args, piece) \in Seq(Pieces) /\ Len(Append(args, piece)) = Len(args) + 1
           /\ \A p, q \in DOMAIN Append(args, piece) :
                  p < q => End(Append(args, piece)[p]) <= Append(args, piece)[q].start
           /\ \A n \in Nat : End(piece) <= n =>
                  \A p \in DOMAIN Append(args, piece) : End(Append(args, piece)[p]) <= n
<1> DEFINE new == Append(args, piece)
<1>1. new \in Seq(Pieces) /\ Len(new) = Len(args) + 1
  OBVIOUS
<1>2. \A p \in DOMAIN new : IF p <= Len(args) THEN p \in DOMAIN args /\ new[p] = args[p]
                                              ELSE p = Len(args) + 1 /\ new[p] = piece
  OBVIOUS
<1>3. \A p \in DOMAIN args : args[p] \in Pieces
  OBVIOUS
<1>4. ASSUME NEW p \in DOMAIN new, NEW q \in DOMAIN new, p < q
      PROVE  End(new[p]) <= new[q].start
  <2>1. p \in Nat /\ q \in Nat /\ p <= Len(args)
    BY <1>1, <1>4
  <2> QED
    BY <1>2, <1>4, <2>1
<1>5. ASSUME NEW n \in Nat, End(piece) <= n, NEW p \in DOMAIN new
      PROVE  End(new[p]) <= n
  BY <1>2, <1>3, <1>5 DEF End, Pieces
<1> QED
  BY <1>1, <1>4, <1>5

LEMMA ArgumentTypes ==
    ASSUME IInv PROVE argv \in Seq(Pieces) /\ \A p \in DOMAIN argv : argv[p] \in Pieces
<1>1. argv \in Seq(Pieces)
  BY DEF IInv, TypeOK, Pieces
<1> QED
  BY <1>1

\* Actions that leave buffer and arguments as they are and do not step back.
LEMMA ReadingOn ==
    ASSUME IInv, UNCHANGED <<input, mem, word, argv>>,
           at' \in at .. Len(mem), quote' \in QuoteMarks \cup {Space}, esc' \in BOOLEAN,
           \/ phase = "word" /\ phase' \in {"word", "rest"}
           \/ phase \in {"skip", "next"} /\ phase' \in {"next", "rest"}
           \/ phase = "trim" /\ phase' = "prefix"
           \/ phase = "prefix" /\ phase' = "next"
    PROVE  IInv'
<1> USE SlotNumber
<1>1. at \in Nat /\ at' \in Nat /\ at <= at' /\ at' <= Len(mem) /\ Slots \in Nat
  BY DEF IInv, TypeOK, Slots
<1>2. TypeOK'
  BY <1>1 DEF IInv, TypeOK
<1>3. UnreadIsIntact'
  BY <1>1, UnreadStays DEF IInv, TypeOK
<1>4. Apart'
  BY DEF IInv, Apart, End
<1>5. ASSUME NEW p \in DOMAIN argv PROVE argv[p] \in Pieces
  BY <1>5, ArgumentTypes
<1>6. \A p \in DOMAIN argv : End(argv[p]) <= at'
  BY <1>1, <1>5 DEF IInv, Behind, End, Pieces
<1>7. word \in Pieces /\ Len(argv) \in Nat /\ (argv = <<>> => Len(argv) = 0)
  BY DEF IInv, TypeOK, Pieces
<1>8. Behind'
  BY <1>1, <1>6, <1>7 DEF IInv, Behind, End, Pieces, Slots
<1> QED
  BY <1>2, <1>3, <1>4, <1>8 DEF IInv

LEMMA CopyStep == ASSUME IInv, Copy PROVE IInv'
<1> USE SlotNumber
<1> DEFINE place == word.start + word.len + 1
<1>1. at \in Nat /\ at < Len(mem) /\ Len(mem) \in Nat /\ at + 1 <= Len(mem) /\ word \in Pieces
  BY DEF Copy, More, IInv, TypeOK, Pieces
<1>2. word.start \in Nat /\ word.len \in Nat /\ place \in 1 .. at + 1
  BY <1>1 DEF Copy, IInv, Behind, Pieces
<1>3. mem[at + 1] \in Char /\ mem \in [1 .. Len(mem) -> Char]
  BY <1>1 DEF IInv, TypeOK
<1>4. mem' = [mem EXCEPT ![place] = mem[at + 1]] /\ at' = at + 1 /\ word' = [word EXCEPT !.len = @ + 1]
  BY DEF Copy, Ch
<1>5. esc' = FALSE /\ UNCHANGED <<input, phase, quote, argv>> /\ phase = "word"
  BY DEF Copy
<1>6. mem' \in [1 .. Len(mem) -> Char]
  BY <1>1, <1>2, <1>3, <1>4
<1>7. mem' \in Seq(Char) /\ Len(mem') = Len(mem)
  BY <1>1, <1>6
<1>8. word' \in Pieces /\ word'.start = word.start /\ word'.len = word.len + 1
  BY <1>1, <1>2, <1>4 DEF Pieces
<1>9. TypeOK'
  <2>1. at' \in 0 .. Len(mem') /\ mem' \in Seq(Char) /\ Len(mem') = Len(input'.line)
    BY <1>1, <1>4, <1>5, <1>7 DEF IInv, TypeOK
  <2>2. word' \in [start : Nat, len : Nat]
    BY <1>8 DEF Pieces
  <2> QED
    BY <1>5, <2>1, <2>2 DEF IInv, TypeOK
<1>10. UnreadIsIntact'
  <2>1. SUFFICES ASSUME NEW n \in at' + 1 .. Len(mem') PROVE mem'[n] = input'.line[n]
    BY DEF UnreadIsIntact
  <2>2. n \in at + 1 .. Len(mem) /\ n # place
    BY <1>1, <1>2, <1>4, <1>7, <2>1
  <2>3. mem'[n] = mem[n]
    BY <1>1, <1>3, <1>4, <2>2
  <2> QED
    BY <1>5, <2>2, <2>3 DEF IInv, UnreadIsIntact
<1>11. Apart'
  BY <1>5 DEF IInv, Apart, End
<1>12. \A p \in DOMAIN argv : argv[p] \in Pieces
  BY ArgumentTypes
<1>13. Behind'
  <2>1. Len(argv) < Slots /\ \A p \in DOMAIN argv : End(argv[p]) <= word.start
    BY <1>5 DEF IInv, Behind
  <2>2. \A p \in DOMAIN argv : End(argv[p]) \in Nat /\ End(argv[p]) <= at'
    <3> SUFFICES ASSUME NEW p \in DOMAIN argv PROVE End(argv[p]) \in Nat /\ End(argv[p]) <= at'
      OBVIOUS
    <3>1. End(argv[p]) \in Nat
      BY <1>12 DEF End, Pieces
    <3>2. End(argv[p]) <= word.start /\ word.start <= at
      BY <1>1, <1>2, <2>1
    <3> QED
      BY <1>1, <1>2, <1>4, <3>1, <3>2
  <2>3. word'.start + word'.len <= at'
    BY <1>1, <1>2, <1>4, <1>8
  <2> QED
    BY <1>5, <1>8, <2>1, <2>2, <2>3 DEF Behind, Slots
<1> QED
  BY <1>5, <1>9, <1>10, <1>11, <1>13 DEF IInv

LEMMA BeginStep == ASSUME IInv, BeginWord PROVE IInv'
<1> USE SlotNumber
<1>1. /\ at \in Nat /\ Len(mem) \in Nat /\ at < Len(mem)
      /\ at' \in Nat /\ at <= at' /\ at' <= Len(mem)
      /\ quote' \in QuoteMarks \cup {Space}
  BY DEF BeginWord, More, IInv, TypeOK
<1>2. /\ word' = [start |-> at, len |-> 0] /\ esc' = FALSE /\ phase' = "word"
      /\ UNCHANGED <<input, mem, argv>> /\ Len(argv) < Slots /\ phase = "next"
  BY DEF BeginWord, Piece, Start
<1>3. word' \in [start : Nat, len : Nat] /\ word'.start = at /\ word'.len = 0
  BY <1>1, <1>2
<1>4. TypeOK'
  <2>1. at' \in 0 .. Len(mem') /\ mem' \in Seq(Char) /\ Len(mem') = Len(input'.line)
    BY <1>1, <1>2 DEF IInv, TypeOK
  <2>2. argv' \in Seq([start : Nat, len : Nat]) /\ Len(argv') <= ArgvNum
    BY <1>2 DEF IInv, TypeOK
  <2> QED
    BY <1>1, <1>2, <1>3, <2>1, <2>2 DEF TypeOK
<1>5. UnreadIsIntact'
  BY <1>1, <1>2, UnreadStays DEF IInv
<1>6. Apart'
  BY <1>2 DEF IInv, Apart, End
<1>7. \A p \in DOMAIN argv : End(argv[p]) \in Nat /\ End(argv[p]) <= at
  BY <1>2, ArgumentTypes DEF IInv, Behind, End, Pieces
<1>8. Behind'
  BY <1>1, <1>2, <1>3, <1>7 DEF Behind, End
<1> QED
  BY <1>2, <1>4, <1>5, <1>6, <1>8 DEF IInv

LEMMA EndStep == ASSUME IInv, EndWord PROVE IInv'
<1> USE SlotNumber
<1>1. phase = "word" /\ UNCHANGED <<input, mem, quote, esc, word>> /\ at \in Nat /\ Len(mem) \in Nat /\ at <= Len(mem)
  BY DEF EndWord, IInv, TypeOK
<1>2. CASE ~IsWord
  <2>1. phase' = "rest" /\ UNCHANGED <<argv, at>>
    BY <1>2 DEF EndWord
  <2> QED
    BY <1>1, <2>1, ReadingOn DEF IInv, TypeOK
<1>3. CASE IsWord
  <2>1. argv' = Append(argv, word) /\ phase' = "skip" /\ at' \in Nat /\ at <= at' /\ at' <= Len(mem)
    BY <1>1, <1>3 DEF EndWord, IsWord, More
  <2>2. argv \in Seq(Pieces) /\ word \in Pieces
    BY ArgumentTypes DEF IInv, TypeOK, Pieces
  <2>3. Len(argv) < Slots /\ End(word) <= at' /\ \A p \in DOMAIN argv : End(argv[p]) <= word.start
    BY <1>1, <2>1, <2>2 DEF IInv, Behind, End, Pieces
  <2>4. /\ argv' \in Seq(Pieces) /\ Len(argv') = Len(argv) + 1
        /\ \A p, q \in DOMAIN argv' : p < q => End(argv'[p]) <= argv'[q].start
        /\ \A p \in DOMAIN argv' : End(argv'[p]) <= at'
    BY <2>1, <2>2, <2>3, AppendApart DEF IInv, Apart
  <2>5. Len(argv) \in Nat /\ Len(argv') <= Slots /\ Len(argv') <= ArgvNum
    BY <2>2, <2>3, <2>4 DEF Slots
  <2>6. TypeOK'
    BY <1>1, <2>1, <2>4, <2>5 DEF IInv, TypeOK, Pieces
  <2>7. Apart'
    BY <2>4 DEF Apart, End
  <2>8. Behind'
    BY <1>1, <2>1, <2>4, <2>5 DEF Behind, End, Slots
  <2>9. UnreadIsIntact'
    BY <1>1, <2>1, UnreadStays DEF IInv
  <2> QED
    BY <1>1, <2>6, <2>7, <2>8, <2>9 DEF IInv
<1> QED
  BY <1>2, <1>3

LEMMA LastStep == ASSUME IInv, LastArgument PROVE IInv'
<1> USE SlotNumber
<1>1. /\ phase = "rest" /\ phase' = "eval" /\ at' = Len(mem) /\ UNCHANGED <<input, mem, quote, esc, word>>
      /\ at \in Nat /\ Len(mem) \in Nat /\ Len(argv) <= Slots
  BY DEF LastArgument, IInv, TypeOK, Behind
<1>2. PICK first, last \in 0 .. Len(mem) :
          /\ LTrim(first)
          /\ argv' = IF first < last THEN Append(argv, Piece(first, last - first)) ELSE argv
  BY DEF LastArgument
<1>3. first \in Nat /\ last \in Nat /\ at <= first
  BY <1>1, <1>2 DEF LTrim
<1>4. argv \in Seq(Pieces) /\ Len(argv) \in Nat
  BY ArgumentTypes
<1>5. /\ argv' \in Seq(Pieces) /\ Len(argv') <= ArgvNum
      /\ \A p, q \in DOMAIN argv' : p < q => End(argv'[p]) <= argv'[q].start
  <2>1. CASE first < last
    <3> DEFINE piece == Piece(first, last - first)
    <3>1. piece \in Pieces /\ piece.start = first
      BY <1>3, <2>1 DEF Piece, Pieces
    <3>2. \A p \in DOMAIN argv : End(argv[p]) <= piece.start
      BY <1>1, <1>3, <3>1, ArgumentTypes DEF IInv, Behind, End, Pieces
    <3>3. argv' = Append(argv, piece)
      BY <1>2, <2>1
    <3> HIDE DEF piece
    <3> QED
      BY <1>1, <1>4, <3>1, <3>2, <3>3, AppendApart DEF IInv, Apart, Slots
  <2>2. CASE ~(first < last)
    BY <1>1, <1>2, <1>4, <2>2 DEF IInv, Apart, Slots
  <2> QED
    BY <2>1, <2>2
<1>6. TypeOK'
  BY <1>1, <1>5 DEF IInv, TypeOK, Pieces
<1>7. Behind' /\ Apart'
  BY <1>1, <1>5 DEF Behind, Apart, End
<1>8. UnreadIsIntact'
  BY <1>1 DEF UnreadIsIntact
<1> QED
  BY <1>1, <1>6, <1>7, <1>8 DEF IInv

\* A line that is not a command is its own only argument.
LEMMA CommandStep == ASSUME IInv, Command PROVE IInv'
<1> USE SlotNumber
<1>1. /\ phase = "prefix" /\ UNCHANGED <<input, mem, quote, esc, word>> /\ argv = <<>>
      /\ at \in Nat /\ Len(mem) \in Nat /\ at <= Len(mem)
  BY DEF Command, IInv, TypeOK, Behind
<1>2. CASE Accepted /\ at' = at + Len(input.prefix) /\ phase' = "next" /\ UNCHANGED argv
  <2>1. at' \in at .. Len(mem)
    BY <1>1, <1>2, LenProperties DEF Accepted, IInv
  <2> QED
    BY <1>1, <1>2, <2>1, ReadingOn DEF IInv, TypeOK
<1>3. CASE argv' = <<Piece(at, Len(Rest))>> /\ phase' = "eval" /\ UNCHANGED at
  <2>1. Rest \in Seq(Char)
    BY <1>1, SubSeqProperties DEF Rest, IInv, TypeOK
  <2>2. Piece(at, Len(Rest)) \in Pieces
    BY <1>1, <2>1, LenProperties DEF Piece, Pieces
  <2>3. argv' \in Seq(Pieces) /\ Len(argv') = 1 /\ DOMAIN argv' = {1}
    BY <1>3, <2>2
  <2>4. TypeOK'
    BY <1>1, <1>3, <2>3 DEF IInv, TypeOK, Pieces
  <2>5. Behind' /\ Apart'
    BY <1>3, <2>3 DEF Behind, Apart
  <2>6. UnreadIsIntact'
    BY <1>1, <1>3 DEF IInv, UnreadIsIntact
  <2> QED
    BY <1>1, <2>4, <2>5, <2>6 DEF IInv
<1> QED
  BY <1>2, <1>3 DEF Command

\* The start of a line, and of the wait for one.
LEMMA ResetStep ==
    ASSUME IInv, NEW entered, entered.line \in Seq(Char), entered.prefix \in Seq(Char),
           NEW step \in {"ended", "idle", "trim"}, Reset(entered, step)
    PROVE  IInv'
<1> USE SlotNumber
<1>1. /\ input' = entered /\ mem' = entered.line /\ at' = 0 /\ phase' = step
      /\ quote' = Space /\ esc' = FALSE /\ word' = [start |-> 0, len |-> 0] /\ argv' = <<>>
  BY DEF Reset, Piece
<1>2. TypeOK'
  <2>1. at' \in 0 .. Len(mem') /\ mem' \in Seq(Char) /\ Len(mem') = Len(input'.line)
    BY <1>1, LenProperties
  <2>2. argv' \in Seq([start : Nat, len : Nat]) /\ Len(argv') = 0
    BY <1>1
  <2>3. word' \in [start : Nat, len : Nat]
    BY <1>1
  <2>4. 0 <= ArgvNum /\ phase' \in {"ended", "idle", "trim"} /\ quote' = Space /\ esc' = FALSE
    BY <1>1
  <2> QED
    BY <2>1, <2>2, <2>3, <2>4 DEF TypeOK
<1>3. Behind' /\ Apart' /\ UnreadIsIntact'
  BY <1>1 DEF Behind, Apart, UnreadIsIntact
<1> QED
  BY <1>1, <1>2, <1>3 DEF IInv

LEMMA IInvInit == Init => IInv
<1> SUFFICES ASSUME Init PROVE IInv
  OBVIOUS
<1> USE SlotNumber
<1>1. TypeOK
  <2>1. mem \in Seq(Char) /\ Len(mem) = 0 /\ Len(input.line) = 0 /\ at \in 0 .. Len(mem)
    BY DEF Init, NoLine
  <2>2. argv \in Seq([start : Nat, len : Nat]) /\ Len(argv) = 0
    BY DEF Init
  <2>3. word \in [start : Nat, len : Nat]
    BY DEF Init, Piece
  <2>4. 0 <= ArgvNum /\ phase = "ended" /\ quote = Space /\ esc = FALSE
    BY DEF Init
  <2> QED
    BY <2>1, <2>2, <2>3, <2>4 DEF TypeOK
<1>2. Behind /\ Apart /\ UnreadIsIntact
  BY DEF Init, NoLine, Behind, Apart, UnreadIsIntact
<1> QED
  BY <1>1, <1>2 DEF Init, NoLine, IInv

LEMMA IInvNext == IInv /\ [Next]_vars => IInv'
<1> SUFFICES ASSUME IInv, [Next]_vars PROVE IInv'
  OBVIOUS
<1>0. at \in Nat /\ Len(mem) \in Nat /\ at <= Len(mem) /\ quote \in QuoteMarks \cup {Space} /\ esc \in BOOLEAN
  BY DEF IInv, TypeOK
<1>1. CASE Gets
  BY <1>1, ResetStep, ReplAssumption DEF Gets
<1>2. ASSUME NEW step \in {"ended", "idle"}, Reset(NoLine, step) PROVE IInv'
  <2>1. NoLine.line = <<>> /\ NoLine.prefix = <<>>
    BY DEF NoLine
  <2>2. NoLine.line \in Seq(Char) /\ NoLine.prefix \in Seq(Char)
    BY <2>1
  <2> QED
    BY <1>2, <2>2, ResetStep
<1>3. CASE Trim
  BY <1>0, <1>3, ReadingOn DEF Trim, LTrim
<1>4. CASE Command
  BY <1>4, CommandStep
<1>5. CASE BeginWord
  BY <1>5, BeginStep
<1>6. CASE EndOfWords
  BY <1>0, <1>6, ReadingOn DEF EndOfWords
<1>7. CASE Backslash
  BY <1>0, <1>7, ReadingOn DEF Backslash, More
<1>8. CASE Copy
  BY <1>8, CopyStep
<1>9. CASE EndWord
  BY <1>9, EndStep
<1>10. CASE SkipSpaces
  BY <1>0, <1>10, ReadingOn DEF SkipSpaces, LTrim
<1>11. CASE LastArgument
  BY <1>11, LastStep
<1>12. CASE UNCHANGED vars
  BY <1>12 DEF vars, IInv, TypeOK, Behind, Apart, UnreadIsIntact, End
<1> QED
  BY <1>1, <1>2, <1>3, <1>4, <1>5, <1>6, <1>7, <1>8, <1>9, <1>10, <1>11, <1>12 DEF Next, Run, NoMore, LineDone, Empty, Eval

\* No character of a line is written over before it was read, and no argument by a
\* later one, for every line, prefix and number of slots.
THEOREM SplitInPlace == Spec => []InPlaceIsSafe
<1>1. IInv => InPlaceIsSafe
  BY DEF IInv, InPlaceIsSafe, Apart, ArgumentsAreApart, End
<1> QED
  BY <1>1, IInvInit, IInvNext, PTL DEF Spec

\* argv has a slot for every argument.
THEOREM TypeCorrect == Spec => []TypeOK
<1>1. IInv => TypeOK
  BY DEF IInv
<1> QED
  BY <1>1, IInvInit, IInvNext, PTL DEF Spec

-----------------------------------------------------------------------------
(* Repl: the words of a line *)

Quotes == QuoteMarks \cup {Space}

LEMMA QuotesAreChars == Quotes \subseteq Char /\ Space \in Char /\ Escape \in Char /\ Space # Escape /\ Escape \notin Quotes
BY ReplAssumption DEF Quotes

LEMMA OneBefore ==
    ASSUME NEW c \in Char, NEW r \in Seq(Char)
    PROVE  <<c>> \o r \in Seq(Char) /\ <<c>> \o r # <<>> /\ Len(<<c>> \o r) = Len(r) + 1
           /\ (<<c>> \o r)[1] = c /\ \A q \in 1 .. Len(r) : (<<c>> \o r)[1 + q] = r[q]
<1> DEFINE one == <<c>>
<1>1. one \in Seq(Char) /\ Len(one) = 1 /\ one[1] = c
  OBVIOUS
<1> HIDE DEF one
<1> DEFINE l == Len(r)
           both == one \o r
<1>2. l \in Nat /\ both \in Seq(Char) /\ Len(both) = 1 + l
      /\ \A q \in 1 .. 1 + l : both[q] = IF q <= 1 THEN one[q] ELSE r[q - 1]
  <2>1. /\ both \in Seq(Char) /\ Len(both) = Len(one) + Len(r)
        /\ \A q \in 1 .. Len(one) + Len(r) : both[q] = IF q <= Len(one) THEN one[q] ELSE r[q - Len(one)]
    BY <1>1, ConcatProperties
  <2>2. l \in Nat
    BY LenProperties
  <2> HIDE DEF both
  <2> QED
    BY <1>1, <2>1, <2>2
<1> HIDE DEF both, l
<1>3. both[1] = c
  <2>1. 1 \in 1 .. 1 + l
    BY <1>2
  <2> QED
    BY <1>1, <1>2, <2>1
<1>4. ASSUME NEW q \in 1 .. l PROVE both[1 + q] = r[q]
  <2>1. 1 + q \in 1 .. 1 + l /\ ~(1 + q <= 1) /\ (1 + q) - 1 = q
    BY <1>2
  <2> QED
    BY <1>2, <2>1
<1>5. both # <<>>
  BY <1>2, EmptySeq
<1>6. Len(both) = l + 1
  BY <1>2
<1> QED
  BY <1>2, <1>3, <1>4, <1>5, <1>6 DEF both, l, one

LEMMA OneBeforeTells ==
    ASSUME NEW c \in Char, NEW d \in Char, NEW r \in Seq(Char), NEW s \in Seq(Char), <<c>> \o r = <<d>> \o s
    PROVE  c = d /\ r = s
<1>1. c = d
  BY OneBefore
<1>2. Len(r) = Len(s) /\ Len(r) \in Nat
  <2>1. Len(r) + 1 = Len(s) + 1
    BY OneBefore
  <2> QED
    BY <2>1, LenProperties
<1>3. \A q \in 1 .. Len(r) : r[q] = s[q]
  BY <1>2, OneBefore
<1> QED
  BY <1>1, <1>2, <1>3, SeqEqual

\* What is left of a line behind its n-th character.
LeftFrom(line, n) == SubSeq(line, n + 1, Len(line))

LEMMA LeftIs ==
    ASSUME NEW line \in Seq(Char), NEW n \in 0 .. Len(line)
    PROVE  /\ LeftFrom(line, n) \in Seq(Char)
           /\ n = Len(line) => LeftFrom(line, n) = <<>>
           /\ n < Len(line) => LeftFrom(line, n) = <<line[n + 1]>> \o LeftFrom(line, n + 1)
<1> DEFINE l == Len(line)
<1>1. l \in Nat /\ n \in Nat /\ n <= l /\ \A q \in 1 .. l : line[q] \in Char
  OBVIOUS
<1>2. ASSUME NEW m \in 0 .. l
      PROVE  /\ LeftFrom(line, m) \in Seq(Char) /\ Len(LeftFrom(line, m)) = l - m
             /\ \A q \in 1 .. l - m : LeftFrom(line, m)[q] = line[m + q]
  <2> DEFINE rest == SubSeq(line, m + 1, l)
  <2>1. m \in Nat /\ m <= l /\ \A q \in m + 1 .. l : line[q] \in Char
    BY <1>1
  <2>2. /\ rest \in Seq(Char)
        /\ Len(rest) = IF m + 1 <= l THEN l - (m + 1) + 1 ELSE 0
        /\ \A q \in 1 .. l - (m + 1) + 1 : rest[q] = line[(m + 1) + q - 1]
    BY <1>1, <2>1, SubSeqProperties
  <2>3. l - (m + 1) + 1 = l - m /\ \A q \in 1 .. l - m : (m + 1) + q - 1 = m + q
    BY <1>1, <2>1
  <2>4. LeftFrom(line, m) = rest
    BY DEF LeftFrom
  <2> HIDE DEF rest, l
  <2>5. Len(rest) = l - m
    BY <1>1, <2>1, <2>2
  <2> QED
    BY <2>2, <2>3, <2>4, <2>5
<1> HIDE DEF l
<1>3. ASSUME n = l PROVE LeftFrom(line, n) = <<>>
  <2>1. Len(LeftFrom(line, n)) = 0
    BY <1>1, <1>2, <1>3
  <2> QED
    BY <1>1, <1>2, <2>1, EmptySeq
<1>4. ASSUME n < l PROVE LeftFrom(line, n) = <<line[n + 1]>> \o LeftFrom(line, n + 1)
  <2> DEFINE c == line[n + 1]
             r == LeftFrom(line, n + 1)
             s == LeftFrom(line, n)
             cr == <<c>> \o r
  <2>1. n + 1 \in 0 .. l /\ n + 1 \in 1 .. l /\ n \in 0 .. l
    BY <1>1, <1>4
  <2>2. /\ r \in Seq(Char) /\ Len(r) = l - (n + 1) /\ \A q \in 1 .. l - (n + 1) : r[q] = line[(n + 1) + q]
    BY <1>2, <2>1
  <2>3. s \in Seq(Char) /\ Len(s) = l - n /\ \A q \in 1 .. l - n : s[q] = line[n + q]
    BY <1>2, <2>1
  <2>4. c \in Char
    BY <1>1, <2>1
  <2> HIDE DEF c, r, s
  <2>5. cr \in Seq(Char) /\ Len(cr) = Len(r) + 1 /\ cr[1] = c /\ \A q \in 1 .. Len(r) : cr[1 + q] = r[q]
    BY <2>2, <2>4, OneBefore
  <2> HIDE DEF cr
  <2>6. Len(cr) = Len(s)
    BY <1>1, <1>4, <2>2, <2>3, <2>5
  <2>7. ASSUME NEW q \in 1 .. Len(s) PROVE cr[q] = s[q]
    <3>1. q \in 1 .. l - n /\ q \in Nat
      BY <2>3
    <3>2. CASE q = 1
      BY <2>3, <2>5, <3>1, <3>2 DEF c
    <3>3. CASE q # 1
      <4> DEFINE p == q - 1
      <4>1. p \in 1 .. l - (n + 1) /\ q = 1 + p /\ (n + 1) + p = n + q
        BY <1>1, <3>1, <3>3
      <4> HIDE DEF p
      <4>2. cr[q] = r[p] /\ r[p] = line[n + q]
        BY <2>2, <2>5, <4>1
      <4> QED
        BY <2>3, <3>1, <4>2
    <3> QED
      BY <3>2, <3>3
  <2>8. cr = s
    BY <2>3, <2>5, <2>6, <2>7, SeqEqual
  <2> QED
    BY <2>8 DEF cr, c, r, s
<1> QED
  BY <1>1, <1>2, <1>3, <1>4 DEF l

\* At the character at hand, and further on in the line, nothing was written over.
LEMMA FurtherOn ==
    ASSUME IInv, NEW n \in at .. Len(mem), NEW c \in Char, NEW r \in Seq(Char), LeftFrom(input.line, n) = <<c>> \o r
    PROVE  n < Len(mem) /\ mem[n + 1] = c /\ LeftFrom(input.line, n + 1) = r
<1> DEFINE line == input.line
<1>1. line \in Seq(Char) /\ n \in 0 .. Len(line) /\ Len(mem) = Len(line) /\ at \in Nat /\ n \in Nat /\ at <= n /\ Len(line) \in Nat
  BY DEF IInv, TypeOK
<1>2. n # Len(line)
  BY <1>1, LeftIs, OneBefore
<1>3. n < Len(line) /\ n + 1 \in 1 .. Len(line) /\ n + 1 \in 0 .. Len(line) /\ n + 1 \in at + 1 .. Len(mem)
  BY <1>1, <1>2
<1>4. mem[n + 1] = line[n + 1] /\ line[n + 1] \in Char
  BY <1>1, <1>3 DEF IInv, UnreadIsIntact
<1>5. LeftFrom(line, n) = <<line[n + 1]>> \o LeftFrom(line, n + 1)
  BY <1>1, <1>3, LeftIs
<1> DEFINE m == n + 1
<1>6. LeftFrom(line, m) \in Seq(Char)
  <2>1. m \in 0 .. Len(line)
    BY <1>3
  <2> HIDE DEF m, line
  <2> QED
    BY <1>1, <2>1, LeftIs
<1> HIDE DEF line
<1>7. <<line[n + 1]>> \o LeftFrom(line, n + 1) = <<c>> \o r
  BY <1>5 DEF line
<1>8. line[n + 1] = c /\ LeftFrom(line, n + 1) = r
  <2> DEFINE d == line[n + 1]
             s == LeftFrom(line, n + 1)
  <2>1. d \in Char /\ s \in Seq(Char) /\ <<d>> \o s = <<c>> \o r
    BY <1>4, <1>6, <1>7
  <2> HIDE DEF d, s
  <2>2. \A x \in Char, y \in Seq(Char) : <<x>> \o y = <<c>> \o r => x = c /\ y = r
    BY OneBeforeTells
  <2>3. d = c /\ s = r
    BY <2>1, <2>2
  <2> QED
    BY <2>3 DEF d, s
<1> QED
  BY <1>1, <1>3, <1>4, <1>8 DEF line

LEMMA TakesOne ==
    ASSUME IInv, NEW c \in Char, NEW r \in Seq(Char), LeftFrom(input.line, at) = <<c>> \o r
    PROVE  More /\ Ch = c /\ LeftFrom(input.line, at + 1) = r
<1>1. at \in at .. Len(mem)
  BY DEF IInv, TypeOK
<1> QED
  BY <1>1, FurtherOn DEF More, Ch

LEMMA TakesNone ==
    ASSUME IInv
    PROVE  LeftFrom(input.line, at) = <<>> <=> ~More
<1> DEFINE line == input.line
<1>1. line \in Seq(Char) /\ at \in 0 .. Len(line) /\ Len(mem) = Len(line) /\ at \in Nat /\ Len(line) \in Nat
  BY DEF IInv, TypeOK
<1> HIDE DEF line
<1>2. ASSUME ~More PROVE LeftFrom(line, at) = <<>>
  <2>1. at = Len(line)
    BY <1>1, <1>2 DEF More
  <2> QED
    BY <1>1, <2>1, LeftIs
<1>3. ASSUME More PROVE LeftFrom(line, at) # <<>>
  <2>1. at < Len(line) /\ at + 1 \in 1 .. Len(line) /\ at + 1 \in 0 .. Len(line)
    BY <1>1, <1>3 DEF More
  <2>2. line[at + 1] \in Char
    BY <1>1, <2>1
  <2>3. LeftFrom(line, at) = <<line[at + 1]>> \o LeftFrom(line, at + 1)
    BY <1>1, <2>1, LeftIs
  <2> DEFINE n == at + 1
  <2>4. n \in 0 .. Len(line)
    BY <2>1
  <2> HIDE DEF n
  <2>5. LeftFrom(line, n) \in Seq(Char)
    BY <1>1, <2>4, LeftIs
  <2> QED
    BY <2>2, <2>3, <2>5, OneBefore DEF n
<1> QED
  BY <1>2, <1>3 DEF line

\* One character as it is spelled, with what is behind it.
OneSpelled(c, mark, r) == IF c \in Special(mark) THEN <<Escape>> \o (<<c>> \o r) ELSE <<c>> \o r

\* The characters of a word as they are spelled, one after the other.
LEMMA EscapedIs ==
    ASSUME NEW text \in Seq(Char), NEW mark \in Quotes, NEW behind \in Seq(Char)
    PROVE  /\ Escaped(text, mark, behind, 0) = behind
           /\ \A n \in 0 .. Len(text) : Escaped(text, mark, behind, n) \in Seq(Char)
           /\ \A n \in 1 .. Len(text) :
                Escaped(text, mark, behind, n) =
                    OneSpelled(text[Len(text) - n + 1], mark, Escaped(text, mark, behind, n - 1))
<1> DEFINE l == Len(text)
           C(m) == text[l - m + 1]
           Next1(m, r) == OneSpelled(C(m), mark, r)
           Loop(f) == f = [m \in 0 .. l |-> IF m = 0 THEN behind ELSE Next1(m, f[m - 1])]
           f == CHOOSE f : Loop(f)
           step == [m \in 1 .. l |-> [r \in Seq(Char) |-> Next1(m, r)]]
<1>1. l \in Nat /\ \A m \in 1 .. l : C(m) \in Char
  <2>1. l \in Nat /\ \A m \in 1 .. l : text[m] \in Char
    OBVIOUS
  <2> HIDE DEF l
  <2>2. \A m \in 1 .. l : l - m + 1 \in 1 .. l
    BY <2>1
  <2> QED
    BY <2>1, <2>2
<1>2. \A n : Escaped(text, mark, behind, n) = f[n]
  BY DEF Escaped, OneSpelled
<1> HIDE DEF C, l
<1>3. \A m \in 1 .. l, r \in Seq(Char) : Next1(m, r) \in Seq(Char)
  BY <1>1, OneBefore, QuotesAreChars DEF OneSpelled
<1> HIDE DEF Next1
<1>4. step \in [1 .. l -> [Seq(Char) -> Seq(Char)]]
  BY <1>3
<1>5. PICK h : Builds(Seq(Char), behind, step, l, h)
  <2> HIDE DEF step
  <2> QED
    BY <1>1, <1>4, Built
<1>6. h \in [0 .. l -> Seq(Char)] /\ h[0] = behind /\ \A m \in 1 .. l : h[m] = Next1(m, h[m - 1])
  <2>1. h \in [0 .. l -> Seq(Char)] /\ h[0] = behind /\ \A m \in 1 .. l : h[m] = step[m][h[m - 1]]
    BY <1>5 DEF Builds
  <2>2. \A m \in 1 .. l : m - 1 \in 0 .. l
    BY <1>1
  <2> QED
    BY <2>1, <2>2
<1>7. Loop(h)
  BY <1>6
<1>8. Loop(f)
  BY <1>7
<1> HIDE DEF f
<1>9. f[0] = behind /\ \A m \in 1 .. l : f[m] = Next1(m, f[m - 1])
  BY <1>1, <1>8
<1>10. \A m \in 0 .. l : f[m] \in Seq(Char)
  <2>1. f[0] \in Seq(Char) /\ \A m \in 1 .. l : f[m - 1] \in Seq(Char) => f[m] \in Seq(Char)
    BY <1>3, <1>9
  <2> QED
    BY <1>1, <2>1, StaysIn
<1> QED
  BY <1>2, <1>9, <1>10 DEF Next1, C, l

\* What follows when n words are left: nothing, or the space before them.
BehindWord(texts, marks, n) == IF n = 0 THEN <<>> ELSE <<Space>> \o Words(texts, marks, n)

LEMMA SpellingIs ==
    ASSUME NEW text \in Seq(Char), NEW mark \in Quotes, NEW behind \in Seq(Char)
    PROVE  Spelling(text, mark, behind) \in Seq(Char)
<1>1. mark \in Char /\ <<mark>> \o behind \in Seq(Char)
  BY OneBefore, QuotesAreChars
<1>2. Len(text) \in 0 .. Len(text)
  OBVIOUS
<1>3. Escaped(text, mark, behind, Len(text)) \in Seq(Char)
  BY <1>2, EscapedIs
<1> DEFINE b == <<mark>> \o behind
<1>4. Escaped(text, mark, b, Len(text)) \in Seq(Char)
  <2> HIDE DEF b
  <2>1. b \in Seq(Char)
    BY <1>1 DEF b
  <2> QED
    BY <1>2, <2>1, EscapedIs
<1> DEFINE e == Escaped(text, mark, b, Len(text))
<1>5. <<mark>> \o e \in Seq(Char)
  <2> HIDE DEF e
  <2> QED
    BY <1>1, <1>4, OneBefore DEF e
<1> QED
  BY <1>3, <1>5 DEF Spelling

LEMMA WordsAre ==
    ASSUME NEW texts \in Seq(Seq(Char)), NEW marks \in [DOMAIN texts -> Quotes]
    PROVE  /\ Words(texts, marks, 0) = <<>>
           /\ \A n \in 0 .. Len(texts) : Words(texts, marks, n) \in Seq(Char) /\ BehindWord(texts, marks, n) \in Seq(Char)
           /\ \A n \in 1 .. Len(texts) :
                LET p == Len(texts) - n + 1
                IN  Words(texts, marks, n) = Spelling(texts[p], marks[p], BehindWord(texts, marks, n - 1))
<1> DEFINE l == Len(texts)
           P(m) == l - m + 1
           Next1(m, r) == Spelling(texts[P(m)], marks[P(m)], IF m = 1 THEN <<>> ELSE <<Space>> \o r)
           Loop(f) == f = [m \in 0 .. l |-> IF m = 0 THEN <<>> ELSE Next1(m, f[m - 1])]
           f == CHOOSE f : Loop(f)
           step == [m \in 1 .. l |-> [r \in Seq(Char) |-> Next1(m, r)]]
<1>1. l \in Nat /\ \A m \in 1 .. l : texts[P(m)] \in Seq(Char) /\ marks[P(m)] \in Quotes
  <2>1. l \in Nat /\ \A m \in 1 .. l : texts[m] \in Seq(Char) /\ marks[m] \in Quotes
    OBVIOUS
  <2> HIDE DEF l
  <2>2. \A m \in 1 .. l : P(m) \in 1 .. l
    BY <2>1
  <2> QED
    BY <2>1, <2>2
<1>2. \A n : Words(texts, marks, n) = f[n]
  BY DEF Words
<1> HIDE DEF P, l
<1>0. \A r \in Seq(Char) : <<Space>> \o r \in Seq(Char)
  BY OneBefore, QuotesAreChars
<1>3. \A m \in 1 .. l, r \in Seq(Char) : Next1(m, r) \in Seq(Char)
  <2> SUFFICES ASSUME NEW m \in 1 .. l, NEW r \in Seq(Char) PROVE Next1(m, r) \in Seq(Char)
    OBVIOUS
  <2> DEFINE b == IF m = 1 THEN <<>> ELSE <<Space>> \o r
  <2>1. b \in Seq(Char)
    BY <1>0
  <2> HIDE DEF b
  <2> QED
    BY <1>1, <2>1, SpellingIs DEF b
<1> HIDE DEF Next1
<1>4. step \in [1 .. l -> [Seq(Char) -> Seq(Char)]]
  BY <1>3
<1>5. PICK h : Builds(Seq(Char), <<>>, step, l, h)
  <2>1. <<>> \in Seq(Char)
    OBVIOUS
  <2> HIDE DEF step
  <2> QED
    BY <1>1, <1>4, <2>1, Built
<1>6. h \in [0 .. l -> Seq(Char)] /\ h[0] = <<>> /\ \A m \in 1 .. l : h[m] = Next1(m, h[m - 1])
  <2>1. h \in [0 .. l -> Seq(Char)] /\ h[0] = <<>> /\ \A m \in 1 .. l : h[m] = step[m][h[m - 1]]
    BY <1>5 DEF Builds
  <2>2. \A m \in 1 .. l : m - 1 \in 0 .. l
    BY <1>1
  <2> QED
    BY <2>1, <2>2
<1>7. Loop(h)
  BY <1>6
<1>8. Loop(f)
  BY <1>7
<1> HIDE DEF f
<1>9. f[0] = <<>> /\ \A m \in 1 .. l : f[m] = Next1(m, f[m - 1])
  BY <1>1, <1>8
<1>10. \A m \in 0 .. l : f[m] \in Seq(Char)
  <2>1. f[0] \in Seq(Char) /\ \A m \in 1 .. l : f[m - 1] \in Seq(Char) => f[m] \in Seq(Char)
    BY <1>3, <1>9
  <2> QED
    BY <1>1, <2>1, StaysIn
<1>11. \A n \in 0 .. l : BehindWord(texts, marks, n) \in Seq(Char)
  BY <1>0, <1>2, <1>10 DEF BehindWord
<1>12. ASSUME NEW m \in 1 .. l
       PROVE  Words(texts, marks, m) = Spelling(texts[P(m)], marks[P(m)], BehindWord(texts, marks, m - 1))
  <2>1. m = 1 <=> m - 1 = 0
    BY <1>1
  <2>2. BehindWord(texts, marks, m - 1) = IF m = 1 THEN <<>> ELSE <<Space>> \o f[m - 1]
    BY <1>2, <2>1 DEF BehindWord
  <2>3. Words(texts, marks, m) = Next1(m, f[m - 1])
    BY <1>2, <1>9
  <2> QED
    BY <2>2, <2>3 DEF Next1
<1> QED
  BY <1>2, <1>9, <1>10, <1>11, <1>12 DEF P, l

\* The marks an input's words are written in, what its last n words are written as,
\* and what is behind the p-th word's last character.
Around(line)        == CHOOSE marks \in MarksFor(line.words) : line.line = line.prefix \o Words(line.words, marks, Len(line.words))
LastWords(line, n)  == Words(line.words, Around(line), n)
NextWords(line, n)  == BehindWord(line.words, Around(line), n)
BehindText(line, p) ==
    IF Around(line)[p] = Space THEN NextWords(line, Len(line.words) - p)
    ELSE <<Around(line)[p]>> \o NextWords(line, Len(line.words) - p)

LEMMA LineIs ==
    ASSUME NEW line \in Inputs, line.words # NoWords
    PROVE  /\ line.words \in Seq(Seq(Char)) /\ Len(line.words) \in Nat /\ Len(line.words) <= Slots
           /\ Around(line) \in [DOMAIN line.words -> Quotes]
           /\ \A p \in DOMAIN line.words : Around(line)[p] = Space => line.words[p] # <<>>
           /\ line.prefix \in Seq(Char) /\ (line.prefix # <<>> => line.prefix[1] # Space)
           /\ line.line \in Seq(Char) /\ line.line = line.prefix \o LastWords(line, Len(line.words))
<1>1. /\ line.words \in Seq(Seq(Char)) /\ Len(line.words) <= Slots
      /\ line.prefix # <<>> => line.prefix[1] # Space
      /\ \E marks \in MarksFor(line.words) : line.line = line.prefix \o Words(line.words, marks, Len(line.words))
  BY WordsAssumption
<1>2. Around(line) \in MarksFor(line.words) /\ line.line = line.prefix \o Words(line.words, Around(line), Len(line.words))
  BY <1>1 DEF Around
<1>3. line.line \in Seq(Char) /\ line.prefix \in Seq(Char)
  BY ReplAssumption
<1>4. Around(line) \in [DOMAIN line.words -> Quotes]
      /\ \A p \in DOMAIN line.words : Around(line)[p] = Space => line.words[p] # <<>>
  BY <1>2 DEF MarksFor, Quotes
<1>5. Len(line.words) \in Nat
  BY <1>1, LenProperties
<1> QED
  BY <1>1, <1>2, <1>3, <1>4, <1>5 DEF LastWords

LEMMA WordIs ==
    ASSUME NEW line \in Inputs, line.words # NoWords, NEW p \in 1 .. Len(line.words)
    PROVE  LET text == line.words[p]
               mark == Around(line)[p]
               n    == Len(line.words) - p
               spelled == Escaped(text, mark, BehindText(line, p), Len(text))
           IN  /\ text \in Seq(Char) /\ mark \in Quotes /\ mark \in Char /\ (mark = Space => text # <<>>)
               /\ NextWords(line, n) \in Seq(Char) /\ BehindText(line, p) \in Seq(Char)
               /\ LastWords(line, n + 1) \in Seq(Char)
               /\ mark = Space => LastWords(line, n + 1) = spelled /\ BehindText(line, p) = NextWords(line, n)
               /\ mark # Space => /\ LastWords(line, n + 1) = <<mark>> \o spelled
                                  /\ BehindText(line, p) = <<mark>> \o NextWords(line, n)
<1> DEFINE text == line.words[p]
           mark == Around(line)[p]
           count    == Len(line.words)
           n    == count - p
           end  == BehindText(line, p)
           next == NextWords(line, n)
<1>1. /\ line.words \in Seq(Seq(Char)) /\ count \in Nat /\ Around(line) \in [DOMAIN line.words -> Quotes]
      /\ DOMAIN line.words = 1 .. count
      /\ mark = Space => text # <<>>
  <2>1. /\ line.words \in Seq(Seq(Char)) /\ count \in Nat /\ Around(line) \in [DOMAIN line.words -> Quotes]
        /\ \A x \in DOMAIN line.words : Around(line)[x] = Space => line.words[x] # <<>>
    BY LineIs
  <2>2. DOMAIN line.words = 1 .. count
    BY <2>1
  <2> QED
    BY <2>1, <2>2
<1>2. text \in Seq(Char) /\ mark \in Quotes /\ mark \in Char
  <2>1. p \in DOMAIN line.words /\ p \in 1 .. count
    BY <1>1
  <2>2. text \in Seq(Char)
    BY <1>1, <2>1, ElementOfSeq
  <2>3. mark \in Quotes
    BY <1>1, <2>1
  <2> QED
    BY <2>2, <2>3, QuotesAreChars
<1>3. n \in 0 .. count /\ n + 1 \in 1 .. count /\ n + 1 \in 0 .. count /\ (n + 1) - 1 = n /\ count - (n + 1) + 1 = p
  BY <1>1
<1>4. /\ next \in Seq(Char) /\ LastWords(line, n + 1) \in Seq(Char)
      /\ LastWords(line, n + 1) = Spelling(line.words[count - (n + 1) + 1], Around(line)[count - (n + 1) + 1], BehindWord(line.words, Around(line), (n + 1) - 1))
  <2> DEFINE m == n + 1
  <2>1. m \in 1 .. count /\ m \in 0 .. count /\ n \in 0 .. count
    BY <1>3
  <2> HIDE DEF m, n, count
  <2>2. \A x \in 0 .. count : Words(line.words, Around(line), x) \in Seq(Char) /\ BehindWord(line.words, Around(line), x) \in Seq(Char)
    BY <1>1, WordsAre DEF count
  <2>3. \A x \in 1 .. count : Words(line.words, Around(line), x) =
            Spelling(line.words[count - x + 1], Around(line)[count - x + 1], BehindWord(line.words, Around(line), x - 1))
    BY <1>1, WordsAre DEF count
  <2>4. next \in Seq(Char)
    BY <2>1, <2>2 DEF NextWords
  <2>5. /\ LastWords(line, m) \in Seq(Char)
        /\ LastWords(line, m) = Spelling(line.words[count - m + 1], Around(line)[count - m + 1], BehindWord(line.words, Around(line), m - 1))
    BY <2>1, <2>2, <2>3 DEF LastWords
  <2> QED
    BY <2>4, <2>5 DEF m
<1>5. LastWords(line, n + 1) = Spelling(text, mark, next)
  BY <1>3, <1>4 DEF NextWords
<1>6. end = IF mark = Space THEN next ELSE <<mark>> \o next
  BY DEF BehindText
<1> HIDE DEF text, mark, n, count, end, next
<1>7. end \in Seq(Char)
  BY <1>2, <1>4, <1>6, OneBefore
<1>8. LastWords(line, n + 1) = IF mark = Space THEN Escaped(text, mark, end, Len(text)) ELSE <<mark>> \o Escaped(text, mark, end, Len(text))
  BY <1>5, <1>6 DEF Spelling
<1> QED
  BY <1>1, <1>2, <1>4, <1>6, <1>7, <1>8 DEF text, mark, n, count, end, next

\* What a word begins with: its mark, or a character that is none and no space.
LEMMA WordsBegin ==
    ASSUME NEW line \in Inputs, line.words # NoWords, NEW p \in 1 .. Len(line.words)
    PROVE  \E c \in Char, r \in Seq(Char) :
             /\ LastWords(line, Len(line.words) - p + 1) = <<c>> \o r /\ c # Space
             /\ Around(line)[p] = Space => c \notin QuoteMarks
             /\ Around(line)[p] # Space => c = Around(line)[p]
<1> DEFINE text == line.words[p]
           mark == Around(line)[p]
           l    == Len(text)
           end  == BehindText(line, p)
           spelled == Escaped(text, mark, end, l)
           words == LastWords(line, Len(line.words) - p + 1)
<1>1. /\ text \in Seq(Char) /\ mark \in Quotes /\ mark \in Char /\ (mark = Space => text # <<>>)
      /\ end \in Seq(Char)
      /\ words = IF mark = Space THEN spelled ELSE <<mark>> \o spelled
  BY WordIs
<1> HIDE DEF words, mark, text, end
<1>2. l \in Nat /\ l \in 0 .. l
  BY <1>1, LenProperties
<1> HIDE DEF l
<1>3. spelled \in Seq(Char)
  BY <1>1, <1>2, EscapedIs DEF l
<1>4. CASE mark # Space
  BY <1>1, <1>3, <1>4 DEF words, mark
<1>5. CASE mark = Space
  <2>1. l # 0 /\ l \in 1 .. l /\ l - l + 1 = 1 /\ l - 1 \in 0 .. l /\ 1 \in 1 .. l
    <3>1. l # 0
      BY <1>1, <1>5, EmptySeq DEF l
    <3> QED
      BY <1>2, <3>1
  <2> DEFINE c == text[1]
             r == Escaped(text, mark, end, l - 1)
  <2>2. c \in Char
    BY <1>1, <2>1 DEF l
  <2>3. r \in Seq(Char) /\ spelled = OneSpelled(c, mark, r)
    <3>1. \A n \in 0 .. l : Escaped(text, mark, end, n) \in Seq(Char)
      BY <1>1, EscapedIs DEF l
    <3>2. \A n \in 1 .. l : Escaped(text, mark, end, n) = OneSpelled(text[l - n + 1], mark, Escaped(text, mark, end, n - 1))
      BY <1>1, EscapedIs DEF l
    <3>3. spelled = OneSpelled(text[l - l + 1], mark, Escaped(text, mark, end, l - 1))
      BY <2>1, <3>2
    <3> QED
      BY <2>1, <3>1, <3>3
  <2> HIDE DEF c, r, spelled
  <2>4. Special(mark) = {Space, Escape} \cup QuoteMarks
    BY <1>5 DEF Special
  <2>5. CASE c \in Special(mark)
    <3>1. spelled = <<Escape>> \o (<<c>> \o r) /\ <<c>> \o r \in Seq(Char)
      BY <2>2, <2>3, <2>5, OneBefore DEF OneSpelled
    <3>2. Escape \in Char /\ Escape # Space /\ Escape \notin QuoteMarks
      BY QuotesAreChars DEF Quotes
    <3> QED
      BY <1>1, <1>5, <3>1, <3>2 DEF words, mark
  <2>6. CASE c \notin Special(mark)
    <3>1. spelled = <<c>> \o r
      BY <2>3, <2>6 DEF OneSpelled
    <3> QED
      BY <1>1, <1>5, <2>2, <2>3, <2>4, <2>6, <3>1 DEF words, mark
  <2> QED
    BY <2>5, <2>6
<1> QED
  BY <1>4, <1>5

\* What is left to read of a word, and of what is behind it, when n of its characters
\* were read.
SpelledFrom(line, p, n) == Escaped(line.words[p], Around(line)[p], BehindText(line, p), Len(line.words[p]) - n)

LEMMA SpelledOn ==
    ASSUME NEW line \in Inputs, line.words # NoWords, NEW p \in 1 .. Len(line.words), NEW n \in 0 .. Len(line.words[p])
    PROVE  /\ SpelledFrom(line, p, n) \in Seq(Char)
           /\ n = Len(line.words[p]) => SpelledFrom(line, p, n) = BehindText(line, p)
           /\ n < Len(line.words[p]) =>
                /\ line.words[p][n + 1] \in Char
                /\ SpelledFrom(line, p, n) = OneSpelled(line.words[p][n + 1], Around(line)[p], SpelledFrom(line, p, n + 1))
<1> DEFINE text == line.words[p]
           mark == Around(line)[p]
           end  == BehindText(line, p)
           l    == Len(text)
           m    == l - n
<1>1. text \in Seq(Char) /\ mark \in Quotes /\ end \in Seq(Char)
  BY WordIs
<1>2. SpelledFrom(line, p, n) = Escaped(text, mark, end, m) /\ SpelledFrom(line, p, n + 1) = Escaped(text, mark, end, l - (n + 1))
  BY DEF SpelledFrom
<1> HIDE DEF text, mark, end
<1>3. /\ Escaped(text, mark, end, 0) = end
      /\ \A x \in 0 .. l : Escaped(text, mark, end, x) \in Seq(Char)
      /\ \A x \in 1 .. l : Escaped(text, mark, end, x) = OneSpelled(text[l - x + 1], mark, Escaped(text, mark, end, x - 1))
  BY <1>1, EscapedIs
<1>4. l \in Nat /\ n \in 0 .. l /\ \A x \in 1 .. l : text[x] \in Char
  BY <1>1 DEF text
<1> HIDE DEF l
<1>5. m \in 0 .. l /\ (n = l => m = 0) /\ (n < l => m \in 1 .. l /\ m - 1 = l - (n + 1) /\ l - m + 1 = n + 1 /\ n + 1 \in 1 .. l)
  BY <1>4
<1> HIDE DEF m
<1>6. SpelledFrom(line, p, n) \in Seq(Char) /\ (n = l => SpelledFrom(line, p, n) = end)
  BY <1>2, <1>3, <1>5
<1>7. ASSUME n < l
      PROVE  text[n + 1] \in Char /\ SpelledFrom(line, p, n) = OneSpelled(text[n + 1], mark, SpelledFrom(line, p, n + 1))
  <2>1. Escaped(text, mark, end, m) = OneSpelled(text[l - m + 1], mark, Escaped(text, mark, end, m - 1))
    BY <1>3, <1>5, <1>7
  <2>2. Escaped(text, mark, end, m - 1) = SpelledFrom(line, p, n + 1) /\ text[l - m + 1] = text[n + 1]
    BY <1>2, <1>5, <1>7
  <2> QED
    BY <1>2, <1>4, <1>5, <1>7, <2>1, <2>2
<1> QED
  BY <1>6, <1>7 DEF text, mark, end, l

\* In a word of which n characters were read, what is left of the line.
InWord(line, p, n, mark, after, left) ==
    /\ p <= Len(line.words) /\ mark = Around(line)[p] /\ n <= Len(line.words[p])
    /\ IF after
       THEN /\ n < Len(line.words[p]) /\ line.words[p][n + 1] \in Special(mark)
            /\ left = <<line.words[p][n + 1]>> \o SpelledFrom(line, p, n + 1)
       ELSE left = SpelledFrom(line, p, n)

\* What the character at hand tells of the place in a word.
LEMMA PlaceInWord ==
    ASSUME IInv, input \in Inputs, input.words # NoWords, NEW p \in 1 .. Len(input.words), NEW n \in Nat,
           InWord(input, p, n, quote, esc, LeftFrom(input.line, at))
    PROVE  LET text == input.words[p]
               next == NextWords(input, Len(input.words) - p)
           IN  /\ (More => Ends) => n = Len(text)
               /\ ~More => quote = Space /\ next = LeftFrom(input.line, at)
               /\ More /\ Ends => next = LeftFrom(input.line, IF quote = Space THEN at ELSE at + 1)
               /\ More /\ ~esc /\ Ch = Escape =>
                    /\ n < Len(text) /\ text[n + 1] \in Special(quote)
                    /\ LeftFrom(input.line, at + 1) = <<text[n + 1]>> \o SpelledFrom(input, p, n + 1)
               /\ More /\ ~Ends /\ (esc \/ Ch # Escape) =>
                    /\ n < Len(text) /\ Ch = text[n + 1]
                    /\ LeftFrom(input.line, at + 1) = SpelledFrom(input, p, n + 1)
<1> DEFINE text == input.words[p]
           next == NextWords(input, Len(input.words) - p)
           mark == Around(input)[p]
           c    == text[n + 1]
           r    == SpelledFrom(input, p, n + 1)
           left == LeftFrom(input.line, at)
           on   == LeftFrom(input.line, at + 1)
           l    == Len(text)
<1>1. /\ quote = mark /\ n <= l
      /\ esc => n < l /\ c \in Special(mark) /\ left = <<c>> \o r
      /\ ~esc => left = SpelledFrom(input, p, n)
  BY DEF InWord
<1>2. /\ text \in Seq(Char) /\ mark \in Quotes /\ mark \in Char /\ l \in Nat
      /\ next \in Seq(Char)
      /\ mark = Space => BehindText(input, p) = next
      /\ mark # Space => BehindText(input, p) = <<mark>> \o next
  BY WordIs, LenProperties
<1>3. n \in 0 .. l /\ (n # l => n < l)
  BY <1>1, <1>2
<1>4. /\ n = l => SpelledFrom(input, p, n) = BehindText(input, p)
      /\ n < l => c \in Char /\ SpelledFrom(input, p, n) = OneSpelled(c, mark, r)
  BY <1>3, SpelledOn
<1>5. n < l => r \in Seq(Char)
  <2> SUFFICES ASSUME n < l PROVE r \in Seq(Char)
    OBVIOUS
  <2> DEFINE m == n + 1
  <2>1. m \in 0 .. l
    BY <1>2
  <2> HIDE DEF m
  <2>2. SpelledFrom(input, p, m) \in Seq(Char)
    BY <2>1, SpelledOn
  <2> QED
    BY <2>2 DEF m
<1>6. mark \in Special(mark) /\ Escape \in Special(mark) /\ Escape # mark /\ Space # Escape /\ Space \in Char /\ Escape \in Char
  BY <1>2, QuotesAreChars DEF Special
<1>7. esc \in BOOLEAN
  BY DEF IInv, TypeOK
<1> HIDE DEF text, mark, c, r, l
<1>8. \A d \in Char, s \in Seq(Char) : left = <<d>> \o s => More /\ Ch = d /\ on = s
  BY TakesOne
<1> HIDE DEF on
<1> DEFINE Told == /\ (More => Ends) => n = l
                   /\ ~More => quote = Space /\ next = left
                   /\ More /\ Ends => next = IF quote = Space THEN left ELSE on
                   /\ More /\ ~esc /\ Ch = Escape => n < l /\ c \in Special(quote) /\ on = <<c>> \o r
                   /\ More /\ ~Ends /\ (esc \/ Ch # Escape) => n < l /\ Ch = c /\ on = r
<1>12. SUFFICES Told
  BY DEF text, c, r, l, on
<1>9. CASE esc
  <2>1. More /\ Ch = c /\ on = r
    BY <1>1, <1>4, <1>5, <1>8, <1>9
  <2> HIDE DEF left, next
  <2> QED
    BY <1>1, <1>9, <1>7, <2>1 DEF Ends
<1>10. CASE ~esc /\ n < l
  <2>1. CASE c \in Special(mark)
    <3>1. left = <<Escape>> \o (<<c>> \o r)
      BY <1>1, <1>4, <1>10, <2>1 DEF OneSpelled
    <3>2. <<c>> \o r \in Seq(Char)
      BY <1>4, <1>5, <1>10, OneBefore
    <3>3. More /\ Ch = Escape /\ on = <<c>> \o r
      BY <1>6, <1>8, <3>1, <3>2
    <3> HIDE DEF left, next
    <3> QED
      BY <1>1, <1>6, <1>10, <2>1, <1>7, <3>3 DEF Ends
  <2>2. CASE c \notin Special(mark)
    <3>1. left = <<c>> \o r
      BY <1>1, <1>4, <1>10, <2>2 DEF OneSpelled
    <3>2. More /\ Ch = c /\ on = r
      BY <1>4, <1>5, <1>8, <1>10, <3>1
    <3>3. c # mark /\ c # Escape
      BY <1>6, <2>2
    <3> HIDE DEF left, next
    <3> QED
      BY <1>1, <1>10, <3>2, <1>7, <3>3 DEF Ends
  <2> QED
    BY <2>1, <2>2
<1>11. CASE ~esc /\ n = l
  <2>0. ~(n < l) /\ left = BehindText(input, p)
    BY <1>1, <1>2, <1>3, <1>4, <1>11
  <2>1. CASE mark # Space
    <3>1. left = <<mark>> \o next
      BY <1>2, <2>0, <2>1
    <3>2. More /\ Ch = mark /\ on = next
      BY <1>2, <1>8, <3>1
    <3> HIDE DEF left, next
    <3> QED
      BY <1>1, <1>6, <1>11, <2>0, <2>1, <1>7, <3>2 DEF Ends
  <2>2. CASE mark = Space
    <3>1. left = next
      BY <1>2, <2>0, <2>2
    <3>2. More => Ch = Space
      <4> SUFFICES ASSUME More PROVE Ch = Space
        OBVIOUS
      <4>1. left # <<>>
        BY TakesNone
      <4> DEFINE m == Len(input.words) - p
                 w == LastWords(input, m)
      <4>2. next = <<Space>> \o w
        BY <3>1, <4>1 DEF NextWords, BehindWord, LastWords
      <4>3. w \in Seq(Char)
        <5>1. /\ input.words \in Seq(Seq(Char)) /\ Len(input.words) \in Nat /\ Around(input) \in [DOMAIN input.words -> Quotes]
          BY LineIs
        <5>2. m \in 0 .. Len(input.words)
          BY <5>1
        <5> HIDE DEF m
        <5> QED
          BY <5>1, <5>2, WordsAre DEF LastWords
      <4> HIDE DEF w, next, left
      <4> QED
        BY <1>6, <1>8, <3>1, <4>2, <4>3
    <3> HIDE DEF left, next
    <3> QED
      BY <1>1, <1>6, <1>11, <2>0, <2>2, <3>1, <1>7, <3>2 DEF Ends
  <2> QED
    BY <2>1, <2>2
<1> HIDE DEF Told
<1> QED
  BY <1>3, <1>9, <1>10, <1>11

LEMMA PrefixCut ==
    ASSUME NEW a \in Seq(Char), NEW b \in Seq(Char)
    PROVE  SubSeq(a \o b, 1, Len(a)) = a /\ LeftFrom(a \o b, Len(a)) = b /\ Len(a) \in 0 .. Len(a \o b)
<1> DEFINE ab == a \o b
           la == Len(a)
           got == SubSeq(ab, 1, la)
<1>1. ab \in Seq(Char) /\ Len(ab) = la + Len(b) /\ la \in Nat /\ Len(b) \in Nat
  BY ConcatProperties, LenProperties
<1>2. got = a
  <2>1. CASE la = 0
    <3>1. a = <<>>
      BY <2>1, EmptySeq
    <3> QED
      BY <2>1, <3>1, SubSeqEmpty
  <2>2. CASE la # 0
    <3>1. 1 \in 1 .. la /\ la \in 1 .. la
      BY <1>1, <2>2
    <3>2. got = SubSeq(a, 1, la)
      BY <3>1, SubSeqOfConcat1
    <3> QED
      BY <3>2, SubSeqFull
  <2> QED
    BY <2>1, <2>2
<1>3. got \o LeftFrom(ab, la) = ab
  <2>1. 1 \in 1 .. Len(ab) + 1 /\ la \in 1 - 1 .. Len(ab) /\ Len(ab) \in la .. Len(ab)
    BY <1>1
  <2> HIDE DEF ab
  <2>2. SubSeq(ab, 1, la) \o SubSeq(ab, la + 1, Len(ab)) = SubSeq(ab, 1, Len(ab))
    BY <1>1, <2>1, ConcatAdjacentSubSeq
  <2> QED
    BY <1>1, <2>2, SubSeqFull DEF LeftFrom
<1>4. la \in 0 .. Len(ab)
  BY <1>1
<1>5. LeftFrom(ab, la) \in Seq(Char)
  <2> HIDE DEF ab, la
  <2> QED
    BY <1>1, <1>4, LeftIs
<1>6. LeftFrom(ab, la) = b
  <2> DEFINE rest == LeftFrom(ab, la)
  <2>1. a \o rest = a \o b /\ rest \in Seq(Char)
    BY <1>2, <1>3, <1>5
  <2> HIDE DEF rest
  <2>2. rest = b
    BY <2>1, ConcatSimplifications
  <2> QED
    BY <2>2 DEF rest
<1> QED
  BY <1>2, <1>4, <1>6

\* The arguments found are the first words, and stand in the buffer as they were meant.
Arrived(line, args, buffer) ==
    /\ Len(args) <= Len(line.words)
    /\ \A p \in DOMAIN args :
         /\ args[p].len = Len(line.words[p])
         /\ \A q \in 1 .. args[p].len : buffer[args[p].start + q] = line.words[p][q]

Copied(line, p, piece, buffer) == \A q \in 1 .. piece.len : buffer[piece.start + q] = line.words[p][q]

SpellInv ==
    input.words # NoWords =>
      /\ input \in Inputs
      /\ phase \in {"trim", "prefix"} => at = 0
      /\ phase \in {"next", "word", "skip", "rest", "eval"} => Arrived(input, argv, mem)
      /\ phase = "next" => LeftFrom(input.line, at) = LastWords(input, Len(input.words) - Len(argv))
      /\ phase = "skip" => LeftFrom(input.line, at) = NextWords(input, Len(input.words) - Len(argv))
      /\ phase = "word" => /\ InWord(input, Len(argv) + 1, word.len, quote, esc, LeftFrom(input.line, at))
                           /\ Copied(input, Len(argv) + 1, word, mem)
      /\ phase \in {"rest", "eval"} => Len(argv) = Len(input.words)
      /\ phase = "rest" => LeftFrom(input.line, at) = <<>>

LEMMA NoneLeft ==
    ASSUME NEW line \in Inputs, line.words # NoWords
    PROVE  LastWords(line, 0) = <<>> /\ NextWords(line, 0) = <<>>
<1>1. line.words \in Seq(Seq(Char)) /\ Around(line) \in [DOMAIN line.words -> Quotes]
  BY LineIs
<1> QED
  BY <1>1, WordsAre DEF LastWords, NextWords, BehindWord

\* A spelled line does not begin with a space.
LEMMA LineBegins ==
    ASSUME NEW line \in Inputs, line.words # NoWords, line.line # <<>>
    PROVE  line.line[1] # Space
<1> DEFINE count == Len(line.words)
           w == LastWords(line, count)
           pre == line.prefix
<1>1. /\ count \in Nat /\ pre \in Seq(Char) /\ (pre # <<>> => pre[1] # Space)
      /\ line.line \in Seq(Char) /\ line.line = pre \o w
      /\ line.words \in Seq(Seq(Char)) /\ Around(line) \in [DOMAIN line.words -> Quotes]
  BY LineIs
<1>2. w \in Seq(Char)
  <2>1. count \in 0 .. Len(line.words)
    BY <1>1
  <2> HIDE DEF count
  <2> QED
    BY <1>1, <2>1, WordsAre DEF LastWords
<1>3. CASE pre # <<>>
  <2> HIDE DEF w, pre
  <2>1. Len(pre) \in Nat /\ Len(pre) # 0 /\ Len(w) \in Nat
    BY <1>1, <1>2, <1>3, EmptySeq, LenProperties
  <2>2. \A q \in 1 .. Len(pre) + Len(w) : (pre \o w)[q] = IF q <= Len(pre) THEN pre[q] ELSE w[q - Len(pre)]
    BY <1>1, <1>2, ConcatProperties
  <2>3. 1 \in 1 .. Len(pre) + Len(w) /\ 1 <= Len(pre)
    BY <2>1
  <2>4. (pre \o w)[1] = pre[1]
    BY <2>2, <2>3
  <2> QED
    BY <1>1, <1>3, <2>4
<1>4. CASE pre = <<>>
  <2>1. line.line = w
    <3> HIDE DEF w, pre
    <3> QED
      BY <1>1, <1>2, <1>4, ConcatEmptySeq
  <2>2. count # 0
    BY <2>1, NoneLeft
  <2>3. 1 \in 1 .. count /\ count - 1 + 1 = count
    BY <1>1, <2>2
  <2>4. PICK c \in Char, r \in Seq(Char) : LastWords(line, count - 1 + 1) = <<c>> \o r /\ c # Space
    BY <2>3, WordsBegin
  <2>5. w = <<c>> \o r
    BY <2>3, <2>4
  <2> HIDE DEF w
  <2> QED
    BY <2>1, <2>4, <2>5, OneBefore
<1> QED
  BY <1>3, <1>4

\* The words of the line at hand, and where in it the repl is.
LEMMA InputIs ==
    ASSUME IInv, SpellInv, input.words # NoWords
    PROVE  /\ input \in Inputs /\ input.words \in Seq(Seq(Char)) /\ Len(input.words) \in Nat /\ Len(input.words) <= Slots
           /\ at \in Nat /\ Len(mem) \in Nat /\ at <= Len(mem) /\ mem \in Seq(Char)
           /\ input.line \in Seq(Char) /\ Len(input.line) = Len(mem)
           /\ argv \in Seq(Pieces) /\ Len(argv) \in Nat
<1>1. input \in Inputs
  BY DEF SpellInv
<1>2. argv \in Seq(Pieces) /\ Len(argv) \in Nat
  BY ArgumentTypes
<1>3. at \in Nat /\ Len(mem) \in Nat /\ at <= Len(mem) /\ mem \in Seq(Char) /\ Len(input.line) = Len(mem)
  BY DEF IInv, TypeOK
<1> QED
  BY <1>1, <1>2, <1>3, LineIs

LEMMA TrimSpells == ASSUME IInv, SpellInv, Trim, input.words # NoWords PROVE SpellInv'
<1>1. phase = "trim" /\ phase' = "prefix" /\ UNCHANGED <<input, mem, quote, esc, word, argv>> /\ at = 0
  BY DEF Trim, SpellInv
<1>2. PICK n \in 0 .. Len(mem) : LTrim(n) /\ at' = n
  BY DEF Trim
<1>3. n = 0
  <2> SUFFICES ASSUME n # 0 PROVE FALSE
    OBVIOUS
  <2>1. 1 \in 0 + 1 .. n /\ 1 \in 0 + 1 .. Len(mem) /\ Len(mem) # 0
    BY <1>2, InputIs
  <2>2. mem[1] = Space
    BY <1>1, <1>2, <2>1 DEF LTrim, Spaces
  <2>3. mem[1] = input.line[1]
    BY <1>1, <2>1 DEF IInv, UnreadIsIntact
  <2>4. input.line # <<>>
    BY <2>1, InputIs, EmptySeq
  <2> QED
    BY <2>2, <2>3, <2>4, InputIs, LineBegins
<1> QED
  BY <1>1, <1>2, <1>3, InputIs DEF SpellInv

LEMMA CommandSpells == ASSUME IInv, SpellInv, Command, input.words # NoWords PROVE SpellInv'
<1> DEFINE line == input.line
           prefix == input.prefix
           words == LastWords(input, Len(input.words))
<1>1. phase = "prefix" /\ UNCHANGED <<input, mem, quote, esc, word>> /\ at = 0 /\ argv = <<>> /\ Len(argv) = 0
  BY DEF Command, SpellInv, IInv, Behind
<1>2. mem = line
  <2>1. \A n \in 1 .. Len(mem) : mem[n] = line[n]
    BY <1>1 DEF IInv, UnreadIsIntact
  <2> QED
    BY <2>1, InputIs, SeqEqual
<1>3. prefix \in Seq(Char) /\ words \in Seq(Char) /\ line = prefix \o words
  <2>1. /\ input.words \in Seq(Seq(Char)) /\ Around(input) \in [DOMAIN input.words -> Quotes]
        /\ prefix \in Seq(Char) /\ line = prefix \o words
    BY InputIs, LineIs
  <2>2. Len(input.words) \in 0 .. Len(input.words)
    BY InputIs
  <2>3. \A x \in 0 .. Len(input.words) : LastWords(input, x) \in Seq(Char)
    BY <2>1, WordsAre DEF LastWords
  <2> QED
    BY <2>1, <2>2, <2>3
<1> HIDE DEF line, prefix, words
<1> DEFINE n == Len(prefix)
<1>4. SubSeq(line, 1, n) = prefix /\ LeftFrom(line, n) = words /\ n \in 0 .. Len(line)
  BY <1>3, PrefixCut
<1> HIDE DEF n
<1>5. Accepted
  <2>1. n \in Nat /\ n <= Len(mem) /\ SubSeq(mem, 1, n) = prefix
    BY <1>2, <1>4, InputIs DEF line
  <2>2. at + n = n /\ at + 1 = 1
    BY <1>1, <2>1
  <2> QED
    BY <2>1, <2>2 DEF Accepted, n, prefix
<1>6. at' = n /\ phase' = "next" /\ argv' = <<>>
  BY <1>1, <1>4, <1>5 DEF Command, n, prefix
<1>7. Len(argv') = 0 /\ Len(input.words) - 0 = Len(input.words) /\ 0 <= Len(input.words)
  BY <1>6, InputIs
<1>8. Arrived(input', argv', mem')
  BY <1>1, <1>6, <1>7 DEF Arrived
<1>9. LeftFrom(input'.line, at') = LastWords(input', Len(input'.words) - Len(argv'))
  BY <1>1, <1>4, <1>6, <1>7 DEF line, words
<1> QED
  BY <1>1, <1>6, <1>8, <1>9, InputIs DEF SpellInv

\* Where the next word begins, if there is one.
LEMMA NextBegins ==
    ASSUME IInv, SpellInv, input.words # NoWords, phase = "next"
    PROVE  LET p == Len(argv) + 1
           IN  /\ More <=> Len(argv) < Len(input.words)
               /\ Len(argv) <= Len(input.words)
               /\ More => /\ p \in 1 .. Len(input.words)
                          /\ LeftFrom(input.line, at) = LastWords(input, Len(input.words) - p + 1)
<1> DEFINE p == Len(argv) + 1
           count == Len(input.words)
           left == LeftFrom(input.line, at)
<1>1. left = LastWords(input, count - Len(argv)) /\ Len(argv) <= count /\ Len(argv) \in Nat /\ count \in Nat
  BY InputIs DEF SpellInv, Arrived
<1>2. left = <<>> <=> ~More
  BY TakesNone
<1>3. CASE Len(argv) = count
  <2>1. count - Len(argv) = 0
    BY <1>1, <1>3
  <2>2. left = <<>>
    BY <1>1, <2>1, InputIs, NoneLeft
  <2> HIDE DEF left
  <2> QED
    BY <1>1, <1>2, <1>3, <2>2
<1>4. CASE Len(argv) # count
  <2>1. p \in 1 .. count /\ count - p + 1 = count - Len(argv)
    BY <1>1, <1>4
  <2>2. \E c \in Char, r \in Seq(Char) : LastWords(input, count - p + 1) = <<c>> \o r
    <3> HIDE DEF p
    <3> QED
      BY <2>1, InputIs, WordsBegin
  <2>3. left # <<>>
    BY <1>1, <2>1, <2>2, OneBefore
  <2> HIDE DEF left
  <2> QED
    BY <1>1, <1>2, <1>4, <2>1, <2>3 DEF left
<1> QED
  BY <1>3, <1>4

LEMMA EndOfWordsSpells == ASSUME IInv, SpellInv, EndOfWords, input.words # NoWords PROVE SpellInv'
<1>1. /\ phase = "next" /\ (Len(argv) >= Slots \/ ~More) /\ phase' = "rest"
      /\ UNCHANGED <<input, mem, at, quote, esc, word, argv>>
  BY DEF EndOfWords
<1>2. Len(argv) = Len(input.words)
  <2>1. Slots \in Nat
    BY SlotNumber DEF Slots
  <2> QED
    BY <1>1, <2>1, InputIs, NextBegins
<1>3. LeftFrom(input.line, at) = <<>>
  BY <1>1, <1>2, TakesNone, NextBegins, InputIs
<1>4. Arrived(input, argv, mem)
  BY <1>1 DEF SpellInv
<1> QED
  BY <1>1, <1>2, <1>3, <1>4, InputIs DEF SpellInv

LEMMA BeginSpells == ASSUME IInv, SpellInv, BeginWord, input.words # NoWords PROVE SpellInv'
<1> DEFINE p == Len(argv) + 1
           count == Len(input.words)
           text == input.words[p]
           mark == Around(input)[p]
           all  == SpelledFrom(input, p, 0)
           left == LeftFrom(input.line, at)
<1>1. /\ phase = "next" /\ phase' = "word" /\ More /\ UNCHANGED <<input, mem, argv>>
      /\ word' = [start |-> at, len |-> 0] /\ esc' = FALSE
      /\ \/ Ch \in QuoteMarks /\ quote' = Ch /\ at' = at + 1
         \/ Ch \notin QuoteMarks /\ quote' = Space /\ at' = at
  BY DEF BeginWord, Piece, Start
<1>2. p \in 1 .. count /\ p <= count /\ left = LastWords(input, count - p + 1) /\ Len(argv) \in Nat /\ count \in Nat
  BY <1>1, NextBegins, InputIs
<1>3. Arrived(input, argv, mem)
  BY <1>1 DEF SpellInv
<1> HIDE DEF p, left
<1>4. PICK c \in Char, r \in Seq(Char) :
             /\ left = <<c>> \o r /\ c # Space
             /\ mark = Space => c \notin QuoteMarks
             /\ mark # Space => c = mark
  BY <1>2, InputIs, WordsBegin
<1>5. Ch = c /\ LeftFrom(input.line, at + 1) = r
  BY <1>4, TakesOne DEF left
<1>6. /\ text \in Seq(Char) /\ mark \in Quotes /\ left = IF mark = Space THEN all ELSE <<mark>> \o all
  <2>1. /\ text \in Seq(Char) /\ mark \in Quotes
        /\ left = IF mark = Space THEN Escaped(text, mark, BehindText(input, p), Len(text))
                  ELSE <<mark>> \o Escaped(text, mark, BehindText(input, p), Len(text))
    BY <1>2, InputIs, WordIs
  <2>2. Len(text) - 0 = Len(text)
    BY <2>1, LenProperties
  <2> QED
    BY <2>1, <2>2 DEF SpelledFrom
<1>7. 0 \in 0 .. Len(text) /\ 0 <= Len(text)
  BY <1>6, LenProperties
<1>8. all \in Seq(Char)
  BY <1>2, <1>7, InputIs, SpelledOn
<1> HIDE DEF all, mark
<1>9. quote' = mark /\ LeftFrom(input.line, at') = all
  <2>1. CASE mark = Space
    BY <1>1, <1>4, <1>5, <1>6, <2>1 DEF left
  <2>2. CASE mark # Space
    <3>1. mark \in QuoteMarks /\ c = mark /\ c \in Char
      BY <1>4, <1>6, <2>2 DEF Quotes
    <3>2. <<c>> \o all = <<c>> \o r
      BY <1>4, <1>6, <2>2, <3>1
    <3>3. all = r
      BY <1>4, <1>8, <3>2, OneBeforeTells
    <3> QED
      BY <1>1, <1>5, <3>1, <3>3
  <2> QED
    BY <2>1, <2>2
<1>10. Len(argv') + 1 = p /\ word'.len = 0 /\ word'.start = at
  BY <1>1 DEF p
<1>11. InWord(input', Len(argv') + 1, word'.len, quote', esc', LeftFrom(input'.line, at'))
  BY <1>1, <1>2, <1>7, <1>9, <1>10 DEF InWord, mark, all
<1>12. Copied(input', Len(argv') + 1, word', mem')
  BY <1>10 DEF Copied
<1> QED
  BY <1>1, <1>3, <1>11, <1>12, InputIs DEF SpellInv

LEMMA SkipSpells == ASSUME IInv, SpellInv, SkipSpaces, input.words # NoWords PROVE SpellInv'
<1> DEFINE count == Len(input.words)
           a == Len(argv)
           left == LeftFrom(input.line, at)
           last == LastWords(input, count - a)
<1>1. phase = "skip" /\ phase' = "next" /\ UNCHANGED <<input, mem, quote, esc, word, argv>>
  BY DEF SkipSpaces
<1>2. PICK n \in 0 .. Len(mem) : LTrim(n) /\ at' = n
  BY DEF SkipSpaces
<1>3. /\ left = NextWords(input, count - a) /\ Arrived(input, argv, mem) /\ a <= count
      /\ a \in Nat /\ count \in Nat /\ at \in Nat /\ Len(mem) \in Nat /\ at <= Len(mem)
  BY <1>1, InputIs DEF SpellInv, Arrived
<1>4. /\ n \in at .. Len(mem) /\ n \in Nat
      /\ \A x \in at + 1 .. n : mem[x] = Space
      /\ n < Len(mem) => mem[n + 1] # Space
  BY <1>2 DEF LTrim, Spaces
<1> HIDE DEF left, last
<1>5. LeftFrom(input.line, n) = last
  <2>1. CASE a = count
    <3>1. count - a = 0
      BY <1>3, <2>1
    <3>2. left = <<>> /\ last = <<>>
      BY <1>3, <3>1, InputIs, NoneLeft DEF last
    <3>3. at = Len(mem)
      BY <1>3, <3>2, TakesNone DEF left, More
    <3>4. n = at
      BY <1>3, <1>4, <3>3
    <3> QED
      BY <3>2, <3>4 DEF left
  <2>2. CASE a # count
    <3> DEFINE p == a + 1
    <3>1. p \in 1 .. count /\ count - p + 1 = count - a /\ count - a # 0 /\ count - a \in 0 .. count
      BY <1>3, <2>2
    <3> HIDE DEF p, count
    <3>2. PICK c \in Char, r \in Seq(Char) : LastWords(input, count - p + 1) = <<c>> \o r /\ c # Space
      BY <3>1, InputIs, WordsBegin DEF count
    <3>3. last = <<c>> \o r /\ last \in Seq(Char)
      <4>1. last = <<c>> \o r
        BY <3>1, <3>2 DEF last
      <4>2. <<c>> \o r \in Seq(Char)
        BY OneBefore
      <4> QED
        BY <4>1, <4>2
    <3>4. left = <<Space>> \o last
      BY <1>3, <3>1 DEF NextWords, BehindWord, LastWords, last
    <3>5. More /\ Ch = Space /\ LeftFrom(input.line, at + 1) = last
      BY <3>3, <3>4, QuotesAreChars, TakesOne DEF left
    <3> DEFINE m == at + 1
    <3>6. m \in at .. Len(mem)
      BY <1>3, <3>5 DEF More
    <3>7. LeftFrom(input.line, m) = <<c>> \o r
      BY <3>3, <3>5
    <3> HIDE DEF m
    <3>8. m < Len(mem) /\ mem[m + 1] = c
      BY <3>6, <3>7, FurtherOn
    <3>9. n # at
      BY <1>3, <1>4, <3>5 DEF More, Ch
    <3>10. ~(n > m)
      <4> SUFFICES ASSUME n > m PROVE FALSE
        OBVIOUS
      <4>1. m + 1 \in at + 1 .. n
        BY <1>3, <1>4 DEF m
      <4> QED
        BY <1>4, <3>2, <3>8, <4>1
    <3>11. n = m
      BY <1>3, <1>4, <3>9, <3>10 DEF m
    <3> QED
      BY <3>5, <3>11 DEF m
  <2> QED
    BY <2>1, <2>2
<1>6. LeftFrom(input'.line, at') = LastWords(input', Len(input'.words) - Len(argv'))
  BY <1>1, <1>2, <1>5 DEF last
<1>7. Arrived(input', argv', mem')
  BY <1>1, <1>3
<1> QED
  BY <1>1, <1>6, <1>7, InputIs DEF SpellInv

\* The word at hand.
LEMMA HandIs ==
    ASSUME IInv, SpellInv, input.words # NoWords, phase = "word"
    PROVE  LET p == Len(argv) + 1
           IN  /\ p \in 1 .. Len(input.words) /\ word.len \in Nat /\ word.start \in Nat
               /\ word.start + word.len <= at
               /\ InWord(input, p, word.len, quote, esc, LeftFrom(input.line, at))
               /\ Arrived(input, argv, mem) /\ Copied(input, p, word, mem)
<1>1. /\ InWord(input, Len(argv) + 1, word.len, quote, esc, LeftFrom(input.line, at))
      /\ Arrived(input, argv, mem) /\ Copied(input, Len(argv) + 1, word, mem)
  BY DEF SpellInv
<1>2. word.len \in Nat /\ word.start \in Nat /\ word.start + word.len <= at
  BY DEF IInv, TypeOK, Behind
<1>3. Len(argv) + 1 <= Len(input.words) /\ Len(argv) \in Nat /\ Len(input.words) \in Nat
  BY <1>1, InputIs DEF InWord
<1> QED
  BY <1>1, <1>2, <1>3

LEMMA BackslashSpells == ASSUME IInv, SpellInv, Backslash, input.words # NoWords PROVE SpellInv'
<1> DEFINE p == Len(argv) + 1
           n == word.len
<1>1. /\ phase = "word" /\ More /\ ~esc /\ Ch = Escape /\ at' = at + 1 /\ esc' = TRUE
      /\ UNCHANGED <<input, mem, phase, quote, word, argv>>
  BY DEF Backslash
<1>2. /\ p \in 1 .. Len(input.words) /\ n \in Nat
      /\ InWord(input, p, n, quote, esc, LeftFrom(input.line, at))
      /\ Arrived(input, argv, mem) /\ Copied(input, p, word, mem)
  BY <1>1, HandIs
<1> HIDE DEF p, n
<1>3. n < Len(input.words[p]) /\ input.words[p][n + 1] \in Special(quote)
      /\ LeftFrom(input.line, at + 1) = <<input.words[p][n + 1]>> \o SpelledFrom(input, p, n + 1)
  BY <1>1, <1>2, InputIs, PlaceInWord
<1>4. InWord(input', Len(argv') + 1, word'.len, quote', esc', LeftFrom(input'.line, at'))
  BY <1>1, <1>2, <1>3 DEF InWord, p, n
<1>5. Copied(input', Len(argv') + 1, word', mem') /\ Arrived(input', argv', mem')
  BY <1>1, <1>2 DEF p
<1> QED
  BY <1>1, <1>4, <1>5, InputIs DEF SpellInv

LEMMA CopySpells == ASSUME IInv, SpellInv, Copy, input.words # NoWords PROVE SpellInv'
<1> DEFINE p == Len(argv) + 1
           n == word.len
           text == input.words[p]
           place == word.start + n + 1
<1>1. /\ phase = "word" /\ More /\ ~Ends /\ (esc \/ Ch # Escape) /\ at' = at + 1 /\ esc' = FALSE
      /\ mem' = [mem EXCEPT ![place] = Ch] /\ word' = [word EXCEPT !.len = @ + 1]
      /\ UNCHANGED <<input, phase, quote, argv>>
  BY DEF Copy
<1>2. /\ p \in 1 .. Len(input.words) /\ n \in Nat /\ word.start \in Nat /\ word.start + n <= at
      /\ InWord(input, p, n, quote, esc, LeftFrom(input.line, at))
      /\ Arrived(input, argv, mem) /\ Copied(input, p, word, mem)
  BY <1>1, HandIs
<1>3. place \in DOMAIN mem /\ place \in Nat
  BY <1>1, <1>2, InputIs DEF More
<1>4. word'.start = word.start /\ word'.len = n + 1
  BY <1>1 DEF IInv, TypeOK
<1> HIDE DEF p, n, place
<1>5. n < Len(text) /\ Ch = text[n + 1] /\ LeftFrom(input.line, at + 1) = SpelledFrom(input, p, n + 1)
  BY <1>1, <1>2, InputIs, PlaceInWord
<1>6. mem'[place] = text[n + 1] /\ \A x \in 1 .. place - 1 : mem'[x] = mem[x]
  <2>1. \A x \in DOMAIN mem : mem'[x] = IF x = place THEN Ch ELSE mem[x]
    BY <1>1
  <2>2. \A x \in 1 .. place - 1 : x \in DOMAIN mem /\ x # place
    BY <1>3, InputIs
  <2> QED
    BY <1>3, <1>5, <2>1, <2>2
<1>7. n + 1 <= Len(text)
  <2>1. text \in Seq(Char)
    BY <1>2, InputIs, WordIs
  <2>2. Len(text) \in Nat
    BY <2>1, LenProperties
  <2> HIDE DEF text
  <2> QED
    BY <1>2, <1>5, <2>2
<1> HIDE DEF text
<1>8. InWord(input', Len(argv') + 1, word'.len, quote', esc', LeftFrom(input'.line, at'))
  BY <1>1, <1>2, <1>4, <1>5, <1>7 DEF InWord, p, text
<1>9. Copied(input', Len(argv') + 1, word', mem')
  <2> SUFFICES ASSUME NEW q \in 1 .. n + 1 PROVE mem'[word.start + q] = text[q]
    BY <1>1, <1>4 DEF Copied, p, text
  <2>1. CASE q = n + 1
    <3>1. word.start + q = place
      BY <1>2, <2>1 DEF place
    <3> QED
      BY <1>6, <2>1, <3>1
  <2>2. CASE q # n + 1
    <3>1. q \in 1 .. n /\ word.start + q \in 1 .. place - 1
      BY <1>2, <2>2 DEF place
    <3>2. mem[word.start + q] = text[q]
      BY <1>2, <3>1 DEF Copied, n, text
    <3> QED
      BY <1>6, <3>1, <3>2
  <2> QED
    BY <2>1, <2>2
<1>10. Arrived(input', argv', mem')
  <2>1. \A x \in DOMAIN argv : argv[x] \in Pieces /\ End(argv[x]) <= word.start
    BY <1>1, ArgumentTypes DEF IInv, Behind
  <2>2. ASSUME NEW x \in DOMAIN argv, NEW q \in 1 .. argv[x].len
        PROVE  mem'[argv[x].start + q] = mem[argv[x].start + q]
    <3> DEFINE s == argv[x].start
    <3>1. s \in Nat /\ argv[x].len \in Nat /\ s + argv[x].len <= word.start
      BY <2>1 DEF Pieces, End
    <3> HIDE DEF s
    <3>2. s + q \in 1 .. place - 1
      BY <1>2, <3>1 DEF place
    <3>3. mem'[s + q] = mem[s + q]
      BY <1>6, <3>2
    <3> QED
      BY <3>3 DEF s
  <2> QED
    BY <1>1, <1>2, <2>2 DEF Arrived
<1> QED
  BY <1>1, <1>8, <1>9, <1>10, InputIs DEF SpellInv

LEMMA EndSpells == ASSUME IInv, SpellInv, EndWord, input.words # NoWords PROVE SpellInv'
<1> DEFINE p == Len(argv) + 1
           n == word.len
           count == Len(input.words)
           text == input.words[p]
           next == NextWords(input, count - p)
<1>1. phase = "word" /\ (More => Ends) /\ UNCHANGED <<input, mem, quote, esc, word>>
  BY DEF EndWord
<1>2. /\ p \in 1 .. count /\ n \in Nat
      /\ InWord(input, p, n, quote, esc, LeftFrom(input.line, at))
      /\ Arrived(input, argv, mem) /\ Copied(input, p, word, mem)
  BY <1>1, HandIs
<1>3. /\ argv \in Seq(Pieces) /\ Len(argv) \in Nat /\ word \in Pieces /\ count \in Nat
  BY InputIs DEF IInv, TypeOK, Pieces
<1> HIDE DEF p, n, count
<1>4. /\ n = Len(text)
      /\ ~More => quote = Space /\ next = LeftFrom(input.line, at)
      /\ More /\ Ends => next = LeftFrom(input.line, IF quote = Space THEN at ELSE at + 1)
  <2>1. input \in Inputs /\ p \in 1 .. Len(input.words)
    BY <1>2, InputIs DEF count
  <2> QED
    BY <1>1, <1>2, <2>1, PlaceInWord DEF count
<1>5. text \in Seq(Char) /\ (quote = Space => text # <<>>)
  <2>1. /\ text \in Seq(Char) /\ Around(input)[p] = Space => text # <<>>
    BY <1>2, InputIs, WordIs DEF count
  <2>2. text \in Seq(Char)
    BY <1>2, InputIs, WordIs DEF count
  <2> QED
    BY <1>2, <2>1, <2>2 DEF InWord
<1>6. IsWord
  <2>1. CASE quote = Space
    <3>1. Len(text) # 0
      BY <1>5, <2>1, EmptySeq
    <3>2. n # 0
      BY <1>4, <3>1
    <3>3. word.len > 0
      BY <1>2, <3>2 DEF n
    <3> QED
      BY <2>1, <3>3 DEF IsWord
  <2>2. CASE quote # Space
    BY <1>4, <2>2 DEF IsWord
  <2> QED
    BY <2>1, <2>2
<1>7. argv' = Append(argv, word) /\ phase' = "skip" /\ at' = IF quote = Space THEN at ELSE at + 1
  BY <1>6 DEF EndWord
<1>8. LeftFrom(input.line, at') = next
  <2> HIDE DEF next
  <2> QED
    BY <1>1, <1>4, <1>7
<1>9. /\ Len(argv') = p /\ DOMAIN argv' = 1 .. p /\ argv'[p] = word
      /\ \A x \in 1 .. p - 1 : x \in DOMAIN argv /\ argv'[x] = argv[x]
  BY <1>3, <1>7 DEF p
<1>10. Arrived(input', argv', mem')
  <2> SUFFICES ASSUME NEW x \in 1 .. p
               PROVE  /\ argv'[x].len = Len(input.words[x])
                      /\ \A q \in 1 .. argv'[x].len : mem[argv'[x].start + q] = input.words[x][q]
    BY <1>1, <1>2, <1>3, <1>9 DEF Arrived, count
  <2>1. CASE x = p
    BY <1>2, <1>4, <1>9, <2>1 DEF Copied, n
  <2>2. CASE x # p
    <3>1. x \in 1 .. p - 1
      BY <1>2, <1>3, <2>2
    <3> QED
      BY <1>2, <1>9, <3>1 DEF Arrived
  <2> QED
    BY <2>1, <2>2
<1>11. LeftFrom(input'.line, at') = NextWords(input', Len(input'.words) - Len(argv'))
  BY <1>1, <1>8, <1>9 DEF count
<1> QED
  BY <1>1, <1>7, <1>10, <1>11, InputIs DEF SpellInv

LEMMA LastSpells == ASSUME IInv, SpellInv, LastArgument, input.words # NoWords PROVE SpellInv'
<1>1. /\ phase = "rest" /\ phase' = "eval" /\ at' = Len(mem) /\ UNCHANGED <<input, mem, quote, esc, word>>
  BY DEF LastArgument
<1>2. LeftFrom(input.line, at) = <<>> /\ Len(argv) = Len(input.words) /\ Arrived(input, argv, mem)
  BY <1>1 DEF SpellInv
<1>3. at = Len(mem)
  BY <1>2, InputIs, TakesNone DEF More
<1>4. PICK first, last \in 0 .. Len(mem) :
          /\ LTrim(first)
          /\ argv' = IF first < last THEN Append(argv, Piece(first, last - first)) ELSE argv
  BY DEF LastArgument
<1>5. ~(first < last)
  BY <1>3, <1>4, InputIs DEF LTrim
<1>6. argv' = argv
  BY <1>4, <1>5
<1> QED
  BY <1>1, <1>2, <1>6, InputIs DEF SpellInv

LEMMA SpellInit == Init => SpellInv
BY DEF Init, NoLine, SpellInv

LEMMA SpellNext == ASSUME IInv, SpellInv, [Next]_vars PROVE SpellInv'
<1>1. ASSUME NEW entered, NEW step, Reset(entered, step), entered.words # NoWords =>
               entered \in Inputs /\ step = "trim"
      PROVE  SpellInv'
  <2>1. input' = entered /\ at' = 0 /\ phase' = step
    BY <1>1 DEF Reset
  <2> QED
    BY <1>1, <2>1 DEF SpellInv
<1>2. CASE Gets
  BY <1>1, <1>2 DEF Gets
<1>3. ASSUME NEW step, Reset(NoLine, step) PROVE SpellInv'
  BY <1>1, <1>3 DEF NoLine
<1>4. CASE Run \/ NoMore \/ Empty \/ Eval
  BY <1>3, <1>4 DEF Run, NoMore, LineDone, Empty, Eval
<1>5. ASSUME input' = input, input.words # NoWords => SpellInv' PROVE SpellInv'
  <2>1. CASE input.words = NoWords
    <3>1. input'.words = NoWords
      BY <1>5, <2>1
    <3> QED
      BY <3>1 DEF SpellInv
  <2> QED
    BY <1>5, <2>1
<1>6. CASE Trim
  BY <1>5, <1>6, TrimSpells DEF Trim
<1>7. CASE Command
  BY <1>5, <1>7, CommandSpells DEF Command
<1>8. CASE BeginWord
  BY <1>5, <1>8, BeginSpells DEF BeginWord
<1>9. CASE EndOfWords
  BY <1>5, <1>9, EndOfWordsSpells DEF EndOfWords
<1>10. CASE Backslash
  BY <1>5, <1>10, BackslashSpells DEF Backslash
<1>11. CASE Copy
  BY <1>5, <1>11, CopySpells DEF Copy
<1>12. CASE EndWord
  BY <1>5, <1>12, EndSpells DEF EndWord
<1>13. CASE SkipSpaces
  BY <1>5, <1>13, SkipSpells DEF SkipSpaces
<1>14. CASE LastArgument
  BY <1>5, <1>14, LastSpells DEF LastArgument
<1>15. CASE UNCHANGED vars
  <2>1. UNCHANGED <<input, mem, at, phase, quote, esc, word, argv>>
    BY <1>15 DEF vars
  <2> QED
    BY <2>1 DEF SpellInv, Arrived, Copied, InWord
<1> QED
  BY <1>2, <1>4, <1>6, <1>7, <1>8, <1>9, <1>10, <1>11, <1>12, <1>13, <1>14, <1>15 DEF Next

\* Arguments that stand in the buffer as they were meant are the words.
LEMMA SpelledArrive == ASSUME IInv, SpellInv PROVE WordsArrive
<1> SUFFICES ASSUME phase = "eval", input.words # NoWords
             PROVE  [n \in DOMAIN argv |-> Content(argv[n])] = input.words
  BY DEF WordsArrive
<1> DEFINE got == [n \in DOMAIN argv |-> Content(argv[n])]
<1>1. Arrived(input, argv, mem) /\ Len(argv) = Len(input.words)
  BY DEF SpellInv
<1>2. /\ input.words \in Seq(Seq(Char)) /\ argv \in Seq(Pieces) /\ Len(argv) \in Nat
  BY InputIs
<1>3. ASSUME NEW p \in DOMAIN argv PROVE Content(argv[p]) = input.words[p]
  <2> DEFINE s == argv[p].start
             l == argv[p].len
             text == input.words[p]
             piece == SubSeq(mem, s + 1, s + l)
  <2>1. s \in Nat /\ l \in Nat /\ l = Len(text) /\ \A q \in 1 .. l : mem[s + q] = text[q]
    <3>1. argv[p] \in Pieces
      BY ArgumentTypes
    <3>2. l = Len(text) /\ \A q \in 1 .. l : mem[s + q] = text[q]
      BY <1>1 DEF Arrived
    <3> QED
      BY <3>1, <3>2 DEF Pieces
  <2>2. text \in Seq(Char)
    <3>1. p \in 1 .. Len(input.words)
      BY <1>1, <1>2
    <3> QED
      BY <1>2, <3>1, ElementOfSeq
  <2> HIDE DEF s, l
  <2>3. \A q \in 1 .. l : text[q] \in Char
    BY <2>1, <2>2
  <2> HIDE DEF text
  <2>4. \A x \in s + 1 .. s + l : mem[x] \in Char
    <3> SUFFICES ASSUME NEW x \in s + 1 .. s + l PROVE mem[x] \in Char
      OBVIOUS
    <3>1. x - s \in 1 .. l /\ s + (x - s) = x
      BY <2>1
    <3> QED
      BY <2>1, <2>3, <3>1
  <2>5. /\ piece \in Seq(Char) /\ Len(piece) = IF s + 1 <= s + l THEN (s + l) - (s + 1) + 1 ELSE 0
        /\ \A q \in 1 .. (s + l) - (s + 1) + 1 : piece[q] = mem[(s + 1) + q - 1]
    BY <2>1, <2>4, SubSeqProperties
  <2>6. /\ Len(piece) = l
        /\ \A q \in 1 .. l : q \in 1 .. (s + l) - (s + 1) + 1 /\ (s + 1) + q - 1 = s + q
    <3> HIDE DEF piece
    <3> QED
      BY <2>1, <2>5
  <2> HIDE DEF piece
  <2>7. \A q \in 1 .. l : piece[q] = text[q]
    BY <2>1, <2>5, <2>6
  <2>8. piece = text
    BY <2>1, <2>2, <2>5, <2>6, <2>7, SeqEqual DEF text
  <2> QED
    BY <2>8 DEF piece, text, Content, s, l
<1>4. DOMAIN argv = 1 .. Len(argv) /\ input.words \in [1 .. Len(input.words) -> Seq(Char)]
  BY <1>2
<1>5. got = [n \in 1 .. Len(input.words) |-> input.words[n]]
  BY <1>1, <1>3, <1>4
<1> QED
  BY <1>4, <1>5

\* A line that spells words arrives as these words, however they are spelled: for
\* every line, prefix and number of slots.
THEOREM SpelledWordsArrive == Spec => []WordsArrive
<1>1. Init => IInv /\ SpellInv
  BY IInvInit, SpellInit
<1>2. IInv /\ SpellInv /\ [Next]_vars => (IInv /\ SpellInv)'
  BY IInvNext, SpellNext
<1>3. IInv /\ SpellInv => WordsArrive
  BY SpelledArrive
<1> QED
  BY <1>1, <1>2, <1>3, PTL DEF Spec

-----------------------------------------------------------------------------
(* Terminal: hidden input *)

\* The call in progress knows the echo that it has to put back, and shows none itself
\* when its keys are to be hidden.
EchoIsKept ==
    /\ ~InCall => echo = wanted /\ call.hide = "none"
    /\ call.kind \in {"read", "gets"} => echo = wanted /\ call.hide = "none"
    /\ call.kind = "input" => call.echo = wanted
    /\ call.hide # "none" => call.kind = "input" /\ echo = FALSE

HiddenInv ==
    /\ call \in [kind : {"none", "read", "gets", "input"}, len : Nat, hide : {"none", "off", "mask"},
                 echo : BOOLEAN, buf : Seq(Key)]
    /\ echo \in BOOLEAN /\ wanted \in BOOLEAN
    /\ EchoIsKept

LEMMA NoKeyIsPrintable ==
    ASSUME NEW ch \in {"BS", "CR", "NL", Mask} PROVE ch \notin Printable
BY TerminalAssumption

\* A character becomes itself, or the ends of line.
LEMMA PutIsSafe ==
    ASSUME NEW ch, ch \notin Printable
    PROVE  \A n \in DOMAIN Put(ch) : Put(ch)[n] \notin Printable
<1>1. "CR" \notin Printable /\ "NL" \notin Printable
  BY NoKeyIsPrintable
<1>2. Put(ch) \in {<<ch>>, <<"CR", "NL">>, <<"CR", "CR">>, <<"NL">>, <<"CR">>}
  <2>1. ASSUME NEW a, NEW b PROVE <<a>> \o <<b>> = <<a, b>> /\ <<>> \o <<b>> = <<b>>
    <3>1. <<a>> \in Seq({a, b}) /\ <<b>> \in Seq({a, b})
      OBVIOUS
    <3>2. <<a>> \o <<b>> = <<a, b>>
      <4>1. <<a, b>> \in Seq({a, b}) /\ Len(<<a, b>>) = 2 /\ <<a, b>>[1] = a /\ <<a, b>>[2] = b
        OBVIOUS
      <4>2. Len(<<a>>) = 1 /\ Len(<<b>>) = 1 /\ <<a>>[1] = a /\ <<b>>[1] = b
        OBVIOUS
      <4>3. /\ <<a>> \o <<b>> \in Seq({a, b}) /\ Len(<<a>> \o <<b>>) = 2
            /\ (<<a>> \o <<b>>)[1] = a /\ (<<a>> \o <<b>>)[2] = b
        BY <3>1, <4>2, ConcatProperties
      <4>4. \A n \in 1 .. Len(<<a>> \o <<b>>) : (<<a>> \o <<b>>)[n] = <<a, b>>[n]
        BY <4>1, <4>3
      <4> QED
        BY <4>1, <4>3, <4>4, SeqEqual
    <3>3. <<>> \o <<b>> = <<b>>
      BY <3>1, ConcatEmptySeq, Zenon
    <3> QED
      BY <3>2, <3>3
  <2>2. /\ <<"CR">> \o <<"NL">> = <<"CR", "NL">> /\ <<"CR">> \o <<"CR">> = <<"CR", "CR">>
        /\ <<>> \o <<"NL">> = <<"NL">> /\ <<>> \o <<"CR">> = <<"CR">>
    BY <2>1, Zenon
  <2> QED
    BY <2>1, <2>2 DEF Put
<1> QED
  BY <1>1, <1>2

\* What a hidden input shows of a character holds no printable one.
LEMMA ShownIsHidden ==
    ASSUME HiddenInv, call.hide # "none", NEW ch
    PROVE  \A n \in DOMAIN Shown(ch) : Shown(ch)[n] \notin Printable
<1>1. echo = FALSE /\ call.kind = "input"
  BY DEF HiddenInv, EchoIsKept
<1>2. CASE call.hide = "mask"
  <2>1. Shown(ch) = Masked(ch)
    <3>1. Shown(ch) = <<>> \o Masked(ch)
      BY <1>1, <1>2 DEF Shown
    <3>2. Masked(ch) \in Seq({IF ch \in Printable THEN Mask ELSE ch, "CR", "NL"})
      BY DEF Masked, Put
    <3> QED
      BY <3>1, <3>2
  <2>2. (IF ch \in Printable THEN Mask ELSE ch) \notin Printable
    BY NoKeyIsPrintable
  <2> QED
    BY <2>1, <2>2, PutIsSafe DEF Masked
<1>3. CASE call.hide # "mask"
  BY <1>1, <1>3 DEF Shown
<1> QED
  BY <1>2, <1>3

LEMMA EditedIsLine ==
    ASSUME NEW line \in Seq(Key), NEW ch \in Key
    PROVE  Edited(line, ch) \in Seq(Key)
<1>1. CASE ch = "BS" /\ line # <<>>
  <2>1. Edited(line, ch) = SubSeq(line, 1, Len(line) - 1)
    BY <1>1 DEF Edited, Front
  <2>2. Len(line) \in Nat \ {0}
    BY <1>1, EmptySeq, LenProperties
  <2> QED
    BY <2>1, <2>2, SubSeqProperties
<1> QED
  BY <1>1 DEF Edited

LEMMA HiddenInit == TerminalInit => HiddenInv
<1> SUFFICES ASSUME TerminalInit PROVE HiddenInv
  OBVIOUS
<1>1. call = [kind |-> "none", len |-> 0, hide |-> "none", echo |-> FALSE, buf |-> <<>>]
  BY DEF TerminalInit, NoCall
<1>2. call \in [kind : {"none", "read", "gets", "input"}, len : Nat, hide : {"none", "off", "mask"},
                echo : BOOLEAN, buf : Seq(Key)]
  BY <1>1
<1>3. call.kind = "none" /\ call.hide = "none" /\ echo = FALSE /\ wanted = FALSE
  BY <1>1 DEF TerminalInit
<1>4. EchoIsKept
  BY <1>3 DEF EchoIsKept
<1> QED
  BY <1>2, <1>3, <1>4 DEF HiddenInv

\* What a step puts on the device while an input is hidden, and the echo when a call
\* is over.
Hides ==
    /\ call.hide # "none" => \A n \in DOMAIN sent' : sent'[n] \notin Printable
    /\ ~InCall' => echo' = wanted'

LEMMA BeginHides ==
    ASSUME HiddenInv, NEW kind \in {"read", "gets", "input"}, NEW len \in Nat, NEW hide \in {"none", "off", "mask"},
           Begin(kind, len, hide), wanted' = wanted,
           echo' = IF kind = "input" THEN EchoDuring(hide) ELSE echo, kind # "input" => hide = "none"
    PROVE  HiddenInv' /\ Hides
<1>1. call' = [kind |-> kind, len |-> len, hide |-> hide, echo |-> echo, buf |-> <<>>] /\ ~InCall
  BY DEF Begin
<1>2. echo = wanted /\ call.hide = "none"
  BY <1>1 DEF HiddenInv, EchoIsKept
<1>3. /\ call' \in [kind : {"none", "read", "gets", "input"}, len : Nat, hide : {"none", "off", "mask"},
                   echo : BOOLEAN, buf : Seq(Key)]
      /\ call'.kind = kind /\ call'.hide = hide /\ call'.echo = wanted
  BY <1>1, <1>2 DEF HiddenInv
<1>4. InCall' /\ wanted' \in BOOLEAN /\ echo' \in BOOLEAN
  BY <1>3 DEF InCall, HiddenInv, EchoDuring
<1>5. EchoIsKept'
  BY <1>2, <1>3, <1>4 DEF EchoIsKept, EchoDuring
<1> QED
  BY <1>2, <1>3, <1>4, <1>5 DEF HiddenInv, Hides

LEMMA ReturnHides ==
    ASSUME HiddenInv, InCall, Return, wanted' = wanted,
           call.hide # "none" => \A n \in DOMAIN sent' : sent'[n] \notin Printable
    PROVE  HiddenInv' /\ Hides
<1>1. call' = NoCall /\ echo' = wanted
  BY DEF HiddenInv, EchoIsKept, Return, EchoAfter, InCall
<1> QED
  BY <1>1 DEF HiddenInv, EchoIsKept, InCall, NoCall, Hides

LEMMA KeyHides ==
    ASSUME HiddenInv, InCall, UNCHANGED <<echo, wanted>>, NEW line \in Seq(Key), call' = [call EXCEPT !.buf = line],
           call.hide # "none" => \A n \in DOMAIN sent' : sent'[n] \notin Printable
    PROVE  HiddenInv' /\ Hides
<1>1. /\ call'.kind = call.kind /\ call'.hide = call.hide /\ call'.echo = call.echo
      /\ call' \in [kind : {"none", "read", "gets", "input"}, len : Nat, hide : {"none", "off", "mask"},
                    echo : BOOLEAN, buf : Seq(Key)]
  BY DEF HiddenInv
<1> QED
  BY <1>1 DEF HiddenInv, EchoIsKept, InCall, Hides

LEMMA HiddenNext == ASSUME HiddenInv, TerminalNext PROVE HiddenInv' /\ Hides
<1>1. ASSUME sent' = <<>>, UNCHANGED <<echo, wanted, call>> PROVE HiddenInv' /\ Hides
  BY <1>1 DEF HiddenInv, EchoIsKept, InCall, Hides
<1>2. ASSUME NEW pressed \in Key, Type(pressed) PROVE HiddenInv' /\ Hides
  BY <1>1, <1>2 DEF Type
<1>3. ASSUME NEW m, SetMode(m) PROVE HiddenInv' /\ Hides
  BY <1>1, <1>3 DEF SetMode
<1>4. ASSUME NEW on \in BOOLEAN, SetEcho(on) PROVE HiddenInv' /\ Hides
  BY <1>4 DEF SetEcho, HiddenInv, EchoIsKept, InCall, Hides
<1>5. CASE WriteText
  BY <1>5 DEF WriteText, HiddenInv, EchoIsKept, InCall, Hides
<1>6. ASSUME NEW len \in 0 .. MaxLen, Read(len) \/ TerminalGets(len) PROVE HiddenInv' /\ Hides
  BY <1>6, BeginHides DEF Read, TerminalGets
<1>7. ASSUME NEW len \in 0 .. MaxLen, NEW hide \in {"none", "off", "mask"}, Input(len, hide)
      PROVE  HiddenInv' /\ Hides
  BY <1>7, BeginHides DEF Input
<1>8. CASE Full
  BY <1>8, ReturnHides DEF Full
<1>9. CASE ReadNothing
  BY <1>9, ReturnHides DEF ReadNothing, InCall
<1>10. CASE Skip
  BY <1>1, <1>10 DEF Skip, Take
<1>11. ASSUME NEW ch, GetChar(ch)
       PROVE  InCall /\ wanted' = wanted /\ (call.hide # "none" => \A n \in DOMAIN sent' : sent'[n] \notin Printable)
  <2>1. InCall /\ wanted' = wanted /\ sent' = Shown(ch)
    BY <1>11 DEF GetChar, Take
  <2> QED
    BY <2>1, ShownIsHidden
<1>12. CASE Raw
  <2>1. PICK ch \in Key : GetChar(ch) /\ call' = [call EXCEPT !.buf = Append(call.buf, ch)] /\ UNCHANGED echo
    BY <1>12 DEF Raw
  <2>2. Append(call.buf, ch) \in Seq(Key)
    BY DEF HiddenInv
  <2> QED
    BY <1>11, <2>1, <2>2, KeyHides
<1>13. CASE Edit
  <2>1. PICK ch \in Key : GetChar(ch) /\ call' = [call EXCEPT !.buf = Edited(call.buf, ch)] /\ UNCHANGED echo
    BY <1>13 DEF Edit
  <2>2. Edited(call.buf, ch) \in Seq(Key)
    BY EditedIsLine DEF HiddenInv
  <2> QED
    BY <1>11, <2>1, <2>2, KeyHides
<1>14. CASE EndOfLine
  BY <1>11, <1>14, ReturnHides DEF EndOfLine
<1> QED
  BY <1>2, <1>3, <1>4, <1>5, <1>6, <1>7, <1>8, <1>9, <1>10, <1>12, <1>13, <1>14 DEF TerminalNext

\* From the prompt to the return of terminal_input no printable key of a hidden input
\* reaches the device, and terminal_input leaves the echo as the program had set it.
THEOREM HiddenStaysHidden == TerminalSpec => HiddenIsHidden
<1>1. HiddenInv /\ [TerminalNext]_terminalVars => HiddenInv'
  <2>1. HiddenInv /\ UNCHANGED terminalVars => HiddenInv'
    BY DEF terminalVars, HiddenInv, EchoIsKept, InCall
  <2> QED
    BY <2>1, HiddenNext
<1>2. HiddenInv /\ [TerminalNext]_terminalVars => [Hides]_terminalVars
  BY HiddenNext
<1>3. [Hides]_terminalVars => [/\ call.hide # "none" => \A n \in DOMAIN sent' : sent'[n] \notin Printable
                               /\ ~InCall' => echo' = wanted']_terminalVars
  BY DEF Hides
<1> QED
  BY <1>1, <1>2, <1>3, HiddenInit, PTL DEF TerminalSpec, HiddenIsHidden

-----------------------------------------------------------------------------
(* Terminal: what backspaces leave of a line *)

\* The level goes up by a character and down by a backspace.
Climbs(text, h, n) ==
    /\ h \in [0 .. n -> Int] /\ h[0] = 0
    /\ \A m \in 1 .. n : h[m] = IF text[m] = "BS" THEN h[m - 1] - 1 ELSE h[m - 1] + 1

LEMMA ClimbsOn ==
    ASSUME NEW text, NEW n \in Nat
    PROVE  \E h : Climbs(text, h, n)
<1> DEFINE S == {m \in Nat : \E h : Climbs(text, h, m)}
<1>1. 0 \in S
  <2>1. Climbs(text, [m \in 0 .. 0 |-> 0], 0)
    BY DEF Climbs
  <2> QED
    BY <2>1
<1>2. ASSUME NEW m \in Nat, m \in S PROVE m + 1 \in S
  <2>1. PICK h : Climbs(text, h, m)
    BY <1>2
  <2> DEFINE g == [p \in 0 .. m + 1 |-> IF p <= m THEN h[p] ELSE IF text[m + 1] = "BS" THEN h[m] - 1 ELSE h[m] + 1]
  <2>2. h[m] \in Int /\ \A p \in 0 .. m : h[p] \in Int
    BY <2>1 DEF Climbs
  <2>3. g \in [0 .. m + 1 -> Int]
    BY <2>2
  <2>4. g[0] = 0
    BY <2>1 DEF Climbs
  <2>5. ASSUME NEW p \in 1 .. m + 1 PROVE g[p] = IF text[p] = "BS" THEN g[p - 1] - 1 ELSE g[p - 1] + 1
    <3>1. p \in 0 .. m + 1 /\ p - 1 \in 0 .. m + 1 /\ p - 1 <= m /\ g[p - 1] = h[p - 1]
      OBVIOUS
    <3>2. CASE p <= m
      <4>1. p \in 1 .. m /\ g[p] = h[p]
        BY <3>1, <3>2
      <4>2. h[p] = IF text[p] = "BS" THEN h[p - 1] - 1 ELSE h[p - 1] + 1
        BY <2>1, <4>1 DEF Climbs
      <4> QED
        BY <3>1, <4>1, <4>2
    <3>3. CASE ~(p <= m)
      <4>1. p = m + 1 /\ p - 1 = m
        BY <3>3
      <4> QED
        BY <3>1, <3>3, <4>1
    <3> QED
      BY <3>2, <3>3
  <2> HIDE DEF g
  <2>6. Climbs(text, g, m + 1)
    BY <2>3, <2>4, <2>5 DEF Climbs
  <2> QED
    BY <2>6
<1>3. \A m \in Nat : m \in S
  <2> HIDE DEF S
  <2> QED
    BY <1>1, <1>2, SetInduction
<1> QED
  BY <1>3

LEMMA LevelClimbs ==
    ASSUME NEW text, Len(text) \in Nat
    PROVE  Climbs(text, Level(text), Len(text))
<1> DEFINE n == Len(text)
           Loop(f) == f = [m \in 0 .. n |-> IF m = 0 THEN 0
                                            ELSE IF text[m] = "BS" THEN f[m - 1] - 1 ELSE f[m - 1] + 1]
           f == CHOOSE f : Loop(f)
<1>1. PICK h : Climbs(text, h, n)
  BY ClimbsOn
<1>2. Loop(h)
  <2>1. \A m \in 0 .. n : h[m] = IF m = 0 THEN 0 ELSE IF text[m] = "BS" THEN h[m - 1] - 1 ELSE h[m - 1] + 1
    BY <1>1 DEF Climbs
  <2>2. h \in [0 .. n -> Int]
    BY <1>1 DEF Climbs
  <2> QED
    BY <2>1, <2>2
<1>3. Loop(f)
  BY <1>2
<1>4. Level(text) = f /\ n \in Nat
  BY DEF Level
<1> HIDE DEF f, n
<1>5. f[0] = 0 /\ \A m \in 1 .. n : f[m] = IF text[m] = "BS" THEN f[m - 1] - 1 ELSE f[m - 1] + 1
  <2>1. 0 \in 0 .. n /\ \A m \in 1 .. n : m \in 0 .. n /\ m # 0
    BY <1>4
  <2>2. \A m \in 0 .. n : f[m] = IF m = 0 THEN 0 ELSE IF text[m] = "BS" THEN f[m - 1] - 1 ELSE f[m - 1] + 1
    BY <1>3
  <2> QED
    BY <2>1, <2>2
<1> DEFINE S == {m \in Nat : m <= n => f[m] \in Int}
<1>6. 0 \in S
  BY <1>5
<1>7. ASSUME NEW m \in Nat, m \in S PROVE m + 1 \in S
  <2> SUFFICES ASSUME m + 1 <= n PROVE f[m + 1] \in Int
    OBVIOUS
  <2>1. m + 1 \in 1 .. n /\ (m + 1) - 1 = m /\ f[m] \in Int
    BY <1>4, <1>7
  <2>2. f[m + 1] = IF text[m + 1] = "BS" THEN f[m] - 1 ELSE f[m] + 1
    BY <1>5, <2>1
  <2> QED
    BY <2>1, <2>2
<1>8. \A m \in Nat : m \in S
  <2> HIDE DEF S
  <2> QED
    BY <1>6, <1>7, SetInduction
<1>9. f \in [0 .. n -> Int]
  BY <1>3, <1>8
<1> QED
  BY <1>4, <1>5, <1>9 DEF Climbs, n

\* Another key leaves the levels before it.
LEMMA LevelsStay ==
    ASSUME NEW text, NEW longer, Len(text) \in Nat, Len(longer) \in Nat, Len(text) <= Len(longer),
           \A m \in 1 .. Len(text) : longer[m] = text[m]
    PROVE  \A m \in 0 .. Len(text) : Level(longer)[m] = Level(text)[m]
<1> DEFINE n == Len(text)  l == Level(text)  g == Level(longer)
<1>1. Climbs(text, l, n) /\ Climbs(longer, g, Len(longer))
  BY LevelClimbs
<1> HIDE DEF l, g
<1> DEFINE S == {m \in Nat : m <= n => g[m] = l[m]}
<1>2. 0 \in S
  BY <1>1 DEF Climbs
<1>3. ASSUME NEW m \in Nat, m \in S PROVE m + 1 \in S
  <2> SUFFICES ASSUME m + 1 <= n PROVE g[m + 1] = l[m + 1]
    OBVIOUS
  <2>1. m + 1 \in 1 .. n /\ m + 1 \in 1 .. Len(longer) /\ (m + 1) - 1 = m /\ g[m] = l[m]
    BY <1>3
  <2>2. l[m + 1] = IF text[m + 1] = "BS" THEN l[m] - 1 ELSE l[m] + 1
    BY <1>1, <2>1 DEF Climbs
  <2>3. g[m + 1] = IF longer[m + 1] = "BS" THEN g[m] - 1 ELSE g[m] + 1
    BY <1>1, <2>1 DEF Climbs
  <2> QED
    BY <2>1, <2>2, <2>3
<1>4. \A m \in Nat : m \in S
  <2> HIDE DEF S
  <2> QED
    BY <1>2, <1>3, SetInduction
<1> QED
  BY <1>4 DEF l, g

\* What another key adds to a text.
LEMMA OneMore ==
    ASSUME NEW text \in Seq(Key), NEW ch \in Key
    PROVE  LET longer == Append(text, ch)  n == Len(text) IN
           /\ n \in Nat /\ longer \in Seq(Key) /\ Len(longer) = n + 1 /\ longer[n + 1] = ch
           /\ \A m \in 1 .. n : longer[m] = text[m]
           /\ \A m \in 0 .. n : Level(longer)[m] = Level(text)[m] /\ Level(text)[m] \in Int
           /\ Level(longer)[n + 1] = IF ch = "BS" THEN Level(text)[n] - 1 ELSE Level(text)[n] + 1
           /\ \A m \in 1 .. n : Level(text)[m] = IF text[m] = "BS" THEN Level(text)[m - 1] - 1
                                                 ELSE Level(text)[m - 1] + 1
<1> DEFINE longer == Append(text, ch)  n == Len(text)
<1>1. /\ n \in Nat /\ longer \in Seq(Key) /\ Len(longer) = n + 1 /\ longer[n + 1] = ch
      /\ \A m \in 1 .. n : longer[m] = text[m]
  BY AppendProperties, LenProperties
<1> HIDE DEF longer, n
<1>2. \A m \in 0 .. n : Level(longer)[m] = Level(text)[m]
  BY <1>1, LevelsStay DEF n
<1>3. Climbs(text, Level(text), n) /\ Climbs(longer, Level(longer), n + 1)
  BY <1>1, LevelClimbs DEF n
<1>4. \A m \in 0 .. n : Level(text)[m] \in Int
  BY <1>3 DEF Climbs
<1>5. Level(longer)[n + 1] = IF ch = "BS" THEN Level(text)[n] - 1 ELSE Level(text)[n] + 1
  <2>1. n + 1 \in 1 .. n + 1 /\ (n + 1) - 1 = n /\ n \in 0 .. n
    BY <1>1
  <2>2. Level(longer)[n + 1] = IF longer[n + 1] = "BS" THEN Level(longer)[n] - 1 ELSE Level(longer)[n] + 1
    BY <1>3, <2>1 DEF Climbs
  <2> QED
    BY <1>1, <1>2, <2>1, <2>2
<1>6. \A m \in 1 .. n : Level(text)[m] = IF text[m] = "BS" THEN Level(text)[m - 1] - 1 ELSE Level(text)[m - 1] + 1
  BY <1>3 DEF Climbs
<1> QED
  BY <1>1, <1>2, <1>4, <1>5, <1>6 DEF longer, n

\* A kept character is above the one before it that is kept, and the line ends no
\* lower.
LEMMA KeptAscend ==
    ASSUME NEW text \in Seq(Key), NEW n \in Kept(text), NEW o \in Kept(text), n < o
    PROVE  Level(text)[n] < Level(text)[Len(text)]
<1> DEFINE l == Level(text)  e == Len(text)
<1>1. /\ n \in 1 .. e /\ o \in 1 .. e /\ text[o] # "BS" /\ e \in Nat
      /\ \A m \in n .. e : l[m] >= l[n]
      /\ \A m \in o .. e : l[m] >= l[o]
  BY DEF Kept
<1>2. Climbs(text, l, e)
  BY <1>1, LevelClimbs
<1> HIDE DEF l, e
<1>3. o - 1 \in n .. e /\ e \in o .. e /\ o - 1 \in 0 .. e /\ n \in 0 .. e /\ o \in 0 .. e /\ e \in 0 .. e
  BY <1>1
<1>4. l[o] = l[o - 1] + 1
  BY <1>1, <1>2 DEF Climbs
<1>5. l[o - 1] >= l[n] /\ l[e] >= l[o]
  BY <1>1, <1>3
<1>6. l[o - 1] \in Int /\ l[n] \in Int /\ l[o] \in Int /\ l[e] \in Int
  BY <1>2, <1>3 DEF Climbs
<1>7. l[n] < l[e]
  BY <1>4, <1>5, <1>6
<1> QED
  BY <1>7 DEF l, e

\* A kept character below the end of the line is not the last one.
LEMMA KeptAbove ==
    ASSUME NEW text \in Seq(Key), NEW n \in Kept(text), Level(text)[n] < Level(text)[Len(text)]
    PROVE  \E o \in Kept(text) : n < o
<1> DEFINE l == Level(text)  e == Len(text)
<1>1. n \in 1 .. e /\ e \in Nat /\ l[n] < l[e] /\ \A m \in n .. e : l[m] >= l[n]
  BY DEF Kept
<1>2. Climbs(text, l, e)
  BY <1>1, LevelClimbs
<1>9. ASSUME NEW o \in 1 .. e, text[o] # "BS", \A m \in o .. e : l[m] >= l[o] PROVE o \in Kept(text)
  BY <1>9 DEF Kept
<1> HIDE DEF l, e
<1> DEFINE Lowest(z) == z \in n .. e /\ l[z] = l[n] /\ \A m \in z + 1 .. e : l[m] # l[n]
           S == {d \in Nat : d <= e - n => \/ \A m \in e - d .. e : l[m] # l[n]
                                           \/ \E z : Lowest(z)}
<1>3. 0 \in S
  <2>1. \A m \in 0 .. e : l[m] \in Int
    BY <1>2 DEF Climbs
  <2>2. l[n] \in Int /\ l[e] \in Int
    BY <1>1, <2>1
  <2>3. \A m \in e - 0 .. e : l[m] # l[n]
    BY <1>1, <2>2
  <2> QED
    BY <2>3
<1>4. ASSUME NEW d \in Nat, d \in S PROVE d + 1 \in S
  <2> SUFFICES ASSUME d + 1 <= e - n, ~ \E z : Lowest(z) PROVE \A m \in e - (d + 1) .. e : l[m] # l[n]
    OBVIOUS
  <2>1. \A m \in e - d .. e : l[m] # l[n]
    BY <1>1, <1>4
  <2>2. e - (d + 1) \in n .. e /\ (e - (d + 1)) + 1 = e - d
    BY <1>1
  <2>3. l[e - (d + 1)] # l[n]
    BY <2>1, <2>2
  <2>4. \A m \in e - (d + 1) .. e : m = e - (d + 1) \/ m \in e - d .. e
    BY <1>1, <2>2
  <2> QED
    BY <2>1, <2>3, <2>4
<1>5. PICK z : Lowest(z)
  <2>1. \A d \in Nat : d \in S
    <3> HIDE DEF S
    <3> QED
      BY <1>3, <1>4, SetInduction
  <2>2. e - n \in Nat /\ e - n <= e - n /\ n \in e - (e - n) .. e
    BY <1>1
  <2>3. e - n \in S
    BY <2>1, <2>2
  <2> QED
    BY <2>2, <2>3
<1> DEFINE o == z + 1
<1>6. z \in 0 .. e /\ n \in 0 .. e /\ e \in 0 .. e /\ \A m \in 0 .. e : l[m] \in Int
  BY <1>1, <1>2, <1>5 DEF Climbs
<1>7. o \in n .. e /\ o \in 1 .. e /\ n < o /\ o - 1 = z
  <2>1. l[n] \in Int /\ l[e] \in Int
    BY <1>6
  <2>2. z # e
    BY <1>1, <1>5, <2>1
  <2> QED
    BY <1>1, <1>5, <2>2
<1>8. l[z] = l[n] /\ \A m \in o .. e : l[m] # l[n]
  BY <1>5
<1> HIDE DEF o
<1>10. l[o] = (IF text[o] = "BS" THEN l[z] - 1 ELSE l[z] + 1) /\ l[o] >= l[n]
  BY <1>1, <1>2, <1>7 DEF Climbs
<1>11. text[o] # "BS" /\ l[o] = l[n] + 1
  <2>1. l[n] \in Int /\ l[z] = l[n]
    BY <1>6, <1>8
  <2> QED
    BY <1>10, <2>1
<1>12. ASSUME NEW m \in o .. e PROVE l[m] >= l[o]
  <2>1. m \in n .. e /\ m \in 0 .. e
    BY <1>1, <1>7
  <2>2. l[m] >= l[n] /\ l[m] # l[n] /\ l[m] \in Int /\ l[n] \in Int
    BY <1>1, <1>6, <1>8, <2>1
  <2> QED
    BY <1>11, <2>2
<1> QED
  BY <1>7, <1>9, <1>11, <1>12

LEMMA KeptWithOneMore ==
    ASSUME NEW text \in Seq(Key), NEW ch \in Key
    PROVE  Kept(Append(text, ch)) =
               IF ch = "BS" THEN {n \in Kept(text) : Level(text)[n] < Level(text)[Len(text)]}
               ELSE Kept(text) \cup {Len(text) + 1}
<1> DEFINE longer == Append(text, ch)  e == Len(text)  l == Level(text)  g == Level(longer)
<1>1. /\ e \in Nat /\ longer \in Seq(Key) /\ Len(longer) = e + 1 /\ longer[e + 1] = ch
      /\ \A m \in 1 .. e : longer[m] = text[m]
      /\ \A m \in 0 .. e : g[m] = l[m] /\ l[m] \in Int
      /\ g[e + 1] = IF ch = "BS" THEN l[e] - 1 ELSE l[e] + 1
  BY OneMore
<1>2. /\ Kept(longer) = {n \in 1 .. e + 1 : longer[n] # "BS" /\ \A m \in n .. e + 1 : g[m] >= g[n]}
      /\ Kept(text) = {n \in 1 .. e : text[n] # "BS" /\ \A m \in n .. e : l[m] >= l[n]}
  <2>1. DOMAIN longer = 1 .. e + 1 /\ DOMAIN text = 1 .. e
    BY <1>1
  <2> QED
    BY <1>1, <2>1 DEF Kept
<1> HIDE DEF longer, e, l, g
<1>3. ASSUME NEW n \in 1 .. e
      PROVE  n \in Kept(longer) <=> n \in Kept(text) /\ g[e + 1] >= l[n]
  <2>1. /\ n \in 1 .. e + 1 /\ longer[n] = text[n] /\ g[n] = l[n]
        /\ \A m \in n .. e : m \in n .. e + 1 /\ g[m] = l[m]
        /\ e + 1 \in n .. e + 1
        /\ \A m \in n .. e + 1 : m \in n .. e \/ m = e + 1
    BY <1>1
  <2> QED
    BY <1>2, <2>1
<1>4. e + 1 \in Kept(longer) <=> ch # "BS"
  <2>1. g[e + 1] \in Int
    BY <1>1
  <2>2. e + 1 \in 1 .. e + 1 /\ \A m \in e + 1 .. e + 1 : m = e + 1
    BY <1>1
  <2> QED
    BY <1>1, <1>2, <2>1, <2>2
<1>5. ASSUME NEW n \in Kept(text) PROVE n \in 1 .. e /\ l[n] \in Int /\ l[e] \in Int /\ l[e] >= l[n]
  <2>1. n \in 1 .. e /\ \A m \in n .. e : l[m] >= l[n]
    BY <1>2
  <2> QED
    BY <1>1, <2>1
<1>6. \A n \in Kept(longer) : n \in 1 .. e \/ n = e + 1
  BY <1>1, <1>2
<1>7. CASE ch = "BS"
  <2>1. ASSUME NEW n \in Kept(text) PROVE n \in Kept(longer) <=> l[n] < l[e]
    BY <1>1, <1>3, <1>5, <1>7
  <2>2. Kept(longer) = {n \in Kept(text) : l[n] < l[e]}
    BY <1>3, <1>4, <1>5, <1>6, <1>7, <2>1
  <2> QED
    BY <1>7, <2>2 DEF longer, l, e
<1>8. CASE ch # "BS"
  <2>1. ASSUME NEW n \in Kept(text) PROVE n \in Kept(longer)
    BY <1>1, <1>3, <1>5, <1>8
  <2>2. Kept(longer) = Kept(text) \cup {e + 1}
    BY <1>3, <1>4, <1>6, <1>8, <2>1
  <2> QED
    BY <1>8, <2>2 DEF longer, e
<1> QED
  BY <1>7, <1>8

\* A line's places in the text.
Places(line, text, place) ==
    /\ place \in [1 .. Len(line) -> Kept(text)]
    /\ Kept(text) = {place[p] : p \in 1 .. Len(line)}
    /\ \A p, q \in 1 .. Len(line) : p < q => place[p] < place[q]
    /\ \A p \in 1 .. Len(line) : line[p] = text[place[p]]

LEMMA RemainsIs ==
    ASSUME NEW line \in Seq(Key), NEW text
    PROVE  Remains(line, text) <=> \E place : Places(line, text, place)
<1>1. DOMAIN line = 1 .. Len(line)
  OBVIOUS
<1> QED
  BY <1>1 DEF Remains, Places

LEMMA NothingRemains == Remains(<<>>, <<>>)
<1>1. Kept(<<>>) = {}
  BY DEF Kept
<1>2. Places(<<>>, <<>>, [p \in {} |-> 0])
  BY <1>1 DEF Places
<1>3. <<>> \in Seq(Key)
  OBVIOUS
<1> QED
  BY <1>2, <1>3, RemainsIs

LEMMA EditedRemains ==
    ASSUME NEW line \in Seq(Key), NEW text \in Seq(Key), NEW ch \in Key, Remains(line, text)
    PROVE  Remains(Edited(line, ch), Append(text, ch))
<1> DEFINE longer == Append(text, ch)  e == Len(text)  c == Len(line)
<1>1. PICK place : Places(line, text, place)
  BY RemainsIs
<1>2. c \in Nat /\ e \in Nat /\ Edited(line, ch) \in Seq(Key)
  BY EditedIsLine
<1>3. \A m \in 1 .. e : longer[m] = text[m]
  BY AppendProperties
<1>4. longer[e + 1] = ch
  BY AppendProperties
<1>5. Kept(text) \subseteq 1 .. e
  BY DEF Kept
<1>6. \A p \in 1 .. c : place[p] \in Kept(text) /\ place[p] \in 1 .. e
  BY <1>1, <1>5 DEF Places
<1> HIDE DEF longer, e, c
<1>7. CASE ch # "BS"
  <2> DEFINE other == [p \in 1 .. c + 1 |-> IF p <= c THEN place[p] ELSE e + 1]
  <2>1. Kept(longer) = Kept(text) \cup {e + 1}
    BY <1>7, KeptWithOneMore DEF longer, e
  <2>2. /\ Edited(line, ch) = Append(line, ch) /\ Len(Append(line, ch)) = c + 1
        /\ Append(line, ch)[c + 1] = ch /\ \A p \in 1 .. c : Append(line, ch)[p] = line[p]
    BY <1>7, AppendProperties DEF Edited, c
  <2>3. other \in [1 .. c + 1 -> Kept(longer)]
    BY <1>2, <1>6, <2>1
  <2>4. /\ other[c + 1] = e + 1 /\ \A p \in 1 .. c : other[p] = place[p]
        /\ \A p \in 1 .. c + 1 : p \in 1 .. c \/ p = c + 1
        /\ \A p \in 1 .. c : p \in 1 .. c + 1
        /\ c + 1 \in 1 .. c + 1
    BY <1>2
  <2> HIDE DEF other
  <2>5. Kept(longer) = {other[p] : p \in 1 .. c + 1}
    <3>1. Kept(text) = {place[p] : p \in 1 .. c}
      BY <1>1 DEF Places, c
    <3> QED
      BY <2>1, <2>4, <3>1
  <2>6. ASSUME NEW p \in 1 .. c + 1, NEW q \in 1 .. c + 1, p < q PROVE other[p] < other[q]
    <3>1. p \in 1 .. c /\ other[p] = place[p]
      BY <1>2, <2>4, <2>6
    <3>2. CASE q = c + 1
      BY <1>2, <1>6, <2>4, <3>1, <3>2
    <3>3. CASE q \in 1 .. c
      BY <1>1, <2>4, <2>6, <3>1, <3>3 DEF Places, c
    <3> QED
      BY <2>4, <3>2, <3>3
  <2>7. ASSUME NEW p \in 1 .. c + 1 PROVE Edited(line, ch)[p] = longer[other[p]]
    <3>1. CASE p \in 1 .. c
      <4>1. line[p] = text[place[p]]
        BY <1>1, <3>1 DEF Places, c
      <4>2. longer[place[p]] = text[place[p]]
        BY <1>3, <1>6, <3>1
      <4> QED
        BY <2>2, <2>4, <3>1, <4>1, <4>2
    <3>2. CASE p = c + 1
      BY <1>4, <2>2, <2>4, <3>2
    <3> QED
      BY <2>4, <3>1, <3>2
  <2>8. Places(Edited(line, ch), longer, other)
    <3>1. Len(Edited(line, ch)) = c + 1
      BY <2>2
    <3> QED
      BY <2>3, <2>5, <2>6, <2>7, <3>1 DEF Places
  <2> QED
    BY <1>2, <2>8, RemainsIs DEF longer
<1>8. CASE ch = "BS" /\ line = <<>>
  <2>1. c = 0 /\ Edited(line, ch) = line
    BY <1>8 DEF Edited, c
  <2>2. Kept(text) = {}
    BY <1>1, <2>1 DEF Places, c
  <2>3. Kept(longer) = {}
    BY <1>8, <2>2, KeptWithOneMore DEF longer
  <2>4. Places(line, longer, place)
    BY <1>1, <2>1, <2>2, <2>3 DEF Places, c
  <2> QED
    BY <2>1, <2>4, RemainsIs DEF longer
<1>9. CASE ch = "BS" /\ line # <<>>
  <2>1. c \in Nat \ {0} /\ c - 1 \in Nat /\ c \in 1 .. c
    <3>1. c # 0
      BY <1>9, EmptySeq DEF c
    <3> QED
      BY <1>2, <3>1
  <2>2. /\ Edited(line, ch) = SubSeq(line, 1, c - 1) /\ Len(SubSeq(line, 1, c - 1)) = c - 1
        /\ \A p \in 1 .. c - 1 : SubSeq(line, 1, c - 1)[p] = line[p]
    <3>1. Edited(line, ch) = SubSeq(line, 1, c - 1)
      BY <1>9 DEF Edited, Front, c
    <3>2. 1 \in 1 .. c + 1 /\ c - 1 \in 0 .. c /\ c = Len(line)
      BY <2>1 DEF c
    <3> QED
      BY <2>1, <3>1, <3>2, SubSeqProperties
  <2> DEFINE last == place[c]
             other == [p \in 1 .. c - 1 |-> place[p]]
  <2>3. Kept(longer) = {n \in Kept(text) : Level(text)[n] < Level(text)[e]}
    BY <1>9, KeptWithOneMore DEF longer, e
  <2>4. last \in Kept(text) /\ last \in 1 .. e
    BY <1>6, <2>1
  <2>5. \A p \in 1 .. c - 1 : p \in 1 .. c /\ p < c
    BY <2>1
  <2>6. \A p \in 1 .. c - 1 : place[p] < last
    BY <1>1, <2>1, <2>5 DEF Places, c
  <2> HIDE DEF last
  <2>7. last \notin Kept(longer)
    <3> SUFFICES ASSUME Level(text)[last] < Level(text)[e] PROVE FALSE
      BY <2>3
    <3>1. PICK n \in Kept(text) : last < n
      BY <2>4, KeptAbove DEF e
    <3>2. PICK p \in 1 .. c : n = place[p]
      BY <1>1 DEF Places, c
    <3>3. p = c \/ p \in 1 .. c - 1
      BY <2>1
    <3>4. n \in 1 .. e
      BY <1>5
    <3> QED
      BY <2>4, <2>6, <3>1, <3>2, <3>3, <3>4 DEF last
  <2>8. \A p \in 1 .. c - 1 : place[p] \in Kept(longer)
    <3> TAKE p \in 1 .. c - 1
    <3>1. place[p] \in Kept(text) /\ place[p] < last
      BY <1>6, <2>5, <2>6
    <3>2. Level(text)[place[p]] < Level(text)[e]
      BY <2>4, <3>1, KeptAscend DEF e
    <3> QED
      BY <2>3, <3>1, <3>2
  <2>9. Kept(longer) = {place[p] : p \in 1 .. c - 1}
    <3>1. ASSUME NEW n \in Kept(longer) PROVE \E p \in 1 .. c - 1 : n = place[p]
      <4>1. n \in Kept(text)
        BY <2>3
      <4>2. PICK p \in 1 .. c : n = place[p]
        BY <1>1, <4>1 DEF Places, c
      <4>3. p # c
        BY <2>7, <4>2 DEF last
      <4>4. p \in 1 .. c - 1
        BY <2>1, <4>3
      <4> QED
        BY <4>2, <4>4
    <3> QED
      BY <2>8, <3>1
  <2>10. other \in [1 .. c - 1 -> Kept(longer)] /\ \A p \in 1 .. c - 1 : other[p] = place[p]
    BY <2>8
  <2> HIDE DEF other
  <2>11. Kept(longer) = {other[p] : p \in 1 .. c - 1}
    BY <2>9, <2>10
  <2>12. \A p, q \in 1 .. c - 1 : p < q => other[p] < other[q]
    BY <1>1, <2>5, <2>10 DEF Places, c
  <2>13. ASSUME NEW p \in 1 .. c - 1 PROVE Edited(line, ch)[p] = longer[other[p]]
    <3>1. line[p] = text[place[p]]
      BY <1>1, <2>5 DEF Places, c
    <3>2. longer[place[p]] = text[place[p]]
      BY <1>3, <1>6, <2>5
    <3> QED
      BY <2>2, <2>10, <3>1, <3>2
  <2>14. Places(Edited(line, ch), longer, other)
    <3>1. Len(Edited(line, ch)) = c - 1
      BY <2>2
    <3> QED
      BY <2>10, <2>11, <2>12, <2>13, <3>1 DEF Places
  <2> QED
    BY <1>2, <2>14, RemainsIs DEF longer
<1> QED
  BY <1>7, <1>8, <1>9

\* A line with one key more is longer by no more than that.
LEMMA EditedLength ==
    ASSUME NEW line \in Seq(Key), NEW ch \in Key
    PROVE  Len(Edited(line, ch)) <= Len(line) + 1
<1>1. CASE ch = "BS" /\ line # <<>>
  <2>1. Edited(line, ch) = SubSeq(line, 1, Len(line) - 1) /\ Len(line) \in Nat \ {0}
    BY <1>1, EmptySeq, LenProperties DEF Edited, Front
  <2>2. Len(SubSeq(line, 1, Len(line) - 1)) = Len(line) - 1
    <3> DEFINE n == Len(line) - 1
    <3>1. n \in Nat /\ \A p \in 1 .. n : p \in 1 .. Len(line)
      BY <2>1
    <3>2. \A p \in 1 .. n : line[p] \in Key
      BY <3>1
    <3> HIDE DEF n
    <3>3. Len(SubSeq(line, 1, n)) = IF 1 <= n THEN n - 1 + 1 ELSE 0
      BY <3>1, <3>2, SubSeqProperties
    <3>4. Len(SubSeq(line, 1, n)) = n
      BY <3>1, <3>3
    <3> QED
      BY <3>4 DEF n
  <2> QED
    BY <2>1, <2>2
<1>2. CASE ch # "BS"
  BY <1>2, AppendProperties DEF Edited
<1> QED
  BY <1>1, <1>2 DEF Edited

EditInv == HiddenInv /\ seen \in Seq(Key) /\ LineIsEdited

LEMMA EditNext == ASSUME EditInv, TerminalNext PROVE EditInv'
<1>1. HiddenInv' /\ call.buf \in Seq(Key) /\ call.len \in Nat
  BY HiddenNext DEF EditInv, HiddenInv
<1>2. ASSUME UNCHANGED <<call, seen>> PROVE EditInv'
  BY <1>1, <1>2 DEF EditInv, LineIsEdited
<1>3. ASSUME call'.buf = <<>>, call'.len \in Nat, seen' = <<>> PROVE EditInv'
  <2>1. seen' \in Seq(Key) /\ Len(call'.buf) <= call'.len /\ Remains(call'.buf, seen')
    BY <1>3, NothingRemains
  <2> QED
    BY <1>1, <2>1 DEF EditInv, LineIsEdited
<1>4. Return => EditInv'
  BY <1>3 DEF Return, NoCall
<1>5. ASSUME NEW pressed \in Key, Type(pressed) PROVE EditInv'
  BY <1>2, <1>5 DEF Type
<1>6. ASSUME NEW m, SetMode(m) PROVE EditInv'
  BY <1>2, <1>6 DEF SetMode
<1>7. ASSUME NEW on \in BOOLEAN, SetEcho(on) PROVE EditInv'
  BY <1>2, <1>7 DEF SetEcho
<1>8. CASE WriteText
  BY <1>2, <1>8 DEF WriteText
<1>9. ASSUME NEW kind, NEW len \in 0 .. MaxLen, NEW hide, Begin(kind, len, hide) PROVE EditInv'
  BY <1>3, <1>9, TerminalAssumption DEF Begin
<1>10. ASSUME NEW len \in 0 .. MaxLen, Read(len) \/ TerminalGets(len) PROVE EditInv'
  BY <1>9, <1>10 DEF Read, TerminalGets
<1>11. ASSUME NEW len \in 0 .. MaxLen, NEW hide \in {"none", "off", "mask"}, Input(len, hide) PROVE EditInv'
  BY <1>9, <1>11 DEF Input
<1>12. CASE Full \/ ReadNothing \/ EndOfLine
  BY <1>4, <1>12 DEF Full, ReadNothing, EndOfLine
<1>13. CASE Skip
  BY <1>2, <1>13 DEF Skip
<1>14. ASSUME NEW ch \in Key, NEW line \in Seq(Key), GetChar(ch), Len(line) <= Len(call.buf) + 1,
              call' = [call EXCEPT !.buf = line], seen' = Append(seen, ch),
              call.kind \in {"gets", "input"} => Remains(line, Append(seen, ch))
       PROVE  EditInv'
  <2>1. Len(call.buf) < call.len
    BY <1>14 DEF GetChar, Take, Room
  <2>2. call'.buf = line /\ call'.len = call.len /\ call'.kind = call.kind
    BY <1>14 DEF EditInv, HiddenInv
  <2>3. Len(call'.buf) <= call'.len
    BY <1>1, <1>14, <2>1, <2>2
  <2>4. seen' \in Seq(Key)
    BY <1>14 DEF EditInv
  <2> QED
    BY <1>1, <1>14, <2>2, <2>3, <2>4 DEF EditInv, LineIsEdited
<1>15. CASE Raw
  <2>1. PICK ch \in Key : /\ call.kind = "read" /\ GetChar(ch) /\ call' = [call EXCEPT !.buf = Append(call.buf, ch)]
                          /\ seen' = Append(seen, ch)
    BY <1>15 DEF Raw
  <2>2. Append(call.buf, ch) \in Seq(Key) /\ Len(Append(call.buf, ch)) <= Len(call.buf) + 1
    BY <1>1, AppendProperties
  <2> QED
    BY <1>14, <2>1, <2>2
<1>16. CASE Edit
  <2>1. PICK ch \in Key : /\ call.kind \in {"gets", "input"} /\ GetChar(ch)
                          /\ call' = [call EXCEPT !.buf = Edited(call.buf, ch)] /\ seen' = Append(seen, ch)
    BY <1>16 DEF Edit
  <2>2. /\ Edited(call.buf, ch) \in Seq(Key) /\ Len(Edited(call.buf, ch)) <= Len(call.buf) + 1
        /\ Remains(Edited(call.buf, ch), Append(seen, ch))
    BY <1>1, <2>1, EditedIsLine, EditedLength, EditedRemains DEF EditInv, LineIsEdited
  <2> QED
    BY <1>14, <2>1, <2>2
<1> QED
  BY <1>5, <1>6, <1>7, <1>8, <1>10, <1>11, <1>12, <1>13, <1>15, <1>16 DEF TerminalNext

\* terminal_gets and terminal_input leave in the buffer what the backspaces typed leave
\* of the line, and never more than there is room for.
THEOREM LinesAreEdited == TerminalSpec => []LineIsEdited
<1>1. TerminalInit => EditInv
  <2> SUFFICES ASSUME TerminalInit PROVE EditInv
    OBVIOUS
  <2>1. seen \in Seq(Key) /\ call.kind = "none" /\ call.buf = <<>> /\ call.len = 0
    BY DEF TerminalInit, NoCall
  <2> QED
    BY <2>1, HiddenInit DEF EditInv, LineIsEdited
<1>2. EditInv /\ [TerminalNext]_terminalVars => EditInv'
  <2>1. EditInv /\ UNCHANGED terminalVars => EditInv'
    BY DEF EditInv, terminalVars, HiddenInv, EchoIsKept, InCall, LineIsEdited
  <2> QED
    BY <2>1, EditNext
<1>3. EditInv => LineIsEdited
  BY DEF EditInv
<1> QED
  BY <1>1, <1>2, <1>3, PTL DEF TerminalSpec

-----------------------------------------------------------------------------
(* Algorithm: the gaps of the shell sort *)

\* 0, 1, 4, 13 and so on: what "k = 3 * k + 1" makes of 0.
Closed(set) == 0 \in set /\ \A g \in set : 3 * g + 1 \in set
Gaps == {g \in Nat : \A set \in SUBSET Nat : Closed(set) => g \in set}

LEMMA GapsAreClosed == Closed(Gaps)
BY DEF Gaps, Closed

\* "k /= 3" takes every gap to the one before it, so that the pass with gap 1 comes
\* before the one with gap 0.
LEMMA GapBefore ==
    ASSUME NEW g \in Gaps
    PROVE  /\ g \div 3 \in Gaps /\ g \in Nat
           /\ g \div 3 = 0 => g \in {0, 1}
<1> DEFINE Made == {h \in Gaps : h = 0 \/ \E f \in Gaps : h = 3 * f + 1}
<1>1. Closed(Made) /\ Made \subseteq Nat
  BY GapsAreClosed DEF Gaps, Closed
<1>2. g \in Made
  BY <1>1 DEF Gaps
<1>3. CASE g = 0
  BY <1>3
<1>4. CASE g # 0
  <2>1. PICK f \in Gaps : g = 3 * f + 1
    BY <1>2, <1>4
  <2>2. f \in Nat /\ g \div 3 = f
    BY <2>1 DEF Gaps
  <2> QED
    BY <2>1, <2>2
<1> QED
  BY <1>3, <1>4

LEMMA FirstGaps == 0 \in Gaps /\ 1 \in Gaps /\ \A g \in Gaps : g \in Nat /\ 3 * g + 1 \in Gaps
<1>1. 3 * 0 + 1 = 1
  OBVIOUS
<1> QED
  BY <1>1, GapsAreClosed DEF Closed, Gaps

-----------------------------------------------------------------------------
(* Arrangements of the items *)

Items == 1 .. Len(key)

\* Every item has a place.
Complete(a) == /\ \A p \in Items : a[p] \in Items
               /\ \A x \in Items : \E p \in Items : a[p] = x

Typed == /\ key \in Seq(Int) /\ array \in Seq(Nat) /\ Len(array) = Len(key)
         /\ i \in Int /\ j \in Int /\ k \in Int /\ temp \in Nat

LEMMA PlacedIs ==
    ASSUME Typed, NEW n \in 0 .. num - 1, NEW item \in Nat
    PROVE  /\ Placed(n, item) \in Seq(Nat) /\ Len(Placed(n, item)) = Len(array)
           /\ \A p \in Items : Placed(n, item)[p] = IF p = n + 1 THEN item ELSE array[p]
<1>1. n + 1 \in 1 .. Len(array)
  BY DEF Typed, num
<1> QED
  BY <1>1, ExceptSeq DEF Typed, Placed, Items

\* Exchanging two items loses none.
LEMMA ExchangeIsComplete ==
    ASSUME NEW a, Complete(a), NEW p \in Items, NEW q \in Items, NEW b,
           \A x \in Items : b[x] = IF x = p THEN a[q] ELSE IF x = q THEN a[p] ELSE a[x]
    PROVE  Complete(b)
<1>1. \A x \in Items : b[x] \in Items
  BY DEF Complete
<1>2. ASSUME NEW x \in Items PROVE \E y \in Items : b[y] = x
  <2>1. PICK y \in Items : a[y] = x
    BY DEF Complete
  <2> QED
    BY <2>1
<1> QED
  BY <1>1, <1>2 DEF Complete

-----------------------------------------------------------------------------
(* The invariant *)

\* The items in the first n places are in order.
InOrder(n) == \A p, q \in Items : p < q /\ q <= n => key[array[p]] <= key[array[q]]

\* While an item is held in temp its place is free: place j + k, counted from 0.
Held == Placed(j + k, temp)

Inserting ==
    /\ sort \in {"insertion", "shell"} /\ (sort = "insertion" => k = 1)
    /\ k \in Gaps /\ k <= i

Shifting ==
    /\ i < num /\ -k <= j /\ j <= i - k
    /\ Complete(Held)
    /\ k = 0 => InOrder(num) /\ j = i /\ temp = array[i + 1]
    /\ k = 1 => /\ \A p, q \in Items : p < q /\ q <= i + 1 /\ p # j + 2 /\ q # j + 2
                                       => key[array[p]] <= key[array[q]]
                /\ \A q \in Items : j + 2 < q /\ q <= i + 1 => key[temp] <= key[array[q]]

\* The first n places hold the least items, in order.
LeastFirst(n) == \A p, q \in Items : p <= n /\ p < q => key[array[p]] <= key[array[q]]

Halving ==
    /\ sort \in {"lower", "upper"}
    /\ 0 <= i /\ 0 <= j /\ i + j <= num
    /\ \A n \in 0 .. num - 1 : (n < i => Before(Item(n))) /\ (n >= i + j => ~Before(Item(n)))

SortInv ==
    /\ Typed
    /\ loop \in {"start", "widen", "gap", "insert", "shift", "select", "scan", "sorted", "search", "found"}
    /\ loop \notin {"start", "shift"} => Complete(array)
    /\ loop = "widen"  => sort = "shell" /\ k \in Gaps \ {0} /\ i = 0
    /\ loop = "gap"    => sort = "shell" /\ k \in Gaps /\ (k <= 1 => InOrder(num))
    /\ loop = "insert" => Inserting /\ (k = 1 => InOrder(i)) /\ (k = 0 => InOrder(num))
    /\ loop = "shift"  => Inserting /\ Shifting
    /\ loop = "select" => 0 <= i /\ LeastFirst(i)
    /\ loop = "scan"   => /\ 0 <= i /\ i < num - 1 /\ LeastFirst(i)
                          /\ i <= k /\ k < j /\ i < j /\ j <= num
                          /\ \A q \in Items : i < q /\ q <= j => key[array[k + 1]] <= key[array[q]]
    /\ loop \in {"sorted", "search", "found"} => InOrder(num)
    /\ loop \in {"search", "found"} => Halving
    /\ loop = "found"  => j = 0

LEMMA BeginKeeps ==
    ASSUME SortInv, NEW n \in 0 .. MaxItems, NEW keys \in [1 .. n -> SortKeys],
           NEW name \in {"insertion", "selection", "shell"}, SortBegin(name, keys)
    PROVE  SortInv'
<1>1. keys \in Seq(Int) /\ Len(keys) = n /\ DOMAIN keys = 1 .. n /\ n \in Nat
  <2>1. n \in Nat
    BY AlgorithmAssumption
  <2>2. keys = [x \in 1 .. n |-> keys[x]] /\ \A x \in 1 .. n : keys[x] \in Int
    BY AlgorithmAssumption
  <2> QED
    BY <2>1, <2>2
<1>2. /\ key' = keys /\ array' = [x \in 1 .. n |-> x] /\ k' = 1 /\ UNCHANGED <<j, temp>>
      /\ i' = (IF name = "insertion" THEN 1 ELSE 0) /\ sort' = name
      /\ loop' = (CASE name = "insertion" -> "insert" [] name = "selection" -> "select" [] OTHER -> "widen")
  BY <1>1 DEF SortBegin
<1>3. array' \in Seq(Nat) /\ Len(array') = n /\ \A p \in 1 .. n : array'[p] = p
  BY <1>1, <1>2
<1>4. Typed' /\ Items' = 1 .. n
  BY <1>1, <1>2, <1>3 DEF SortInv, Typed, Items
<1>5. Complete(array)'
  BY <1>3, <1>4 DEF Complete
<1>6. CASE name = "insertion"
  BY <1>1, <1>2, <1>4, <1>5, <1>6, FirstGaps DEF SortInv, Inserting, InOrder
<1>7. CASE name = "selection"
  BY <1>1, <1>2, <1>4, <1>5, <1>7 DEF SortInv, LeastFirst
<1>8. CASE name = "shell"
  BY <1>1, <1>2, <1>4, <1>5, <1>8, FirstGaps DEF SortInv
<1> QED
  BY <1>6, <1>7, <1>8

\* In order but for a place that holds nothing above it: an item may go there.
LEMMA InsertKeeps ==
    ASSUME SortInv, Insert PROVE SortInv'
<1>1. /\ loop = "insert" /\ i < num /\ temp' = Item(i) /\ j' = i - k /\ loop' = "shift"
      /\ UNCHANGED <<key, array, sort, i, k>>
  BY DEF Insert
<1>2. k \in Gaps /\ k \in Nat /\ k <= i /\ i \in Int /\ Complete(array) /\ Len(array) \in Nat /\ Typed
  BY <1>1, FirstGaps DEF SortInv, Inserting, Typed
<1>3. num = Len(key) /\ i \in 0 .. num - 1 /\ i + 1 \in Items /\ num \in Nat
  BY <1>1, <1>2 DEF Typed, num, Items
<1>4. temp' = array[i + 1] /\ temp' \in Items /\ temp' \in Nat
  BY <1>1, <1>2, <1>3 DEF Item, Complete, Items
<1>5. Typed' /\ Items' = Items /\ num' = num
  BY <1>1, <1>2, <1>4 DEF Typed, Items, num
<1>6. Complete(Held)'
  <2>1. j' + k' = i
    BY <1>1, <1>2
  <2>2. Placed(i, temp') = array
    <3>1. /\ Placed(i, temp') \in Seq(Nat) /\ Len(Placed(i, temp')) = Len(array)
          /\ \A p \in Items : Placed(i, temp')[p] = IF p = i + 1 THEN temp' ELSE array[p]
      BY <1>2, <1>3, <1>4, PlacedIs
    <3>2. \A p \in 1 .. Len(array) : Placed(i, temp')[p] = array[p]
      BY <1>2, <1>4, <3>1 DEF Items, Typed
    <3> QED
      BY <1>2, <3>1, <3>2, SeqEqual DEF Typed
  <2>3. Held' = Placed(i, temp')
    BY <1>1, <2>1 DEF Held, Placed
  <2> QED
    BY <1>1, <1>2, <1>5, <2>2, <2>3 DEF Complete
<1>7. k = 0 => InOrder(num)' /\ j' = i /\ temp' = array[i + 1]
  BY <1>1, <1>2, <1>4, <1>5 DEF SortInv, InOrder
<1>8. ASSUME k = 1
      PROVE  /\ \A p, q \in Items : p < q /\ q <= i + 1 /\ p # j' + 2 /\ q # j' + 2
                                    => key[array[p]] <= key[array[q]]
             /\ \A q \in Items : j' + 2 < q /\ q <= i + 1 => key[temp'] <= key[array[q]]
  <2>1. j' + 2 = i + 1 /\ InOrder(i)
    BY <1>1, <1>2, <1>8 DEF SortInv
  <2>2. \A q \in Items : q \in Int
    BY DEF Items
  <2> QED
    BY <1>2, <2>1, <2>2 DEF InOrder
<1>9. Shifting'
  BY <1>1, <1>2, <1>3, <1>5, <1>6, <1>7, <1>8 DEF Shifting
<1> QED
  BY <1>1, <1>5, <1>9 DEF SortInv, Inserting

\* What a place holds while the one of the item in temp is free.
LEMMA HeldIs ==
    ASSUME SortInv, loop = "shift"
    PROVE  /\ k \in Nat /\ num = Len(key) /\ num \in Nat /\ j + k \in 0 .. num - 1 /\ Typed
           /\ Held \in Seq(Nat) /\ Len(Held) = Len(array)
           /\ \A p \in Items : Held[p] = IF p = j + k + 1 THEN temp ELSE array[p]
           /\ j + k + 1 \in Items /\ temp \in Items
           /\ \A p \in Items : p # j + k + 1 => array[p] \in Items
           /\ \A p \in Items : key[p] \in Int /\ p \in Int
<1>1. k \in Nat /\ Inserting /\ Shifting /\ Typed
  BY FirstGaps DEF SortInv, Inserting
<1>2. num = Len(key) /\ num \in Nat /\ j + k \in 0 .. num - 1 /\ j + k + 1 \in Items
  BY <1>1 DEF Typed, num, Items, Inserting, Shifting
<1>3. /\ Held \in Seq(Nat) /\ Len(Held) = Len(array)
      /\ \A p \in Items : Held[p] = IF p = j + k + 1 THEN temp ELSE array[p]
  BY <1>1, <1>2, PlacedIs DEF Held, Typed
<1>4. temp \in Items /\ \A p \in Items : p # j + k + 1 => array[p] \in Items
  BY <1>1, <1>2, <1>3 DEF Shifting, Complete
<1>5. \A p \in Items : key[p] \in Int /\ p \in Int
  BY <1>1 DEF Typed, Items
<1> QED
  BY <1>1, <1>2, <1>3, <1>4, <1>5

LEMMA ShiftKeeps ==
    ASSUME SortInv, Shift PROVE SortInv'
<1>1. /\ loop = "shift" /\ j >= 0 /\ key[Item(j)] > key[temp]
      /\ array' = Placed(j + k, Item(j)) /\ j' = j - k
      /\ UNCHANGED <<key, sort, loop, i, k, temp>>
  BY DEF Shift, GoesOn, Above
<1>2. /\ k \in Nat /\ num = Len(key) /\ num \in Nat /\ j + k \in 0 .. num - 1 /\ Typed
      /\ \A p \in Items : Held[p] = IF p = j + k + 1 THEN temp ELSE array[p]
      /\ j + k + 1 \in Items /\ temp \in Items /\ k \in Gaps /\ Complete(Held)
      /\ \A p \in Items : p # j + k + 1 => array[p] \in Items
      /\ \A p \in Items : key[p] \in Int /\ p \in Int
  BY <1>1, HeldIs DEF SortInv, Inserting, Shifting
<1>3. k # 0
  BY <1>1, <1>2 DEF SortInv, Shifting, Item
<1>4. j + 1 \in Items /\ j + 1 # j + k + 1 /\ Item(j) = array[j + 1] /\ array[j + 1] \in Items /\ j \in Int
  <2>1. j \in Int /\ j + 1 # j + k + 1 /\ j + 1 \in Items
    BY <1>1, <1>2, <1>3 DEF Typed, Items
  <2>2. Item(j) = array[j + 1] /\ array[j + 1] \in Items
    BY <1>2, <2>1 DEF Item
  <2> QED
    BY <2>1, <2>2
<1>5. /\ array' \in Seq(Nat) /\ Len(array') = Len(array)
      /\ \A p \in Items : array'[p] = IF p = j + k + 1 THEN array[j + 1] ELSE array[p]
  <2>1. array[j + 1] \in Nat
    BY <1>4 DEF Items
  <2>2. array' = Placed(j + k, array[j + 1])
    BY <1>1, <1>4
  <2> QED
    BY <1>2, <2>1, <2>2, PlacedIs
<1>6. Typed' /\ Items' = Items /\ num' = num
  BY <1>1, <1>2, <1>5 DEF Typed, Items, num
<1>7. Complete(Held)'
  <2>1. j' + k' = j /\ j \in 0 .. num' - 1
    BY <1>1, <1>2, <1>4, <1>6 DEF Items
  <2>2. \A p \in Items : (Held')[p] = IF p = j + 1 THEN temp ELSE array'[p]
    <3>1. Held' = [array' EXCEPT ![j + 1] = temp] /\ j + 1 \in 1 .. Len(array')
      BY <1>1, <1>4, <1>5, <1>6, <2>1 DEF Held, Placed, Typed, Items
    <3>2. temp \in Nat /\ Items = 1 .. Len(array')
      BY <1>2, <1>5 DEF Typed, Items
    <3>3. \A p \in 1 .. Len(array') : (Held')[p] = IF p = j + 1 THEN temp ELSE array'[p]
      BY <1>5, <3>1, <3>2, ExceptSeq
    <3> QED
      BY <3>2, <3>3
  <2>3. \A x \in Items : (Held')[x] = IF x = j + k + 1 THEN Held[j + 1]
                                      ELSE IF x = j + 1 THEN Held[j + k + 1] ELSE Held[x]
    BY <1>2, <1>4, <1>5, <2>2
  <2>4. Complete(Held')
    <3> HIDE DEF Held
    <3> DEFINE a == Held
               b == Held'
    <3>1. /\ Complete(a) /\ j + k + 1 \in Items /\ j + 1 \in Items
          /\ \A x \in Items : b[x] = IF x = j + k + 1 THEN a[j + 1] ELSE IF x = j + 1 THEN a[j + k + 1] ELSE a[x]
      BY <1>2, <1>4, <2>3
    <3> HIDE DEF a, b
    <3>2. Complete(b)
      BY <3>1, ExchangeIsComplete
    <3> QED
      BY <3>2 DEF b
  <2> QED
    BY <1>6, <2>4 DEF Complete
<1>8. ASSUME k = 1
      PROVE  /\ \A p, q \in Items : p < q /\ q <= i + 1 /\ p # j' + 2 /\ q # j' + 2
                                    => key[array'[p]] <= key[array'[q]]
             /\ \A q \in Items : j' + 2 < q /\ q <= i + 1 => key[temp] <= key[array'[q]]
  <2>1. j' + 2 = j + 1 /\ j + k + 1 = j + 2 /\ i \in Int
    BY <1>1, <1>2, <1>4, <1>8 DEF Typed
  <2>2. /\ \A p, q \in Items : p < q /\ q <= i + 1 /\ p # j + 2 /\ q # j + 2
                               => key[array[p]] <= key[array[q]]
        /\ \A q \in Items : j + 2 < q /\ q <= i + 1 => key[temp] <= key[array[q]]
    BY <1>1, <1>8 DEF SortInv, Shifting
  <2>5. \A p \in Items : array'[p] = IF p = j + 2 THEN array[j + 1] ELSE array[p]
    BY <1>5, <2>1
  <2>3. ASSUME NEW p \in Items, NEW q \in Items, p < q, q <= i + 1, p # j + 1, q # j + 1
        PROVE  key[array'[p]] <= key[array'[q]]
    <3>1. CASE p # j + 2 /\ q # j + 2
      BY <2>2, <2>3, <2>5, <3>1
    <3>2. CASE p = j + 2
      <4>1. key[array[j + 1]] <= key[array[q]]
        BY <1>2, <1>4, <2>2, <2>3, <3>2
      <4>2. array'[p] = array[j + 1] /\ array'[q] = array[q]
        BY <2>1, <2>3, <2>5, <3>2
      <4> QED
        BY <4>1, <4>2
    <3>3. CASE q = j + 2
      <4>1. p < j + 1 /\ j + 1 <= i + 1
        BY <1>2, <1>4, <2>1, <2>3, <3>3
      <4>2. key[array[p]] <= key[array[j + 1]]
        BY <1>4, <2>2, <4>1, <1>2
      <4>3. array'[q] = array[j + 1] /\ array'[p] = array[p]
        BY <1>2, <2>1, <2>3, <2>5, <3>3
      <4> QED
        BY <4>2, <4>3
    <3> QED
      BY <3>1, <3>2, <3>3
  <2>4. ASSUME NEW q \in Items, j + 1 < q, q <= i + 1 PROVE key[temp] <= key[array'[q]]
    <3>1. CASE q = j + 2
      <4>1. array'[q] = array[j + 1] /\ key[temp] \in Int /\ key[array[j + 1]] \in Int
        BY <1>2, <1>4, <2>5, <3>1
      <4> QED
        BY <1>1, <1>4, <4>1
    <3>2. CASE q # j + 2
      <4>1. array'[q] = array[q] /\ j + 2 < q
        BY <1>2, <1>4, <2>4, <2>5, <3>2
      <4> QED
        BY <2>2, <2>4, <4>1
    <3> QED
      BY <3>1, <3>2
  <2> QED
    BY <2>1, <2>3, <2>4
<1>9. i < num' /\ -k <= j' /\ j' <= i - k
  BY <1>1, <1>2, <1>4, <1>6 DEF SortInv, Shifting, Typed, Items
<1>10. Shifting'
  BY <1>1, <1>3, <1>6, <1>7, <1>8, <1>9 DEF Shifting
<1> QED
  BY <1>1, <1>6, <1>10 DEF SortInv, Inserting

LEMMA SettleKeeps ==
    ASSUME SortInv, Settle PROVE SortInv'
<1>1. /\ loop = "shift" /\ (j >= 0 => ~(key[Item(j)] > key[temp]))
      /\ array' = Held /\ i' = i + 1 /\ loop' = "insert"
      /\ UNCHANGED <<key, sort, j, k, temp>>
  BY DEF Settle, GoesOn, Above, Held
<1>2. /\ k \in Nat /\ num = Len(key) /\ num \in Nat /\ j + k \in 0 .. num - 1 /\ Typed
      /\ array' \in Seq(Nat) /\ Len(array') = Len(array)
      /\ \A p \in Items : array'[p] = IF p = j + k + 1 THEN temp ELSE array[p]
      /\ j + k + 1 \in Items /\ temp \in Items /\ Inserting /\ Shifting
      /\ \A p \in Items : p # j + k + 1 => array[p] \in Items
      /\ \A p \in Items : key[p] \in Int /\ p \in Int
  BY <1>1, HeldIs DEF SortInv
<1>3. Typed' /\ Items' = Items /\ num' = num
  BY <1>1, <1>2 DEF Typed, Items, num
<1>4. Complete(array)'
  BY <1>1, <1>2, <1>3 DEF Shifting, Complete
<1>5. Inserting'
  BY <1>1, <1>2 DEF Inserting, Typed
<1>6. ASSUME k = 0 PROVE InOrder(num)'
  <2>1. InOrder(num) /\ j = i /\ temp = array[i + 1]
    BY <1>2, <1>6 DEF Shifting
  <2>2. \A p \in Items : array'[p] = array[p]
    BY <1>2, <1>6, <2>1 DEF Typed
  <2> QED
    BY <1>1, <1>3, <2>1, <2>2 DEF InOrder
<1>7. ASSUME k = 1 PROVE InOrder(i)'
  <2>1. j + k + 1 = j + 2 /\ i' = i + 1 /\ i \in Int /\ j \in Int
    BY <1>1, <1>2, <1>7 DEF Typed
  <2>2. /\ \A p, q \in Items : p < q /\ q <= i + 1 /\ p # j + 2 /\ q # j + 2
                               => key[array[p]] <= key[array[q]]
        /\ \A q \in Items : j + 2 < q /\ q <= i + 1 => key[temp] <= key[array[q]]
    BY <1>2, <1>7 DEF Shifting
  <2>3. ASSUME NEW p \in Items, p < j + 2 PROVE key[array[p]] <= key[temp]
    <3>1. j >= 0 /\ j + 1 \in Items /\ p <= j + 1 /\ j + 1 # j + 2 /\ array[j + 1] \in Items
      BY <1>2, <2>1, <2>3 DEF Items
    <3>2. key[array[j + 1]] <= key[temp]
      <4>1. ~(key[array[j + 1]] > key[temp])
        BY <1>1, <3>1 DEF Item
      <4>2. key[array[j + 1]] \in Int /\ key[temp] \in Int
        BY <1>2, <3>1
      <4> QED
        BY <4>1, <4>2
    <3>3. p = j + 1 \/ key[array[p]] <= key[array[j + 1]]
      <4>1. CASE p = j + 1
        BY <4>1
      <4>2. CASE p # j + 1
        <5>1. p < j + 1 /\ j + 1 <= i + 1 /\ p # j + 2
          BY <1>2, <2>1, <2>3, <3>1, <4>2 DEF Shifting
        <5> QED
          BY <2>2, <3>1, <5>1
      <4> QED
        BY <4>1, <4>2
    <3>4. p # j + k + 1
      BY <1>2, <2>1, <2>3
    <3>5. key[array[p]] \in Int /\ key[temp] \in Int /\ key[array[j + 1]] \in Int
      BY <1>2, <3>1, <3>4
    <3> QED
      BY <3>2, <3>3, <3>5
  <2>5. \A p \in Items : array'[p] = IF p = j + 2 THEN temp ELSE array[p]
    BY <1>2, <2>1
  <2>4. ASSUME NEW p \in Items, NEW q \in Items, p < q, q <= i + 1
        PROVE  key[array'[p]] <= key[array'[q]]
    <3>1. CASE p # j + 2 /\ q # j + 2
      BY <2>2, <2>4, <2>5, <3>1
    <3>2. CASE p = j + 2
      <4>1. array'[p] = temp /\ array'[q] = array[q]
        BY <1>2, <2>4, <2>5, <3>2
      <4> QED
        BY <2>2, <2>4, <3>2, <4>1
    <3>3. CASE q = j + 2
      <4>1. array'[q] = temp /\ array'[p] = array[p]
        BY <1>2, <2>4, <2>5, <3>3
      <4> QED
        BY <2>3, <2>4, <3>3, <4>1
    <3> QED
      BY <3>1, <3>2, <3>3
  <2> QED
    BY <1>1, <1>3, <2>1, <2>4 DEF InOrder
<1> QED
  BY <1>1, <1>3, <1>4, <1>5, <1>6, <1>7 DEF SortInv

LEMMA PassesKeep ==
    ASSUME SortInv, Widen \/ Gap \/ Inserted PROVE SortInv'
<1>1. UNCHANGED <<key, array>> /\ Items' = Items /\ num' = num /\ num \in Nat /\ num = Len(key)
  BY DEF SortInv, Typed, Widen, Gap, Inserted, Items, num
<1>2. (Complete(array) => Complete(array)') /\ \A n : InOrder(n) <=> InOrder(n)'
  BY <1>1 DEF Complete, InOrder
<1>3. CASE Widen
  <2>1. k \in Gaps \ {0} /\ sort = "shell" /\ Typed /\ Complete(array) /\ i = 0
        /\ k \in Nat /\ 3 * k + 1 \in Gaps
    BY <1>3, FirstGaps DEF Widen, SortInv
  <2>2. CASE k < num
    <3>1. k' = 3 * k + 1 /\ loop' = "widen" /\ UNCHANGED <<key, array, sort, i, j, temp>>
      BY <1>3, <2>2 DEF Widen
    <3> QED
      BY <1>1, <1>2, <2>1, <3>1 DEF SortInv, Typed
  <2>3. CASE ~(k < num)
    <3>1. loop' = "gap" /\ UNCHANGED <<key, array, sort, i, j, k, temp>>
      BY <1>3, <2>3 DEF Widen
    <3>2. k <= 1 => InOrder(num)
      BY <1>1, <2>1, <2>3 DEF InOrder, Items
    <3> QED
      BY <1>1, <1>2, <2>1, <3>1, <3>2 DEF SortInv, Typed
  <2> QED
    BY <2>2, <2>3
<1>4. CASE Gap
  <2>1. k \in Gaps /\ k \in Nat /\ sort = "shell" /\ Typed /\ Complete(array) /\ (k <= 1 => InOrder(num))
    BY <1>4, FirstGaps DEF Gap, SortInv
  <2>2. CASE k > 0
    <3>1. k' = k \div 3 /\ i' = k' /\ loop' = "insert" /\ UNCHANGED <<key, array, sort, j, temp>>
      BY <1>4, <2>2 DEF Gap
    <3>2. k' \in Gaps /\ k' \in Nat /\ (k' = 0 => k = 1)
      BY <2>1, <2>2, <3>1, GapBefore, FirstGaps
    <3>3. k' = 0 => InOrder(num)'
      BY <1>1, <1>2, <2>1, <3>2
    <3>4. k' = 1 => InOrder(i)'
      <4>1. \A p \in Items : p \in Int /\ p >= 1
        BY DEF Items
      <4> QED
        BY <1>1, <3>1, <3>2, <4>1 DEF InOrder
    <3> QED
      BY <1>2, <2>1, <3>1, <3>2, <3>3, <3>4 DEF SortInv, Typed, Inserting
  <2>3. CASE ~(k > 0)
    <3>1. loop' = "sorted" /\ UNCHANGED <<key, array, sort, i, j, k, temp>>
      BY <1>4, <2>3 DEF Gap
    <3> QED
      BY <1>1, <1>2, <2>1, <2>3, <3>1 DEF SortInv, Typed
  <2> QED
    BY <2>2, <2>3
<1>5. CASE Inserted
  <2>1. /\ Inserting /\ i >= num /\ Typed /\ Complete(array) /\ k \in Nat
        /\ (k = 1 => InOrder(i)) /\ (k = 0 => InOrder(num))
        /\ loop' = (IF sort = "shell" THEN "gap" ELSE "sorted")
        /\ UNCHANGED <<key, array, sort, i, j, k, temp>>
    BY <1>5, FirstGaps DEF Inserted, SortInv, Inserting
  <2>2. k <= 1 => InOrder(num)
    <3>1. InOrder(i) => InOrder(num)
      BY <1>1, <2>1 DEF InOrder, Items, Typed
    <3> QED
      BY <2>1, <3>1
  <2> QED
    BY <1>1, <1>2, <2>1, <2>2 DEF SortInv, Typed, Inserting
<1> QED
  BY <1>3, <1>4, <1>5

\* The least item not yet in order is sought behind those that are.
LEMMA ScanKeeps ==
    ASSUME SortInv, Select \/ Scan \/ Selected PROVE SortInv'
<1>1. /\ UNCHANGED <<key, array, sort, i, temp>> /\ Items' = Items /\ num' = num /\ num \in Nat
      /\ num = Len(key) /\ Typed /\ Complete(array) /\ i \in Int /\ j \in Int /\ k \in Int /\ 0 <= i
      /\ LeastFirst(i)
  BY DEF SortInv, Typed, Select, Scan, Selected, Items, num
<1>2. Complete(array)' /\ \A n : (LeastFirst(n) <=> LeastFirst(n)') /\ (InOrder(n) <=> InOrder(n)')
  BY <1>1 DEF Complete, LeastFirst, InOrder
<1>3. \A p \in Items : array[p] \in Items /\ key[p] \in Int /\ p \in Int /\ 1 <= p /\ p <= num
  <2>1. \A p \in Items : p \in Int /\ 1 <= p /\ p <= num /\ key[p] \in Int
    BY <1>1 DEF Typed, Items
  <2> QED
    BY <1>1, <2>1 DEF Complete
<1>4. CASE Select
  <2>1. i < num - 1 /\ k' = i /\ j' = i + 1 /\ loop' = "scan"
    BY <1>4 DEF Select
  <2>2. ASSUME NEW q \in Items, i < q, q <= i + 1 PROVE key[array[i + 1]] <= key[array[q]]
    <3>1. q = i + 1 /\ key[array[q]] \in Int
      BY <1>1, <1>3, <2>2
    <3> QED
      BY <3>1
  <2> QED
    BY <1>1, <1>2, <2>1, <2>2 DEF SortInv, Typed
<1>5. CASE Scan
  <2>1. /\ loop = "scan" /\ loop' = "scan" /\ j < num /\ j' = j + 1
        /\ k' = (IF key[Item(k)] > key[Item(j)] THEN j ELSE k)
    BY <1>5 DEF Scan, Above
  <2>2. /\ i < num - 1 /\ i <= k /\ k < j /\ i < j
        /\ \A q \in Items : i < q /\ q <= j => key[array[k + 1]] <= key[array[q]]
    BY <2>1 DEF SortInv
  <2>3. k + 1 \in Items /\ j + 1 \in Items
    BY <1>1, <2>1, <2>2 DEF Items
  <2>4. key[array[k + 1]] \in Int /\ key[array[j + 1]] \in Int
    BY <1>3, <2>3
  <2>5. k' = (IF key[array[k + 1]] > key[array[j + 1]] THEN j ELSE k)
    BY <2>1 DEF Item
  <2>6. ASSUME NEW q \in Items, i < q, q <= j + 1 PROVE key[array[k' + 1]] <= key[array[q]]
    <3>1. key[array[q]] \in Int /\ key[array[k' + 1]] <= key[array[k + 1]] /\ key[array[k' + 1]] <= key[array[j + 1]]
          /\ key[array[k' + 1]] \in Int
      BY <1>3, <2>4, <2>5
    <3>2. CASE q = j + 1
      BY <3>1, <3>2
    <3>3. CASE q # j + 1
      <4>1. q <= j
        <5>1. q \in Int
          BY <1>3
        <5> QED
          BY <1>1, <2>6, <3>3, <5>1
      <4>2. key[array[k + 1]] <= key[array[q]]
        BY <2>2, <2>6, <4>1
      <4> QED
        BY <2>4, <3>1, <4>2
    <3> QED
      BY <3>2, <3>3
  <2>7. i <= k' /\ k' < j' /\ i < j' /\ j' <= num /\ k' \in Int /\ j' \in Int
    BY <1>1, <2>1, <2>2
  <2> QED
    BY <1>1, <1>2, <2>1, <2>2, <2>6, <2>7 DEF SortInv, Typed
<1>6. CASE Selected
  <2>1. i >= num - 1 /\ loop' = "sorted" /\ UNCHANGED <<j, k>>
    BY <1>6 DEF Selected
  <2>2. \A p, q \in Items : p < q => p <= i
    <3>1. \A p \in Items : p \in Int /\ p <= num
      BY <1>3
    <3> QED
      BY <1>1, <2>1, <3>1
  <2>3. InOrder(num)
    BY <1>1, <2>2 DEF InOrder, LeastFirst
  <2> QED
    BY <1>1, <1>2, <2>1, <2>3 DEF SortInv, Typed
<1> QED
  BY <1>4, <1>5, <1>6

LEMMA SwapKeeps ==
    ASSUME SortInv, Swap PROVE SortInv'
<1>1. /\ loop = "scan" /\ j >= num /\ array' = [Placed(i, Item(k)) EXCEPT ![k + 1] = Item(i)]
      /\ temp' = Item(i) /\ i' = i + 1 /\ loop' = "select" /\ UNCHANGED <<key, sort, j, k>>
  BY DEF Swap
<1>2. /\ Typed /\ Complete(array) /\ i \in Int /\ j \in Int /\ k \in Int /\ num \in Nat /\ num = Len(key)
      /\ 0 <= i /\ i < num - 1 /\ i <= k /\ k < j /\ j <= num
  BY <1>1 DEF SortInv, Typed, num
<1>3. /\ LeastFirst(i)
      /\ \A q \in Items : i < q /\ q <= j => key[array[k + 1]] <= key[array[q]]
  BY <1>1 DEF SortInv
<1>4. /\ i + 1 \in Items /\ k + 1 \in Items /\ i \in 0 .. num - 1
      /\ \A p \in Items : p \in Int /\ p <= j /\ array[p] \in Items
  BY <1>1, <1>2 DEF Items, Complete
<1>5. Item(i) = array[i + 1] /\ Item(k) = array[k + 1] /\ array[i + 1] \in Nat /\ array[k + 1] \in Nat
  <2>1. array[i + 1] \in Items /\ array[k + 1] \in Items
    BY <1>4
  <2> QED
    BY <2>1 DEF Item, Items
<1>6. /\ array' \in Seq(Nat) /\ Len(array') = Len(array)
      /\ \A p \in Items : array'[p] = IF p = k + 1 THEN array[i + 1] ELSE IF p = i + 1 THEN array[k + 1] ELSE array[p]
  <2> DEFINE first == Placed(i, array[k + 1])
  <2>1. /\ first \in Seq(Nat) /\ Len(first) = Len(array)
        /\ \A p \in Items : first[p] = IF p = i + 1 THEN array[k + 1] ELSE array[p]
    BY <1>2, <1>4, <1>5, PlacedIs
  <2>2. array' = [first EXCEPT ![k + 1] = array[i + 1]]
    BY <1>1, <1>5
  <2>3. Items = 1 .. Len(first)
    BY <1>2, <2>1 DEF Items, Typed
  <2> HIDE DEF first
  <2>4. /\ array' \in Seq(Nat) /\ Len(array') = Len(first)
        /\ \A p \in 1 .. Len(first) : array'[p] = IF p = k + 1 THEN array[i + 1] ELSE first[p]
    <3>1. k + 1 \in 1 .. Len(first)
      BY <1>4, <2>3
    <3> QED
      BY <1>5, <2>1, <2>2, <3>1, ExceptSeq
  <2> QED
    BY <2>1, <2>3, <2>4
<1>7. Typed' /\ Items' = Items /\ num' = num
  BY <1>1, <1>2, <1>5, <1>6 DEF Typed, Items, num
<1>8. Complete(array)'
  <2>1. Complete(array')
    BY <1>2, <1>4, <1>6, ExchangeIsComplete
  <2> QED
    BY <1>7, <2>1 DEF Complete
<1>9. ASSUME NEW p \in Items, NEW q \in Items, p <= i + 1, p < q PROVE key[array'[p]] <= key[array'[q]]
  <2>1. CASE p # i + 1
    <3>1. p <= i /\ p # k + 1 /\ p < i + 1 /\ p < k + 1
      <4>1. p \in Int
        BY <1>4
      <4> QED
        BY <1>2, <1>9, <2>1, <4>1
    <3>2. array'[p] = array[p]
      BY <1>6, <2>1, <3>1
    <3>3. PICK x \in Items : array'[q] = array[x] /\ p < x
      BY <1>4, <1>6, <1>9, <3>1
    <3>4. key[array[p]] <= key[array[x]]
      BY <1>3, <3>1, <3>3 DEF LeastFirst
    <3> QED
      BY <3>2, <3>3, <3>4
  <2>2. CASE p = i + 1
    <3>1. array'[p] = array[k + 1]
      BY <1>6, <2>2
    <3>2. q # i + 1 /\ i < q
      BY <1>2, <1>4, <1>9, <2>2
    <3>3. PICK x \in Items : array'[q] = array[x] /\ i < x
      <4>1. i < i + 1
        BY <1>2
      <4> QED
        BY <1>4, <1>6, <3>2, <4>1
    <3>4. key[array[k + 1]] <= key[array[x]]
      BY <1>3, <1>4, <3>3
    <3> QED
      BY <3>1, <3>3, <3>4
  <2> QED
    BY <2>1, <2>2
<1>10. LeastFirst(i)'
  BY <1>1, <1>7, <1>9 DEF LeastFirst
<1> QED
  BY <1>1, <1>2, <1>7, <1>8, <1>10 DEF SortInv

\* What is before the key sought comes first.
LEMMA BeforeComesFirst ==
    ASSUME Typed, Complete(array), InOrder(num), k \in Int,
           NEW m \in 0 .. num - 1, NEW n \in 0 .. num - 1, m <= n, Before(Item(n))
    PROVE  Before(Item(m))
<1>1. m + 1 \in Items /\ n + 1 \in Items /\ n + 1 <= num /\ (m = n \/ m + 1 < n + 1)
  BY DEF Typed, Items, num
<1>2. key[array[m + 1]] \in Int /\ key[array[n + 1]] \in Int
  <2>1. array[m + 1] \in Items /\ array[n + 1] \in Items
    BY <1>1 DEF Complete
  <2>2. \A p \in Items : key[p] \in Int
    BY DEF Items, Typed
  <2> QED
    BY <2>1, <2>2, Zenon
<1>3. key[array[m + 1]] <= key[array[n + 1]]
  <2>1. CASE m = n
    BY <1>2, <2>1
  <2>2. CASE m + 1 < n + 1
    BY <1>1, <2>2, Zenon DEF InOrder
  <2> QED
    BY <1>1, <2>1, <2>2
<1> QED
  BY <1>2, <1>3 DEF Before, Item

LEMMA SearchKeeps ==
    ASSUME SortInv,
           Halve \/ Found \/ \E name \in {"lower", "upper"}, sought \in SortKeys : SearchBegin(name, sought)
    PROVE  SortInv'
<1>1. /\ UNCHANGED <<key, array, temp>> /\ Items' = Items /\ num' = num /\ num \in Nat
      /\ Typed /\ Complete(array) /\ InOrder(num) /\ i \in Int /\ j \in Int /\ k \in Int /\ num = Len(key)
  BY DEF SortInv, Typed, Halve, Found, SearchBegin, Items, num
<1>2. Complete(array)' /\ InOrder(num)'
  BY <1>1 DEF Complete, InOrder
<1>3. ASSUME NEW name \in {"lower", "upper"}, NEW sought \in SortKeys, SearchBegin(name, sought)
      PROVE  SortInv'
  <2>1. sort' = name /\ i' = 0 /\ j' = num /\ k' = sought /\ sought \in Int /\ loop' = "search"
    BY <1>3, AlgorithmAssumption DEF SearchBegin
  <2>2. Halving'
    BY <1>1, <2>1 DEF Halving
  <2> QED
    BY <1>1, <1>2, <2>1, <2>2 DEF SortInv, Typed
<1>4. CASE Halve
  <2> DEFINE step == j \div 2
  <2>1. /\ loop = "search" /\ loop' = "search" /\ j > 0 /\ UNCHANGED <<sort, k>>
        /\ IF Before(Item(i + step)) THEN i' = i + step + 1 /\ j' = j - (step + 1) ELSE j' = step /\ i' = i
    BY <1>4 DEF Halve
  <2>2. /\ sort \in {"lower", "upper"} /\ 0 <= i /\ i + j <= num
        /\ \A n \in 0 .. num - 1 : (n < i => Before(Item(n))) /\ (n >= i + j => ~Before(Item(n)))
    BY <2>1 DEF SortInv, Halving
  <2>3. step \in Nat /\ step < j /\ i + step \in 0 .. num - 1
    BY <1>1, <2>1, <2>2
  <2>4. \A n \in 0 .. num - 1 : (Before(Item(n)))' <=> Before(Item(n))
    BY <1>1, <2>1 DEF Before, Item
  <2> HIDE DEF step
  <2>5. /\ 0 <= i' /\ 0 <= j' /\ i' + j' <= num /\ i' \in Int /\ j' \in Int
        /\ \A n \in 0 .. num - 1 : (n < i' => Before(Item(n))) /\ (n >= i' + j' => ~Before(Item(n)))
    <3>1. CASE Before(Item(i + step))
      <4>1. i' = i + step + 1 /\ j' = j - (step + 1) /\ i' + j' = i + j /\ i' \in Int /\ j' \in Int /\ 0 <= j' /\ 0 <= i'
        BY <1>1, <2>1, <2>2, <2>3, <3>1
      <4>2. ASSUME NEW n \in 0 .. num - 1, n < i' PROVE Before(Item(n))
        <5>1. n <= i + step
          BY <1>1, <2>3, <4>1, <4>2
        <5> QED
          BY <1>1, <2>3, <3>1, <5>1, BeforeComesFirst
      <4> QED
        BY <2>2, <4>1, <4>2
    <3>2. CASE ~Before(Item(i + step))
      <4>1. i' = i /\ j' = step
        BY <2>1, <3>2
      <4>2. ASSUME NEW n \in 0 .. num - 1, n >= i + step PROVE ~Before(Item(n))
        BY <1>1, <2>3, <3>2, <4>2, BeforeComesFirst
      <4>3. 0 <= i /\ 0 <= step /\ i + step <= num /\ step \in Int
        BY <1>1, <2>2, <2>3
      <4> QED
        BY <1>1, <2>2, <4>1, <4>2, <4>3
    <3> QED
      BY <3>1, <3>2
  <2>6. Halving'
    BY <1>1, <2>1, <2>2, <2>4, <2>5 DEF Halving
  <2> QED
    BY <1>1, <1>2, <2>1, <2>5, <2>6 DEF SortInv, Typed
<1>5. CASE Found
  <2>1. loop = "search" /\ j <= 0 /\ loop' = "found" /\ UNCHANGED <<sort, i, j, k>>
    BY <1>5 DEF Found
  <2>2. Halving /\ j = 0
    BY <1>1, <2>1 DEF SortInv, Halving
  <2>3. Halving'
    BY <1>1, <2>1, <2>2 DEF Halving, Before, Item
  <2> QED
    BY <1>1, <1>2, <2>1, <2>2, <2>3 DEF SortInv, Typed
<1> QED
  BY <1>3, <1>4, <1>5

LEMMA SortInvIsInvariant == AlgorithmSpec => []SortInv
<1>1. AlgorithmInit => SortInv
  BY DEF AlgorithmInit, SortInv, Typed
<1>2. ASSUME SortInv, [AlgorithmNext]_algorithmVars PROVE SortInv'
  <2>1. CASE UNCHANGED algorithmVars
    <3>1. UNCHANGED <<key, array, sort, loop, i, j, k, temp>>
      BY <2>1 DEF algorithmVars
    <3> QED
      BY <1>2, <3>1 DEF SortInv, Typed, Complete, Items, InOrder, num, Inserting, Shifting, Held, Placed,
                        LeastFirst, Halving, Before, Item
  <2>2. CASE AlgorithmNext
    BY <1>2, <2>2, BeginKeeps, PassesKeep, InsertKeeps, ShiftKeeps, SettleKeeps, ScanKeeps, SwapKeeps, SearchKeeps
       DEF AlgorithmNext
  <2> QED
    BY <1>2, <2>1, <2>2
<1> QED
  BY <1>1, <1>2, PTL DEF AlgorithmSpec

-----------------------------------------------------------------------------
\* Whatever the array, a sort of core/algorithm.h loses no item, repeats none and
\* leaves the keys in order, and a search in what it sorted ends where it should.
THEOREM SortsAndSearches == AlgorithmSpec => []SortedAndSplit
<1>1. ASSUME SortInv PROVE SortedAndSplit
  <2>1. Typed /\ num = Len(key) /\ num \in Nat /\ DOMAIN key = Items /\ 1 .. num = Items
    BY <1>1 DEF SortInv, Typed, num, Items
  <2>2. ASSUME loop \in {"sorted", "search", "found"}
        PROVE  /\ {array[n] : n \in 1 .. num} = DOMAIN key
               /\ \A m, n \in 1 .. num : m < n => key[array[m]] <= key[array[n]]
    <3>1. Complete(array) /\ InOrder(num)
      BY <1>1, <2>2 DEF SortInv
    <3>2. {array[n] : n \in 1 .. num} = DOMAIN key
      BY <2>1, <3>1 DEF Complete
    <3>3. \A n \in Items : n <= num
      BY <2>1
    <3> QED
      BY <2>1, <3>1, <3>2, <3>3 DEF InOrder
  <2>3. ASSUME loop = "found" PROVE \A n \in 0 .. num - 1 : n < i <=> Before(Item(n))
    <3>1. Halving /\ j = 0 /\ i \in Int
      BY <1>1, <2>3 DEF SortInv, Typed
    <3>2. \A n \in 0 .. num - 1 : n < i \/ n >= i + j
      BY <2>1, <3>1
    <3> QED
      BY <3>1, <3>2 DEF Halving
  <2> QED
    BY <2>2, <2>3 DEF SortedAndSplit
<1> QED
  BY <1>1, SortInvIsInvariant, PTL

=============================================================================
