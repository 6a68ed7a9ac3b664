----------------------------- MODULE MCConsole -----------------------------
(***************************************************************************)
(* What the program does with texts: the terminal, the command line it     *)
(* reads, the uris, numbers and addresses in it, and the sorts of core/.   *)
(* They share nothing, so that a behaviour uses one of them.               *)
(***************************************************************************)
EXTENDS Repl, Terminal, Algorithm, Text, FiniteSets

ConsoleInit == Init /\ TerminalInit /\ AlgorithmInit /\ TextInit

ConsoleNext ==
    \/ /\ TerminalInit /\ AlgorithmInit /\ TextInit
       /\ Next /\ UNCHANGED <<terminalVars, algorithmVars, textVars>>
    \/ /\ Init /\ AlgorithmInit /\ TextInit
       /\ TerminalNext /\ UNCHANGED <<vars, algorithmVars, textVars>>
    \/ /\ Init /\ TerminalInit /\ TextInit
       /\ AlgorithmNext /\ UNCHANGED <<vars, terminalVars, textVars>>
    \/ /\ Init /\ TerminalInit /\ AlgorithmInit
       /\ TextNext /\ UNCHANGED <<vars, terminalVars, algorithmVars>>

consoleVars == <<vars, terminalVars, algorithmVars, textVars>>

\* The fairness of TerminalSpec, the only one of the four that has any.
ConsoleSpec ==
    /\ ConsoleInit /\ [][ConsoleNext]_consoleVars
    /\ WF_consoleVars(/\ Full \/ ReadNothing \/ Skip \/ Raw \/ Edit \/ EndOfLine
                      /\ UNCHANGED <<vars, algorithmVars, textVars>>)

-----------------------------------------------------------------------------
\* Lines for the repl: all short ones, well formed or not; long ones of more words
\* than there are slots; and those that spell up to three words, each quoted or
\* escaped.  Four slots hold three words and a rest.
Blank   == " "
Solidus == "\\"
Marks   == {"'", "\""}

Alphabet == {"a", "/"} \cup QuoteMarks \cup {Space, Escape}
AnyLine  == [line : BoundedSeq(Alphabet, 4), prefix : {<<>>, <<"/">>}, words : {NoWords}]
LongLine == [line : BoundedSeq({"a", Space}, 9), prefix : {<<>>}, words : {NoWords}]

Word == BoundedSeq({"a", Space, Escape} \cup QuoteMarks, 1) \cup {<<"a", Space>>, <<"a", "a">>}

SpelledLines(texts) ==
    {[line |-> <<"/">> \o Words(texts, marks, Len(texts)), prefix |-> <<"/">>, words |-> texts]
     : marks \in MarksFor(texts)}

CommandLines == AnyLine \cup LongLine \cup UNION {SpelledLines(texts) : texts \in BoundedSeq(Word, 3)}

-----------------------------------------------------------------------------
\* The characters that mean something, one that does not, and the digits.
TextChars == {"+", "-", ".", "E", ":", "/", "?", "#", "@", "[", "]", NUL} \cup {d[1] : d \in Digits(16)}

\* Uris: all short texts of the characters that matter and one that does not, and
\* those written from parts, each with and without login, brackets, port, query and
\* fragment.  Where there is no scheme and no authority a path has no colon.
UriTexts == BoundedSeq({"a", ":", "/", "?", "#", "@", "[", NUL}, 5)

Login(text, user, pass) == [written |-> text, user |-> user, pass |-> pass]
Logins == {Login(<<>>, <<>>, <<>>), Login(<<"a", "@">>, <<"a">>, <<>>),
           Login(<<"a", ":", "b", ":", "@">>, <<"a">>, <<"b", ":">>)}

Host(text, host) == [written |-> text, host |-> host]
Hosts == {Host(<<>>, <<>>), Host(<<"a">>, <<"a">>), Host(<<"[", "a", ":", "1", "]">>, <<"a", ":", "1">>)}

Port(text, port) == [written |-> text, port |-> port]
Ports == {Port(<<>>, -1), Port(<<":">>, -1), Port(<<":", "9">>, 9), Port(<<":", "1", "0">>, 10)}

Authorities ==
    {[authority |-> <<l.written \o h.written \o p.written>>,
      user |-> l.user, pass |-> l.pass, host |-> h.host, port |-> p.port]
     : l \in Logins, h \in Hosts, p \in Ports}

Maybe(text) == {<<>>, <<text>>}
Endings == [query : Maybe(<<>>) \cup Maybe(<<"?", "/", ":">>), fragment : Maybe(<<"#", "?">>)]

Compose(authority, schemes, paths) ==
    {[scheme |-> s, path |-> p] @@ e @@ authority @@ NoUri : s \in schemes, p \in paths, e \in Endings}

UriParts ==
    UNION {Compose(a, Maybe(<<"a">>), {<<"/">>, <<"/", "@", ":">>}) : a \in Authorities}
    \cup UNION {{u \in Compose(a, Maybe(<<"a">>), {<<>>}) : u.query = <<>> /\ u.fragment = <<>>} : a \in Authorities}
    \cup Compose(NoUri, {<<<<"a">>>>}, {<<>>, <<"a", ":", "a">>, <<"/", "a", ":">>})
    \cup Compose(NoUri, {<<>>}, {<<>>, <<"a", "@", "a">>, <<"/", "a", ":">>})

\* Numbers of up to four digits, beyond a byte and beyond a u64, and addresses and
\* bytes at the ends of their ranges.
NumberTexts ==
    {sign \o digits : sign \in {<<>>, <<"-">>, <<"+">>}, digits \in BoundedSeq({"0", "1", "9", "a", "F"}, 4)}
DecimalParts ==
    [whole : {<<"7">>, <<"1", "2">>, <<"-", "7">>, <<"+", "0">>}, fraction : {<<>>, <<"5">>, <<"0", "5">>, <<"0">>},
     exponent : {<<>>, <<"2">>, <<"-", "1">>}]
Dots     == [1 .. 4 -> {0, 19, 255}]
Octets   == {{}, {0}, {7}, 0 .. 7}
Sequels  == BoundedSeq(Octets, 3)
=============================================================================
