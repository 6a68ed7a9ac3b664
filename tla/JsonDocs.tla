------------------------------ MODULE JsonDocs ------------------------------
(***************************************************************************)
(* util/json.c is given documents of the grammar that the comment of       *)
(* json_parse states, one character after the other.  A document is        *)
(* followed by a space, which ends a number that is the whole document.    *)
(*                                                                         *)
(* Or it is given any characters, and initialised again at any time.       *)
(***************************************************************************)
EXTENDS Json

CONSTANTS
    Levels,    \* bound: containers around a scalar
    Items      \* bound: items of a container

ASSUME LevelsAssumption == Levels \in 0..Depth /\ Items \in Nat

VARIABLES
    doc,   \* the document: its text, its tokens, and whether a space follows
           \* each of its numbers
    pos,   \* characters given to json_parse so far
    out    \* tokens returned for them, JSON_OK left out

docVars == <<doc, pos, out>>

Scalar(s, t) == [text |-> s, toks |-> <<t>>, spaced |-> TRUE]

Words   == {Scalar(<<"n", "u", "l", "l">>, "NULL"), Scalar(<<"t", "r", "u", "e">>, "BOOL"),
            Scalar(<<"f", "a", "l", "s", "e">>, "BOOL")}
Strings == {Scalar(<<Quote, "x", "]", Quote>>, "STRING")}
Numbers == {[text |-> <<".", "1">>, toks |-> <<"NUMBER">>, spaced |-> FALSE],
            Scalar(<<"+", "1", ".", "1", "e", "+", "1", " ">>, "NUMBER")}
Scalars == Words \cup Strings \cup Numbers

\* The parts ps one after the other, and sep between them.
Chain(ps, sep) ==
    LET upTo[i \in 0..Len(ps)] ==
            IF i = 0 THEN [text |-> <<>>, toks |-> <<>>, spaced |-> TRUE]
            ELSE LET l == upTo[i - 1]
                     s == IF i = 1 THEN <<>> ELSE sep
                 IN  [text |-> l.text \o s \o ps[i].text, toks |-> l.toks \o ps[i].toks,
                      spaced |-> l.spaced /\ ps[i].spaced]
    IN  upTo[Len(ps)]

UpTo(n, S) == UNION {[1..i -> S] : i \in 0..n}

Bracketed(open, begin, v, close, end) ==
    [text |-> <<open>> \o v.text \o <<close>>, toks |-> <<begin>> \o v.toks \o <<end>>,
     spaced |-> v.spaced]

\* A member of an object; name is a JSON-STRING.
Pair(name, v) ==
    [text |-> name.text \o <<":">> \o v.text,
     toks |-> <<"OBJECT_KEY">> \o name.toks \o <<"OBJECT_VALUE">> \o v.toks,
     spaced |-> v.spaced]

Arrays(inner) == {Bracketed("[", "ARRAY_BEGIN", Chain(l, <<",">>), "]", "ARRAY_END") : l \in UpTo(Items, inner)}
Pairs(inner) == {Pair(name, v) : name \in Strings, v \in inner}
Objects(inner) ==
    {Bracketed("{", "OBJECT_BEGIN", Chain(l, <<",">>), "}", "OBJECT_END") : l \in UpTo(Items, Pairs(inner))}

\* JSON-VALUE, with at most Levels containers around a scalar.
Values ==
    LET value[n \in 0..Levels] ==
            IF n = 0 THEN Scalars ELSE Scalars \cup Arrays(value[n - 1]) \cup Objects(value[n - 1])
    IN  value[Levels]

\* No document: any characters.
Anything == [text |-> <<>>, toks |-> <<>>, spaced |-> FALSE]

DocsInit == Init /\ doc \in Values \cup {Anything} /\ pos = 0 /\ out = <<>>

Give ==
    /\ doc # Anything /\ pos <= Len(doc.text)
    /\ Parse((doc.text \o <<" ">>)[pos + 1])
    /\ pos' = pos + 1
    /\ out' = IF tok' = "OK" THEN out ELSE Append(out, tok')
    /\ UNCHANGED doc

GiveAnything == doc = Anything /\ Next /\ UNCHANGED docVars

DocsSpec == DocsInit /\ [][Give \/ GiveAnything]_<<vars, docVars>>

-----------------------------------------------------------------------------
(* Properties *)

\* The tokens that are not in drop.
Without(toks, drop) ==
    LET kept[n \in 0..Len(toks)] ==
            IF n = 0 THEN <<>> ELSE IF toks[n] \in drop THEN kept[n - 1] ELSE Append(kept[n - 1], toks[n])
    IN  kept[Len(toks)]

NoEnds(toks) == Without(toks, {"ARRAY_END", "OBJECT_END", "DONE"})
NoDone(toks) == Without(toks, {"DONE"})

\* Every document of the grammar is accepted, and its tokens come in order; the
\* ends of containers are among them when a space follows each number.  It is not
\* taken for complete before its end (a number ends with the character behind it).
GrammarAccepted ==
    /\ pos < Len(doc.text) => jsn.final = "OK"
    /\ pos > Len(doc.text) =>
          /\ jsn.final = "DONE"
          /\ NoEnds(out) = NoEnds(doc.toks)
          /\ doc.spaced => NoDone(out) = doc.toks
=============================================================================
