-------------------------------- MODULE Json --------------------------------
(***************************************************************************)
(* util/json.c: the pull parser, a coroutine that is given one character   *)
(* at a time.  Its resume point is at; while a value inside an array or an *)
(* object is parsed, the point to resume the container at is on the stack. *)
(*                                                                         *)
(* A call parses one character, and json_parse calls itself with the same  *)
(* character when a container's item begins and when a number ends.        *)
(***************************************************************************)
EXTENDS Naturals, Sequences

CONSTANTS
    Depth,   \* slots of json.stack: 8 in the code
    Cap      \* capacity of the buffer given to json_setbuf

ASSUME DepthAssumption == Depth \in Nat
ASSUME CapAssumption   == Cap \in Nat

\* The characters json_parse tells apart: "1" is any digit, "+" any sign, "e" also
\* "E", " " any white space, "x" any other character; the quote is "'".
Quote == "'"
Chars == {"n", "u", "l", "t", "r", "e", "f", "a", "s", Quote, "[", "]", "{", "}",
          ",", ":", "+", ".", "1", " ", "x"}

VARIABLES
    jsn,    \* where it is: at (and rest of a literal), stack, final
    text,   \* the contents of json.buffer: "c" for a character, "0" for a zero byte
    tok,    \* what json_parse returned last
    chars   \* history: characters of the token whose text is in the buffer, up to Cap

vars == <<jsn, text, tok, chars>>

\* What remains of null, true and false after the first character.
Rest == [n |-> <<"u", "l", "l">>, t |-> <<"r", "u", "e">>, f |-> <<"a", "l", "s", "e">>]

\* Faulty variant: an exponent has no sign.
NumberStepsUnsigned ==
    {<<"int", "1", "int">>, <<"int", ".", "frac">>,
     <<"frac", "1", "frac">>, <<"frac", "e", "exp">>, <<"exp", "1", "exp">>}

\* The characters of a number from each of its points on, and the point after.
NumberSteps ==
    {<<"int", "1", "int">>, <<"int", ".", "frac">>,
     <<"frac", "1", "frac">>, <<"frac", "e", "esign">>,
     <<"esign", "+", "exp">>, <<"esign", "1", "exp">>, <<"exp", "1", "exp">>}

InNumber == {"int", "frac", "esign", "exp"}
InArray  == {"array", "item", "comma"}
InObject == {"object", "member", "ocomma", "okey", "colon", "value"}
Points   == {"start", "literal", "string"} \cup InNumber \cup InArray \cup InObject

Lesser(a, b) == IF a < b THEN a ELSE b

Closing(at) == IF at \in InArray THEN "]" ELSE "}"
EndOf(at)   == IF at \in InArray THEN "ARRAY_END" ELSE "OBJECT_END"

-----------------------------------------------------------------------------
(* json_stack_push, json_stack_pop and the buffer *)

\* The container resumes at point; what follows is parsed from the start.
Push(j, point) ==
    IF Len(j.stack) < Depth
    THEN [j EXCEPT !.stack = Append(@, point), !.at = "start"]
    ELSE [j EXCEPT !.at = point, !.final = "ERROR"]

\* Faulty variant: the container's point is read but stays on the stack.
PopKeeps(j) ==
    IF j.stack # <<>> THEN [j EXCEPT !.at = j.stack[Len(j.stack)]]
                      ELSE [j EXCEPT !.final = "DONE"]

\* A value is complete: back to its container, or the document is.
Pop(j) ==
    IF j.stack # <<>>
    THEN [j EXCEPT !.at = j.stack[Len(j.stack)], !.stack = SubSeq(@, 1, Len(@) - 1)]
    ELSE [j EXCEPT !.final = "DONE"]

\* buffer_putc and buffer_putsz: what does not fit is dropped.
Put(s, bytes) == SubSeq(s \o bytes, 1, Lesser(Len(s \o bytes), Cap))

-----------------------------------------------------------------------------
(* json_parse *)

\* Outcomes of a call.
Yields(point, t) == jsn' = [jsn EXCEPT !.at = point] /\ tok' = t
Errs == jsn' = [jsn EXCEPT !.final = "ERROR"] /\ tok' = "ERROR"

Fresh == [at |-> "start", rest |-> <<>>, stack |-> <<>>, final |-> "OK"]

Init ==
    /\ jsn = Fresh
    /\ text = <<>> /\ tok = "OK" /\ chars = 0

Final ==
    /\ jsn.final # "OK"
    /\ tok' = jsn.final
    /\ UNCHANGED <<jsn, text, chars>>

Running(points) == jsn.final = "OK" /\ jsn.at \in points

\* SKIPSPACE.  After a comma in an object the loop's own SKIPSPACE is the one
\* that sees the space.
SkipSpace ==
    /\ Running({"start", "array", "item", "object", "member", "colon", "ocomma", "okey"})
    /\ Yields(IF jsn.at = "ocomma" THEN "okey" ELSE jsn.at, "OK")
    /\ UNCHANGED <<text, chars>>

\* The first character of a value, given to the coroutine j at its start.
Value(j, ch) ==
    \/ /\ ch = " " /\ jsn' = j
       /\ tok' = "OK" /\ UNCHANGED <<text, chars>>
    \/ /\ ch \in DOMAIN Rest
       /\ jsn' = [j EXCEPT !.at = "literal", !.rest = Rest[ch]]
       /\ tok' = "OK" /\ UNCHANGED <<text, chars>>
    \/ /\ ch = Quote
       /\ jsn' = [j EXCEPT !.at = "string"]
       /\ tok' = "OK" /\ text' = <<>> /\ chars' = 0
    \/ /\ ch \in {"[", "{"}
       /\ jsn' = [j EXCEPT !.at = IF ch = "[" THEN "array" ELSE "object"]
       /\ tok' = (IF ch = "[" THEN "ARRAY_BEGIN" ELSE "OBJECT_BEGIN")
       /\ UNCHANGED <<text, chars>>
    \/ /\ ch \in {"+", "1", "."}
       /\ jsn' = [j EXCEPT !.at = IF ch = "." THEN "frac" ELSE "int"]
       /\ tok' = "OK" /\ text' = Put(<<>>, <<"c">>) /\ chars' = Lesser(1, Cap)
    \/ /\ ch \notin DOMAIN Rest \cup {" ", Quote, "[", "{", "+", "1", "."}
       /\ jsn' = [j EXCEPT !.final = "ERROR"]
       /\ tok' = "ERROR" /\ UNCHANGED <<text, chars>>

\* json_parse right after json_stack_push, which may have failed.
Nested(j, ch) ==
    \/ j.final = "OK" /\ Value(j, ch)
    \/ j.final = "ERROR" /\ jsn' = j /\ tok' = "ERROR" /\ UNCHANGED <<text, chars>>

Start(ch) == Running({"start"}) /\ ch # " " /\ Value(jsn, ch)

\* null leaves the buffer alone, true and false put "1" and "0" there.
Literal(ch) ==
    /\ Running({"literal"})
    /\ \/ /\ ch = jsn.rest[1] /\ Len(jsn.rest) > 1
          /\ jsn' = [jsn EXCEPT !.rest = Tail(@)]
          /\ tok' = "OK" /\ UNCHANGED <<text, chars>>
       \/ /\ ch = jsn.rest[1] /\ Len(jsn.rest) = 1
          /\ jsn' = Pop([jsn EXCEPT !.rest = <<>>])
          /\ \/ ch = "l" /\ tok' = "NULL" /\ UNCHANGED <<text, chars>>
             \/ ch = "e" /\ tok' = "BOOL" /\ text' = Put(<<>>, <<"c", "0">>) /\ chars' = Lesser(1, Cap)
       \/ ch # jsn.rest[1] /\ Errs /\ UNCHANGED <<text, chars>>

\* Faulty variant: the zero byte is forgotten.
StringEndOpen ==
    /\ Running({"string"})
    /\ jsn' = Pop(jsn) /\ tok' = "STRING"
    /\ UNCHANGED <<text, chars>>

StringEnd ==
    /\ Running({"string"})
    /\ jsn' = Pop(jsn) /\ tok' = "STRING"
    /\ text' = Put(text, <<"0">>) /\ UNCHANGED chars

\* ACCEPT: any character but the quote.
Accept(point) ==
    /\ Yields(point, "OK")
    /\ text' = Put(text, <<"c">>) /\ chars' = Lesser(chars + 1, Cap)

StringChar(ch) == Running({"string"}) /\ ch # Quote /\ Accept("string")

NumberChar(ch) ==
    /\ Running(InNumber)
    /\ \E s \in NumberSteps : s[1] = jsn.at /\ s[2] = ch /\ Accept(s[3])

\* What the container j, whose item is complete, does with ch: the comma, its
\* end, or an error.
Resumed(j, ch) ==
    IF ch = " " THEN j
    ELSE IF ch = "," THEN [j EXCEPT !.at = IF j.at = "item" THEN "comma" ELSE "ocomma"]
    ELSE IF ch = Closing(j.at) THEN Pop(j)
    ELSE [j EXCEPT !.final = "ERROR"]

\* The first character behind a number is given to its container; what that call
\* returns is dropped.
NumberEnd(ch) ==
    /\ Running(InNumber)
    /\ \A s \in NumberSteps : ~(s[1] = jsn.at /\ s[2] = ch)
    /\ jsn' = LET j == Pop(jsn) IN IF j.final = "OK" THEN Resumed(j, ch) ELSE j
    /\ tok' = "NUMBER"
    /\ text' = Put(text, <<"0">>) /\ UNCHANGED chars

\* In a container, after an item.
Comma ==
    /\ Running({"item", "member"})
    /\ jsn' = Resumed(jsn, ",") /\ tok' = "OK"
    /\ UNCHANGED <<text, chars>>

\* After the opening bracket, an item, or a comma.
End(ch) ==
    /\ Running({"array", "item", "comma", "object", "member", "ocomma"})
    /\ ch = Closing(jsn.at)
    /\ jsn' = Pop(jsn) /\ tok' = EndOf(jsn.at)
    /\ UNCHANGED <<text, chars>>

Item(ch) ==
    /\ \/ Running({"array"}) /\ ch \notin {" ", "]"}
       \/ Running({"comma"}) /\ ch # "]"
    /\ Nested(Push(jsn, "item"), ch)

\* OBJECT_KEY is returned even if the push failed.
Key ==
    /\ Running({"object", "ocomma", "okey"})
    /\ LET j == Push(jsn, "colon")
       IN  IF j.final = "OK"
           THEN jsn' = [j EXCEPT !.at = "string"] /\ text' = <<>> /\ chars' = 0
           ELSE jsn' = j /\ UNCHANGED <<text, chars>>
    /\ tok' = "OBJECT_KEY"

Colon == Running({"colon"}) /\ Yields("value", "OBJECT_VALUE") /\ UNCHANGED <<text, chars>>

Member(ch) == Running({"value"}) /\ Nested(Push(jsn, "member"), ch)

\* The failing EXPECTs of arrays and objects.
Unexpected(ch) ==
    /\ \/ Running({"item", "member"}) /\ ch \notin {" ", ",", Closing(jsn.at)}
       \/ Running({"object", "ocomma"}) /\ ch \notin {" ", Quote, "}"}
       \/ Running({"okey"}) /\ ch \notin {" ", Quote}
       \/ Running({"colon"}) /\ ch \notin {" ", ":"}
    /\ Errs /\ UNCHANGED <<text, chars>>

\* json_parse(ch).
Parse(ch) ==
    \/ Final
    \/ ch = " " /\ SkipSpace
    \/ ch = "," /\ Comma
    \/ ch = ":" /\ Colon
    \/ ch = Quote /\ (StringEnd \/ Key)
    \/ Start(ch) \/ Literal(ch) \/ StringChar(ch) \/ NumberChar(ch) \/ NumberEnd(ch)
    \/ End(ch) \/ Item(ch) \/ Member(ch) \/ Unexpected(ch)

\* json_init, for the next document; the buffer keeps what it holds.
Reinit == jsn' = Fresh /\ tok' = "OK" /\ UNCHANGED <<text, chars>>

Next == Reinit \/ \E ch \in Chars : Parse(ch)

Spec == Init /\ [][Next]_vars

-----------------------------------------------------------------------------
(* Properties *)

TypeOK ==
    /\ jsn.at \in Points /\ jsn.stack \in Seq({"item", "colon", "member"})
    /\ jsn.final \in {"OK", "DONE", "ERROR"} /\ Len(jsn.stack) <= Depth
    /\ text \in Seq({"c", "0"}) /\ Len(text) <= Cap
    /\ chars \in 0..Cap

\* The text handed out with a token is that token's, whole and with its zero byte,
\* as long as it fits the buffer: nothing of an earlier token is left in it.
TextIsWhole ==
    tok \in {"STRING", "NUMBER", "BOOL"} /\ chars < Cap =>
        text = [i \in 1..chars + 1 |-> IF i <= chars THEN "c" ELSE "0"]

\* The open containers: those on the stack and the one at hand.
Kind(point) == IF point \in InArray THEN "array" ELSE "object"
Nest ==
    LET outer == [i \in DOMAIN jsn.stack |-> Kind(jsn.stack[i])]
    IN  IF jsn.at \in InArray \cup InObject /\ jsn.final # "DONE"
        THEN Append(outer, Kind(jsn.at)) ELSE outer

Want ==
    CASE jsn.final = "ERROR" -> "error"
      [] jsn.final = "DONE"  -> "done"
      [] jsn.final = "OK" /\ jsn.at \in {"object", "member", "ocomma", "okey"} -> "key"
      [] jsn.final = "OK" /\ jsn.at = "colon" -> "colon"
      [] jsn.final = "OK" /\ jsn.at = "string" /\ jsn.stack # <<>>
           /\ jsn.stack[Len(jsn.stack)] = "colon" -> "name"
      [] OTHER -> "value"

Tokens == INSTANCE JsonTokens WITH nest <- Nest, want <- Want

\* However the characters come, the tokens nest: the coroutine's stack, moved by
\* the recursive calls in the middle of a yield, never gets out of step.
TokensNest == Tokens!Spec

\* The end of every container that was opened is returned, as UJSON_OBJ_ITER_END
\* and UJSON_ARRAY_ITER_END check: a token that closes one is its end.
EndIsReported ==
    [][tok' # "OK" /\ jsn'.final # "ERROR" /\ Len(Nest') < Len(Nest)
         => tok' \in {"ARRAY_END", "OBJECT_END"}]_vars
=============================================================================
