----------------------------- MODULE JsonProofs -----------------------------
(***************************************************************************)
(* util/json.c, given any characters and initialised again at any time:    *)
(* its tokens nest and their texts are whole, for a stack and a buffer of  *)
(* any size.  Given a document of the grammar, of any items and with no    *)
(* more containers around a scalar than the stack holds, it accepts it.    *)
(*                                                                         *)
(* The last is shown from the end of a document backwards: Good(j, rest,   *)
(* more, spaced) says that from the coroutine j on the text rest is        *)
(* accepted with the tokens more, and a value v leads from the point where *)
(* it starts to the point behind it when v in front of a good text makes   *)
(* a good text again.                                                      *)
(***************************************************************************)
EXTENDS JsonDocs, WellFoundedInduction, SequenceTheorems, TLAPS

-----------------------------------------------------------------------------
(* Coroutines with their stack *)

Held == {"item", "colon", "member"}
Coroutines == [at : Points, rest : Seq(Chars), stack : Seq(Held), final : {"OK", "DONE", "ERROR"}]

KindsOf(stack) == [n \in DOMAIN stack |-> Kind(stack[n])]
InContainer(j) == j.at \in InArray \cup InObject /\ j.final # "DONE"
NestOf(j) == IF InContainer(j) THEN Append(KindsOf(j.stack), Kind(j.at)) ELSE KindsOf(j.stack)
WantOf(j) ==
    CASE j.final = "ERROR" -> "error"
      [] j.final = "DONE"  -> "done"
      [] j.final = "OK" /\ j.at \in {"object", "member", "ocomma", "okey"} -> "key"
      [] j.final = "OK" /\ j.at = "colon" -> "colon"
      [] j.final = "OK" /\ j.at = "string" /\ j.stack # <<>> /\ j.stack[Len(j.stack)] = "colon" -> "name"
      [] OTHER -> "value"

LEMMA NestAndWant ==
    /\ Nest = NestOf(jsn) /\ Want = WantOf(jsn)
    /\ Nest' = NestOf(jsn') /\ Want' = WantOf(jsn')
BY DEF Nest, Want, NestOf, WantOf, KindsOf, InContainer

\* A name is parsed on top of the "colon" of its object, every other value on top
\* of containers that wait for one.
AllValues(stack) == \A n \in 1 .. Len(stack) : stack[n] \in {"item", "member"}
Sound(j) ==
    /\ j \in Coroutines /\ Len(j.stack) <= Depth
    /\ \A n \in 1 .. Len(j.stack) : j.stack[n] = "colon" => n = Len(j.stack) /\ j.at = "string"

LEMMA KindsAre ==
    ASSUME NEW s \in Seq(Held)
    PROVE  /\ KindsOf(s) \in Seq({"array", "object"}) /\ Len(KindsOf(s)) = Len(s)
           /\ \A n \in 1 .. Len(s) : KindsOf(s)[n] = Kind(s[n])
           /\ s = <<>> <=> KindsOf(s) = <<>>
<1>1. \A p : Kind(p) \in {"array", "object"}
  BY DEF Kind
<1>2. Len(s) \in Nat /\ DOMAIN s = 1 .. Len(s)
  OBVIOUS
<1>3. KindsOf(s) = [n \in 1 .. Len(s) |-> Kind(s[n])]
  BY <1>2 DEF KindsOf
<1>4. KindsOf(s) \in [1 .. Len(s) -> {"array", "object"}]
  BY <1>1, <1>3
<1>5. KindsOf(s) \in Seq({"array", "object"}) /\ Len(KindsOf(s)) = Len(s)
  BY <1>2, <1>4
<1> QED
  BY <1>3, <1>5, EmptySeq

\* Pushing a container on the stack and entering it leave the same nest.
LEMMA KindsOfMore ==
    ASSUME NEW s \in Seq(Held), NEW p \in Held
    PROVE  KindsOf(Append(s, p)) = Append(KindsOf(s), Kind(p))
<1>1. Append(s, p) \in Seq(Held) /\ Len(Append(s, p)) = Len(s) + 1
  OBVIOUS
<1>2. Len(s) \in Nat /\ KindsOf(s) \in Seq({"array", "object"}) /\ Len(KindsOf(s)) = Len(s) /\ Kind(p) \in {"array", "object"}
  BY KindsAre DEF Kind
<1>3. /\ Append(KindsOf(s), Kind(p)) \in Seq({"array", "object"})
      /\ Len(Append(KindsOf(s), Kind(p))) = Len(s) + 1
  BY <1>2
<1>4. /\ KindsOf(Append(s, p)) \in Seq({"array", "object"}) /\ Len(KindsOf(Append(s, p))) = Len(s) + 1
      /\ \A n \in 1 .. Len(s) + 1 : KindsOf(Append(s, p))[n] = Kind(Append(s, p)[n])
  BY <1>1, KindsAre
<1>5. ASSUME NEW n \in 1 .. Len(s) + 1 PROVE KindsOf(Append(s, p))[n] = Append(KindsOf(s), Kind(p))[n]
  <2>1. CASE n \in 1 .. Len(s)
    <3>1. Append(s, p)[n] = s[n] /\ Append(KindsOf(s), Kind(p))[n] = KindsOf(s)[n]
      BY <1>2, <2>1
    <3> QED
      BY <1>4, <2>1, <3>1, KindsAre
  <2>2. CASE n = Len(s) + 1
    <3>1. Append(s, p)[n] = p /\ Append(KindsOf(s), Kind(p))[n] = Kind(p)
      BY <1>2, <2>2
    <3> QED
      BY <1>4, <3>1
  <2> QED
    BY <1>2, <2>1, <2>2
<1> QED
  BY <1>3, <1>4, <1>5, SeqEqual

\* What json_stack_pop takes off.
LEMMA KindsOfFront ==
    ASSUME NEW s \in Seq(Held), s # <<>>
    PROVE  /\ SubSeq(s, 1, Len(s) - 1) \in Seq(Held) /\ Len(SubSeq(s, 1, Len(s) - 1)) = Len(s) - 1
           /\ \A n \in 1 .. Len(s) - 1 : SubSeq(s, 1, Len(s) - 1)[n] = s[n]
           /\ s[Len(s)] \in Held /\ Len(s) \in Nat \ {0}
           /\ Append(KindsOf(SubSeq(s, 1, Len(s) - 1)), Kind(s[Len(s)])) = KindsOf(s)
<1>0. Len(s) \in Nat \ {0}
  BY EmptySeq
<1>1. Len(s) \in Nat \ {0} /\ s[Len(s)] \in Held
  BY <1>0
<1> DEFINE front == SubSeq(s, 1, Len(s) - 1)
<1>2. /\ front \in Seq(Held) /\ Len(front) = Len(s) - 1
      /\ \A n \in 1 .. Len(s) - 1 : front[n] = s[n]
  <2>1. 1 \in Int /\ Len(s) - 1 \in Int /\ \A n \in 1 .. Len(s) - 1 : s[n] \in Held
    BY <1>1
  <2>2. /\ front \in Seq(Held) /\ Len(front) = IF 1 <= Len(s) - 1 THEN (Len(s) - 1) - 1 + 1 ELSE 0
        /\ \A n \in 1 .. (Len(s) - 1) - 1 + 1 : front[n] = s[1 + n - 1]
    BY <2>1, SubSeqProperties
  <2> HIDE DEF front
  <2>3. Len(front) = Len(s) - 1
    <3>1. 1 <= Len(s) - 1 \/ Len(s) = 1
      <4>1. \A n \in Nat \ {0} : 1 <= n - 1 \/ n = 1
        OBVIOUS
      <4> QED
        BY <1>0, <4>1, Zenon
    <3>2. CASE 1 <= Len(s) - 1
      BY <1>1, <2>2, <3>2
    <3>3. CASE Len(s) = 1
      BY <2>2, <3>3
    <3> QED
      BY <3>1, <3>2, <3>3
  <2>4. ASSUME NEW n \in 1 .. Len(s) - 1 PROVE front[n] = s[n]
    <3>1. n \in 1 .. (Len(s) - 1) - 1 + 1 /\ 1 + n - 1 = n
      BY <1>1
    <3>2. front[n] = s[1 + n - 1]
      BY <2>2, <3>1
    <3> QED
      BY <3>1, <3>2
  <2> QED
    BY <2>2, <2>3, <2>4
<1>3. s = Append(front, s[Len(s)])
  <2> HIDE DEF front
  <2>1. Append(front, s[Len(s)]) \in Seq(Held) /\ Len(Append(front, s[Len(s)])) = Len(s)
    BY <1>1, <1>2
  <2>2. ASSUME NEW n \in 1 .. Len(s) PROVE s[n] = Append(front, s[Len(s)])[n]
    <3>1. CASE n \in 1 .. Len(front)
      <4>1. Append(front, s[Len(s)])[n] = front[n]
        BY <1>1, <1>2, <3>1
      <4> QED
        BY <1>1, <1>2, <3>1, <4>1
    <3>2. CASE n = Len(front) + 1
      <4>1. Append(front, s[Len(s)])[n] = s[Len(s)] /\ n = Len(s)
        BY <1>1, <1>2, <3>2
      <4> QED
        BY <4>1
    <3> QED
      BY <1>1, <1>2, <3>1, <3>2
  <2> QED
    BY <2>1, <2>2, SeqEqual
<1> HIDE DEF front
<1>4. KindsOf(Append(front, s[Len(s)])) = Append(KindsOf(front), Kind(s[Len(s)]))
  BY <1>1, <1>2, KindsOfMore
<1> QED
  BY <1>1, <1>2, <1>3, <1>4 DEF front

-----------------------------------------------------------------------------
(* What a call leaves *)

\* A value that is complete gives its container the turn, or ends the document.
LEMMA PopGives ==
    ASSUME NEW j \in Coroutines, j.final = "OK", Len(j.stack) <= Depth, AllValues(j.stack)
    PROVE  /\ Sound(Pop(j)) /\ Pop(j).final \in {"OK", "DONE"}
           /\ NestOf(Pop(j)) = KindsOf(j.stack) /\ WantOf(Pop(j)) = Tokens!After(KindsOf(j.stack))
           /\ Pop(j).final = "OK" => j.stack # <<>> /\ Pop(j).at \in {"item", "member"}
           /\ AllValues(Pop(j).stack)
<1>1. j.at \in Points /\ j.rest \in Seq(Chars) /\ j.stack \in Seq(Held)
  BY DEF Coroutines
<1>2. CASE j.stack = <<>>
  <2>1. Pop(j) = [j EXCEPT !.final = "DONE"]
    BY <1>2 DEF Pop
  <2>2. Pop(j) \in Coroutines /\ Pop(j).stack = <<>> /\ Pop(j).final = "DONE" /\ Pop(j).at = j.at
    BY <1>2, <2>1 DEF Coroutines
  <2>3. Len(Pop(j).stack) = 0
    BY <2>2
  <2>4. KindsOf(<<>>) = <<>>
    BY <1>1, <1>2, KindsAre
  <2>5. NestOf(Pop(j)) = KindsOf(j.stack)
    BY <1>2, <2>2 DEF NestOf, InContainer
  <2>6. WantOf(Pop(j)) = "done" /\ Tokens!After(KindsOf(j.stack)) = "done"
    BY <1>2, <2>2, <2>4 DEF WantOf, Tokens!After
  <2> QED
    BY <2>2, <2>3, <2>5, <2>6, DepthAssumption DEF Sound, AllValues
<1>3. CASE j.stack # <<>>
  <2> DEFINE s == j.stack
             front == SubSeq(s, 1, Len(s) - 1)
  <2>1. Pop(j) = [j EXCEPT !.at = s[Len(s)], !.stack = front]
    BY <1>3 DEF Pop
  <2>2. /\ front \in Seq(Held) /\ Len(front) = Len(s) - 1 /\ Len(s) \in Nat \ {0}
        /\ \A n \in 1 .. Len(s) - 1 : front[n] = s[n]
        /\ Append(KindsOf(front), Kind(s[Len(s)])) = KindsOf(s)
    BY <1>1, <1>3, KindsOfFront
  <2> HIDE DEF front
  <2>3. s[Len(s)] \in {"item", "member"}
    BY <2>2 DEF AllValues
  <2>4. /\ Pop(j) \in Coroutines /\ Pop(j).stack = front /\ Pop(j).final = "OK" /\ Pop(j).at = s[Len(s)]
    BY <2>1, <2>2, <2>3 DEF Coroutines, Points, InArray, InObject
  <2>5. AllValues(front)
    BY <2>2 DEF AllValues
  <2>6. Sound(Pop(j))
    BY <2>2, <2>4, <2>5, DepthAssumption DEF Sound, AllValues
  <2>7. NestOf(Pop(j)) = KindsOf(s)
    BY <2>2, <2>3, <2>4 DEF NestOf, InContainer, InArray, InObject
  <2>8. WantOf(Pop(j)) = IF s[Len(s)] = "member" THEN "key" ELSE "value"
    BY <2>3, <2>4 DEF WantOf
  <2>9. KindsOf(s) # <<>> /\ KindsOf(s)[Len(KindsOf(s))] = Kind(s[Len(s)])
    BY <1>1, <1>3, <2>2, KindsAre
  <2>10. Kind(s[Len(s)]) = IF s[Len(s)] = "member" THEN "object" ELSE "array"
    BY <2>3 DEF Kind, InArray
  <2>11. WantOf(Pop(j)) = Tokens!After(KindsOf(s))
    BY <2>3, <2>8, <2>9, <2>10 DEF Tokens!After
  <2> QED
    BY <1>3, <2>3, <2>4, <2>5, <2>6, <2>7, <2>11
<1> QED
  BY <1>2, <1>3

\* Pushing leaves the nest as it is, or ends with an error.
LEMMA PushGives ==
    ASSUME NEW j \in Coroutines, j.final = "OK", Len(j.stack) <= Depth, AllValues(j.stack), j.at \in InArray \cup InObject,
           NEW point \in Held, Kind(point) = Kind(j.at)
    PROVE  /\ Push(j, point) \in Coroutines /\ Len(Push(j, point).stack) <= Depth
           /\ Push(j, point).final = "OK" =>
                /\ Push(j, point).at = "start" /\ KindsOf(Push(j, point).stack) = NestOf(j)
                /\ Push(j, point).stack = Append(j.stack, point)
                /\ Push(j, point).stack # <<>> /\ Push(j, point).stack[Len(Push(j, point).stack)] = point
                /\ \A n \in 1 .. Len(Push(j, point).stack) - 1 : Push(j, point).stack[n] \in {"item", "member"}
                /\ Len(NestOf(j)) <= Depth
           /\ Push(j, point).final # "OK" =>
                Push(j, point).final = "ERROR" /\ Sound(Push(j, point)) /\ NestOf(Push(j, point)) = NestOf(j)
<1>1. j.at \in Points /\ j.rest \in Seq(Chars) /\ j.stack \in Seq(Held) /\ Len(j.stack) \in Nat
  BY DEF Coroutines
<1>2. NestOf(j) = Append(KindsOf(j.stack), Kind(point))
  BY DEF NestOf, InContainer
<1>3. CASE Len(j.stack) < Depth
  <2> DEFINE more == Append(j.stack, point)
  <2>1. Push(j, point) = [j EXCEPT !.stack = more, !.at = "start"]
    BY <1>3 DEF Push
  <2>2. /\ more \in Seq(Held) /\ Len(more) = Len(j.stack) + 1 /\ more[Len(j.stack) + 1] = point
        /\ \A n \in 1 .. Len(j.stack) : more[n] = j.stack[n]
    BY <1>1
  <2>3. KindsOf(more) = NestOf(j)
    BY <1>1, <1>2, KindsOfMore
  <2>4. Len(NestOf(j)) = Len(more)
    BY <2>2, <2>3, KindsAre
  <2> HIDE DEF more
  <2>5. /\ Push(j, point) \in Coroutines /\ Push(j, point).stack = more /\ Push(j, point).final = "OK"
        /\ Push(j, point).at = "start"
    BY <2>1, <2>2 DEF Coroutines, Points
  <2>6. more # <<>>
    BY <1>1, <2>2
  <2> QED
    BY <1>1, <1>3, <2>2, <2>3, <2>4, <2>5, <2>6, DepthAssumption DEF AllValues, more
<1>4. CASE ~(Len(j.stack) < Depth)
  <2>1. Push(j, point) = [j EXCEPT !.at = point, !.final = "ERROR"]
    BY <1>4 DEF Push
  <2>2. /\ Push(j, point) \in Coroutines /\ Push(j, point).stack = j.stack /\ Push(j, point).final = "ERROR"
        /\ Push(j, point).at = point
    BY <2>1 DEF Coroutines, Points, Held, InArray, InObject
  <2>3. point \in InArray \cup InObject
    BY DEF Held, InArray, InObject
  <2>4. NestOf(Push(j, point)) = NestOf(j)
    BY <1>2, <2>2, <2>3 DEF NestOf, InContainer
  <2> QED
    BY <2>2, <2>4 DEF Sound, AllValues
<1> QED
  BY <1>3, <1>4

-----------------------------------------------------------------------------
(* The steps *)

\* Every step keeps the stack sound and is one of JsonTokens.
Follows == Sound(jsn') /\ [Tokens!Next]_<<tok, Nest, Want>>

LEMMA OuterIs ==
    ASSUME NEW s \in Seq({"array", "object"}), NEW kind \in {"array", "object"}
    PROVE  /\ Append(s, kind) # <<>> /\ Tokens!Outer(Append(s, kind)) = s
           /\ Append(s, kind)[Len(Append(s, kind))] = kind
<1>1. /\ Append(s, kind) \in Seq({"array", "object"}) /\ Len(Append(s, kind)) = Len(s) + 1
      /\ Append(s, kind)[Len(s) + 1] = kind /\ Len(s) \in Nat
  OBVIOUS
<1>2. SubSeq(Append(s, kind), 1, Len(s)) = s
  OBVIOUS
<1>3. Len(Append(s, kind)) - 1 = Len(s)
  BY <1>1
<1> QED
  BY <1>1, <1>2, <1>3 DEF Tokens!Outer

\* The first character of a value.
LEMMA ValueFollows ==
    ASSUME NEW j \in Coroutines, NEW ch \in Chars, Value(j, ch), Len(j.stack) <= Depth, j.final = "OK",
           j.at = "start", KindsOf(j.stack) = Nest, Want = "value", Len(Nest) <= Depth, AllValues(j.stack)
    PROVE  Follows
<1>1. j.at \in Points /\ j.rest \in Seq(Chars) /\ j.stack \in Seq(Held) /\ Len(j.stack) \in Nat
  BY DEF Coroutines
<1>2. NestOf(j) = KindsOf(j.stack) /\ WantOf(j) = "value"
  BY DEF NestOf, WantOf, InContainer, InArray, InObject
<1>3. ~(j.stack # <<>> /\ j.stack[Len(j.stack)] = "colon")
  BY <1>1 DEF AllValues
<1>4. ASSUME ch = " ", jsn' = j, tok' = "OK" PROVE Follows
  <2>1. Sound(jsn')
    BY <1>4 DEF Sound, AllValues
  <2> QED
    BY <1>2, <1>4, <2>1, NestAndWant DEF Follows, Tokens!Next, Tokens!Silent
<1>5. ASSUME ch \in DOMAIN Rest, jsn' = [j EXCEPT !.at = "literal", !.rest = Rest[ch]], tok' = "OK" PROVE Follows
  <2>1. Rest[ch] \in Seq(Chars)
    <3>1. /\ <<"u", "l", "l">> \in Seq(Chars) /\ <<"r", "u", "e">> \in Seq(Chars)
          /\ <<"a", "l", "s", "e">> \in Seq(Chars)
      <4>1. {"u", "l", "r", "e", "a", "s"} \subseteq Chars
        BY DEF Chars
      <4> QED
        BY <4>1
    <3>2. ch \in {"n", "t", "f"}
      BY <1>5 DEF Rest
    <3>3. Rest["n"] = <<"u", "l", "l">> /\ Rest["t"] = <<"r", "u", "e">> /\ Rest["f"] = <<"a", "l", "s", "e">>
      BY DEF Rest
    <3> QED
      BY <3>1, <3>2, <3>3
  <2>2. jsn' \in Coroutines /\ jsn'.at = "literal" /\ jsn'.stack = j.stack /\ jsn'.final = "OK"
    BY <1>5, <2>1 DEF Coroutines, Points
  <2>3. Sound(jsn')
    BY <2>2 DEF Sound, AllValues
  <2>4. NestOf(jsn') = KindsOf(j.stack) /\ WantOf(jsn') = "value"
    BY <2>2 DEF NestOf, WantOf, InContainer, InArray, InObject
  <2> QED
    BY <1>5, <2>3, <2>4, NestAndWant DEF Follows, Tokens!Next, Tokens!Silent
<1>6. ASSUME jsn' = [j EXCEPT !.at = "string"], tok' = "OK" PROVE Follows
  <2>2. jsn' \in Coroutines /\ jsn'.at = "string" /\ jsn'.stack = j.stack /\ jsn'.final = "OK"
    BY <1>6 DEF Coroutines, Points
  <2>3. Sound(jsn')
    BY <2>2 DEF Sound, AllValues
  <2>4. NestOf(jsn') = KindsOf(j.stack) /\ WantOf(jsn') = "value"
    BY <1>3, <2>2 DEF NestOf, WantOf, InContainer, InArray, InObject
  <2> QED
    BY <1>6, <2>3, <2>4, NestAndWant DEF Follows, Tokens!Next, Tokens!Silent
<1>7. ASSUME jsn' = [j EXCEPT !.at = IF ch = "[" THEN "array" ELSE "object"],
             tok' = (IF ch = "[" THEN "ARRAY_BEGIN" ELSE "OBJECT_BEGIN")
      PROVE  Follows
  <2> DEFINE point == IF ch = "[" THEN "array" ELSE "object"
  <2>1. point \in {"array", "object"} /\ Kind(point) = point
    BY DEF Kind, InArray
  <2>2. jsn' \in Coroutines /\ jsn'.at = point /\ jsn'.stack = j.stack /\ jsn'.final = "OK"
    BY <1>7 DEF Coroutines, Points, InArray, InObject
  <2>3. Sound(jsn')
    BY <2>2 DEF Sound, AllValues
  <2>4. NestOf(jsn') = Append(KindsOf(j.stack), point) /\ WantOf(jsn') = IF point = "array" THEN "value" ELSE "key"
    BY <2>1, <2>2 DEF NestOf, WantOf, InContainer, InArray, InObject
  <2> QED
    BY <1>7, <2>1, <2>3, <2>4, NestAndWant DEF Follows, Tokens!Next, Tokens!Begin, Tokens!GoOn
<1>8. ASSUME jsn' = [j EXCEPT !.at = IF ch = "." THEN "frac" ELSE "int"], tok' = "OK" PROVE Follows
  <2>2. jsn' \in Coroutines /\ jsn'.at \in {"frac", "int"} /\ jsn'.stack = j.stack /\ jsn'.final = "OK"
    BY <1>8 DEF Coroutines, Points, InNumber
  <2>3. Sound(jsn')
    BY <2>2 DEF Sound, AllValues
  <2>4. NestOf(jsn') = KindsOf(j.stack) /\ WantOf(jsn') = "value"
    BY <2>2 DEF NestOf, WantOf, InContainer, InArray, InObject
  <2> QED
    BY <1>8, <2>3, <2>4, NestAndWant DEF Follows, Tokens!Next, Tokens!Silent
<1>9. ASSUME jsn' = [j EXCEPT !.final = "ERROR"], tok' = "ERROR" PROVE Follows
  <2>2. jsn' \in Coroutines /\ jsn'.at = "start" /\ jsn'.stack = j.stack /\ jsn'.final = "ERROR"
    BY <1>9 DEF Coroutines, Points
  <2>3. Sound(jsn')
    BY <2>2 DEF Sound, AllValues
  <2>4. NestOf(jsn') = KindsOf(j.stack) /\ WantOf(jsn') = "error"
    BY <2>2 DEF NestOf, WantOf, InContainer, InArray, InObject
  <2> QED
    BY <1>9, <2>3, <2>4, NestAndWant DEF Follows, Tokens!Next, Tokens!Fail
<1> QED
  BY <1>4, <1>5, <1>6, <1>7, <1>8, <1>9 DEF Value

LEMMA FailFollows ==
    ASSUME Sound(jsn), jsn.final = "OK", Errs
    PROVE  Follows
<1>1. jsn' \in Coroutines /\ jsn'.at = jsn.at /\ jsn'.stack = jsn.stack /\ jsn'.final = "ERROR" /\ tok' = "ERROR"
  BY DEF Errs, Sound, Coroutines
<1>2. Sound(jsn')
  BY <1>1 DEF Sound
<1>3. NestOf(jsn') = NestOf(jsn) /\ WantOf(jsn') = "error" /\ WantOf(jsn) # "done"
  BY <1>1 DEF NestOf, InContainer, WantOf
<1> QED
  BY <1>1, <1>2, <1>3, NestAndWant DEF Follows, Tokens!Next, Tokens!Fail

\* The first character of an item or of a member's value.
LEMMA NestedFollows ==
    ASSUME Sound(jsn), jsn.final = "OK", NEW point \in {"item", "member"}, NEW ch \in Chars,
           jsn.at \in {"array", "comma", "value"}, Kind(point) = Kind(jsn.at), Nested(Push(jsn, point), ch)
    PROVE  Follows
<1>1. /\ jsn \in Coroutines /\ Len(jsn.stack) <= Depth /\ AllValues(jsn.stack)
      /\ jsn.stack \in Seq(Held) /\ Len(jsn.stack) \in Nat
  BY DEF Sound, AllValues, Coroutines, Held
<1>2. Want = "value" /\ Nest = NestOf(jsn)
  BY NestAndWant DEF WantOf
<1> DEFINE j == Push(jsn, point)
<1>3. /\ j \in Coroutines /\ Len(j.stack) <= Depth
      /\ j.final = "OK" =>
           /\ j.at = "start" /\ KindsOf(j.stack) = NestOf(jsn) /\ j.stack = Append(jsn.stack, point)
           /\ j.stack # <<>> /\ j.stack[Len(j.stack)] = point
           /\ \A n \in 1 .. Len(j.stack) - 1 : j.stack[n] \in {"item", "member"}
           /\ Len(NestOf(jsn)) <= Depth
      /\ j.final # "OK" => j.final = "ERROR" /\ Sound(j) /\ NestOf(j) = NestOf(jsn)
  BY <1>1, PushGives DEF Held, InArray, InObject
<1> HIDE DEF j
<1>4. CASE j.final = "OK" /\ Value(j, ch)
  <2>1. Len(j.stack) \in Nat
    BY <1>3 DEF Coroutines
  <2>2. AllValues(j.stack)
    BY <1>3, <1>4, <2>1 DEF AllValues
  <2> QED
    BY <1>2, <1>3, <1>4, <2>2, ValueFollows
<1>5. CASE j.final = "ERROR" /\ jsn' = j /\ tok' = "ERROR"
  <2>1. WantOf(j) = "error"
    BY <1>5 DEF WantOf
  <2> QED
    BY <1>2, <1>3, <1>5, <2>1, NestAndWant DEF Follows, Tokens!Next, Tokens!Fail
<1> QED
  BY <1>4, <1>5 DEF Nested, j

\* A string that ends is a value or the name of a key.
LEMMA StringFollows ==
    ASSUME Sound(jsn), StringEnd
    PROVE  Follows
<1>1. /\ jsn \in Coroutines /\ Len(jsn.stack) <= Depth /\ jsn.final = "OK" /\ jsn.at = "string"
      /\ jsn.stack \in Seq(Held) /\ Len(jsn.stack) \in Nat /\ jsn' = Pop(jsn) /\ tok' = "STRING"
  BY DEF Sound, Coroutines, StringEnd, Running
<1> DEFINE s == jsn.stack
<1>2. Nest = KindsOf(s)
  BY <1>1, NestAndWant DEF NestOf, InContainer, InArray, InObject
<1>3. CASE s # <<>> /\ s[Len(s)] = "colon"
  <2> DEFINE front == SubSeq(s, 1, Len(s) - 1)
  <2>1. jsn' = [jsn EXCEPT !.at = "colon", !.stack = front]
    BY <1>1, <1>3 DEF Pop
  <2>2. /\ front \in Seq(Held) /\ Len(front) = Len(s) - 1 /\ Len(s) \in Nat \ {0}
        /\ \A n \in 1 .. Len(s) - 1 : front[n] = s[n]
        /\ Append(KindsOf(front), Kind(s[Len(s)])) = KindsOf(s)
    BY <1>1, <1>3, KindsOfFront
  <2> HIDE DEF front
  <2>3. jsn' \in Coroutines /\ jsn'.at = "colon" /\ jsn'.stack = front /\ jsn'.final = "OK"
    BY <1>1, <2>1, <2>2 DEF Coroutines, Points, InObject
  <2>4. \A n \in 1 .. Len(s) : s[n] = "colon" => n = Len(s)
    BY <1>1 DEF Sound
  <2>5. Sound(jsn')
    <3>1. Len(front) <= Depth
      BY <1>1, <2>2, DepthAssumption
    <3>2. ASSUME NEW n \in 1 .. Len(front) PROVE front[n] # "colon"
      <4>1. n \in 1 .. Len(s) - 1 /\ n \in 1 .. Len(s) /\ n # Len(s)
        BY <2>2
      <4> QED
        BY <2>2, <2>4, <4>1
    <3> QED
      BY <2>3, <3>1, <3>2 DEF Sound
  <2>6. NestOf(jsn') = KindsOf(s) /\ WantOf(jsn') = "colon"
    BY <1>3, <2>2, <2>3 DEF NestOf, WantOf, InContainer, InArray, InObject, Kind
  <2>7. Want = "name"
    BY <1>1, <1>3, NestAndWant DEF WantOf
  <2> QED
    BY <1>1, <1>2, <2>5, <2>6, <2>7, NestAndWant DEF Follows, Tokens!Next, Tokens!Name, Tokens!GoOn
<1>4. CASE ~(s # <<>> /\ s[Len(s)] = "colon")
  <2>1. AllValues(s)
    <3>1. \A n \in 1 .. Len(s) : s[n] \in Held /\ (s[n] = "colon" => n = Len(s))
      BY <1>1 DEF Sound
    <3>2. ASSUME NEW n \in 1 .. Len(s), s[n] = "colon" PROVE FALSE
      <4>1. n = Len(s) /\ s # <<>>
        BY <1>1, <3>1, <3>2
      <4> QED
        BY <1>4, <3>2, <4>1
    <3> QED
      BY <3>1, <3>2 DEF AllValues, Held
  <2>2. Want = "value"
    BY <1>1, <1>4, NestAndWant DEF WantOf
  <2>3. Len(Nest) <= Depth
    BY <1>1, <1>2, KindsAre
  <2>4. Sound(jsn') /\ NestOf(jsn') = KindsOf(s) /\ WantOf(jsn') = Tokens!After(KindsOf(s))
    BY <1>1, <2>1, PopGives
  <2> QED
    BY <1>1, <1>2, <2>2, <2>3, <2>4, NestAndWant DEF Follows, Tokens!Next, Tokens!Scalar, Tokens!GoOn
<1> QED
  BY <1>3, <1>4

LEMMA LiteralFollows ==
    ASSUME Sound(jsn), NEW ch \in Chars, Literal(ch)
    PROVE  Follows
<1>1. /\ jsn \in Coroutines /\ Len(jsn.stack) <= Depth /\ jsn.final = "OK" /\ jsn.at = "literal"
      /\ jsn.stack \in Seq(Held) /\ Len(jsn.stack) \in Nat /\ AllValues(jsn.stack) /\ jsn.rest \in Seq(Chars)
  BY DEF Sound, Coroutines, Literal, Running, AllValues, Held
<1>2. /\ Nest = KindsOf(jsn.stack) /\ NestOf(jsn) = KindsOf(jsn.stack) /\ Want = "value"
      /\ Len(Nest) <= Depth
  BY <1>1, NestAndWant, KindsAre DEF NestOf, WantOf, InContainer, InArray, InObject
<1>3. ASSUME jsn' = [jsn EXCEPT !.rest = Tail(@)], Len(jsn.rest) > 1, tok' = "OK" PROVE Follows
  <2>1. Tail(jsn.rest) \in Seq(Chars)
    BY <1>1, <1>3, EmptySeq
  <2>2. jsn' \in Coroutines /\ jsn'.at = "literal" /\ jsn'.stack = jsn.stack /\ jsn'.final = "OK"
    BY <1>1, <1>3, <2>1 DEF Coroutines
  <2>3. Sound(jsn')
    BY <1>1, <2>2 DEF Sound, AllValues
  <2>4. NestOf(jsn') = KindsOf(jsn.stack) /\ WantOf(jsn') = "value"
    BY <2>2 DEF NestOf, WantOf, InContainer, InArray, InObject
  <2> QED
    BY <1>2, <1>3, <2>3, <2>4, NestAndWant DEF Follows, Tokens!Next, Tokens!Silent
<1>4. ASSUME jsn' = Pop([jsn EXCEPT !.rest = <<>>]), tok' \in {"NULL", "BOOL"} PROVE Follows
  <2> DEFINE j == [jsn EXCEPT !.rest = <<>>]
  <2>1. j \in Coroutines /\ j.final = "OK" /\ j.stack = jsn.stack
    BY <1>1, EmptySeq DEF Coroutines
  <2> HIDE DEF j
  <2>2. Sound(Pop(j)) /\ NestOf(Pop(j)) = KindsOf(j.stack) /\ WantOf(Pop(j)) = Tokens!After(KindsOf(j.stack))
    BY <1>1, <2>1, PopGives
  <2>3. jsn' = Pop(j)
    BY <1>4 DEF j
  <2> QED
    BY <1>2, <1>4, <2>1, <2>2, <2>3, NestAndWant DEF Follows, Tokens!Next, Tokens!Scalar, Tokens!GoOn
<1>5. CASE Errs
  BY <1>1, <1>5, FailFollows
<1> QED
  BY <1>3, <1>4, <1>5 DEF Literal

\* What a container whose item is complete makes of a character.
LEMMA ResumedGives ==
    ASSUME NEW j \in Coroutines, Sound(j), j.final = "OK", j.at \in {"item", "member"}, AllValues(j.stack), NEW ch
    PROVE  /\ Sound(Resumed(j, ch))
           /\ \/ NestOf(Resumed(j, ch)) = NestOf(j) /\ WantOf(Resumed(j, ch)) \in {WantOf(j), "error"}
              \/ /\ NestOf(Resumed(j, ch)) = KindsOf(j.stack) /\ NestOf(j) = Append(KindsOf(j.stack), Kind(j.at))
                 /\ WantOf(Resumed(j, ch)) = Tokens!After(KindsOf(j.stack))
           /\ ch = "," => NestOf(Resumed(j, ch)) = NestOf(j) /\ WantOf(Resumed(j, ch)) = WantOf(j)
<1>1. j.stack \in Seq(Held) /\ Len(j.stack) \in Nat /\ Len(j.stack) <= Depth
  BY DEF Coroutines, Sound
<1>2. NestOf(j) = Append(KindsOf(j.stack), Kind(j.at)) /\ WantOf(j) = IF j.at = "item" THEN "value" ELSE "key"
  BY DEF NestOf, WantOf, InContainer, InArray, InObject
<1>3. CASE ch = " "
  <2>1. Resumed(j, ch) = j /\ ch # ","
    BY <1>3 DEF Resumed
  <2> QED
    BY <2>1
<1>4. CASE ch = ","
  <2> DEFINE point == IF j.at = "item" THEN "comma" ELSE "ocomma"
             r == Resumed(j, ch)
  <2>1. r = [j EXCEPT !.at = point]
    BY <1>4 DEF Resumed
  <2>2. r \in Coroutines /\ r.at = point /\ r.stack = j.stack /\ r.final = "OK"
    BY <2>1 DEF Coroutines, Points, InArray, InObject
  <2>3. Kind(point) = Kind(j.at) /\ point \in InArray \cup InObject
    BY DEF Kind, InArray, InObject
  <2> HIDE DEF r
  <2>4. NestOf(r) = NestOf(j) /\ WantOf(r) = WantOf(j)
    BY <1>2, <2>2, <2>3 DEF NestOf, WantOf, InContainer
  <2>5. Sound(r)
    BY <1>1, <2>2 DEF Sound, AllValues
  <2> QED
    BY <2>4, <2>5 DEF r
<1>5. CASE ch \notin {" ", ","} /\ ch = Closing(j.at)
  <2>1. Resumed(j, ch) = Pop(j)
    BY <1>5 DEF Resumed
  <2>2. Sound(Pop(j)) /\ NestOf(Pop(j)) = KindsOf(j.stack) /\ WantOf(Pop(j)) = Tokens!After(KindsOf(j.stack))
    BY <1>1, PopGives
  <2> QED
    BY <1>2, <1>5, <2>1, <2>2
<1>6. CASE ch \notin {" ", ","} /\ ch # Closing(j.at)
  <2> DEFINE r == Resumed(j, ch)
  <2>1. r = [j EXCEPT !.final = "ERROR"]
    BY <1>6 DEF Resumed
  <2>2. r \in Coroutines /\ r.at = j.at /\ r.stack = j.stack /\ r.final = "ERROR"
    BY <2>1 DEF Coroutines
  <2> HIDE DEF r
  <2>3. NestOf(r) = NestOf(j) /\ WantOf(r) = "error"
    BY <1>2, <2>2 DEF NestOf, WantOf, InContainer, InArray, InObject
  <2>4. Sound(r)
    BY <1>1, <2>2 DEF Sound, AllValues
  <2> QED
    BY <1>6, <2>3, <2>4 DEF r
<1> QED
  BY <1>3, <1>4, <1>5, <1>6

\* The number is complete, and the character behind it is for its container.
LEMMA NumberFollows ==
    ASSUME Sound(jsn), NEW ch \in Chars, NumberEnd(ch)
    PROVE  Follows
<1>1. /\ jsn \in Coroutines /\ Len(jsn.stack) <= Depth /\ jsn.final = "OK" /\ jsn.at \in InNumber
      /\ jsn.stack \in Seq(Held) /\ Len(jsn.stack) \in Nat /\ AllValues(jsn.stack) /\ tok' = "NUMBER"
  BY DEF Sound, Coroutines, NumberEnd, Running, AllValues, Held, InNumber
<1>2. /\ Nest = KindsOf(jsn.stack) /\ Want = "value" /\ Len(Nest) <= Depth
  BY <1>1, NestAndWant, KindsAre DEF NestOf, WantOf, InContainer, InArray, InObject, InNumber
<1> DEFINE j == Pop(jsn)
<1>3. /\ Sound(j) /\ j.final \in {"OK", "DONE"} /\ NestOf(j) = KindsOf(jsn.stack)
      /\ WantOf(j) = Tokens!After(KindsOf(jsn.stack)) /\ AllValues(j.stack)
      /\ j.final = "OK" => jsn.stack # <<>> /\ j.at \in {"item", "member"}
  BY <1>1, PopGives
<1>4. jsn' = IF j.final = "OK" THEN Resumed(j, ch) ELSE j
  BY DEF NumberEnd
<1> HIDE DEF j
<1>5. CASE j.final # "OK"
  BY <1>1, <1>2, <1>3, <1>4, <1>5, NestAndWant DEF Follows, Tokens!Next, Tokens!Scalar, Tokens!MayGoOn
<1>6. CASE j.final = "OK"
  <2>1. j \in Coroutines /\ jsn' = Resumed(j, ch) /\ KindsOf(j.stack) \in Seq({"array", "object"})
    BY <1>3, <1>4, <1>6, KindsAre DEF Sound, Coroutines
  <2>2. Sound(jsn')
    BY <1>3, <1>6, <2>1, ResumedGives
  <2>3. CASE NestOf(jsn') = NestOf(j) /\ WantOf(jsn') \in {WantOf(j), "error"}
    BY <1>1, <1>2, <1>3, <2>2, <2>3, NestAndWant DEF Follows, Tokens!Next, Tokens!Scalar, Tokens!MayGoOn
  <2>4. CASE /\ NestOf(jsn') = KindsOf(j.stack) /\ NestOf(j) = Append(KindsOf(j.stack), Kind(j.at))
             /\ WantOf(jsn') = Tokens!After(KindsOf(j.stack))
    <3>1. Kind(j.at) \in {"array", "object"}
      BY DEF Kind
    <3>2. Nest # <<>> /\ Tokens!Outer(Nest) = KindsOf(j.stack)
      BY <1>2, <1>3, <2>1, <2>4, <3>1, OuterIs
    <3> QED
      BY <1>1, <1>2, <2>2, <2>4, <3>2, NestAndWant DEF Follows, Tokens!Next, Tokens!NumberAndEnd, Tokens!GoOn
  <2> QED
    BY <1>3, <1>6, <2>1, <2>3, <2>4, ResumedGives
<1> QED
  BY <1>5, <1>6

\* The characters within a string, within a number and between the parts of a
\* container: the nest is left alone and tok is JSON_OK.
LEMMA SilentFollows ==
    ASSUME Sound(jsn), jsn.final = "OK", tok' = "OK", NEW point \in Points, jsn' = [jsn EXCEPT !.at = point],
           \/ jsn.at \in InNumber /\ point \in InNumber
           \/ jsn.at \in {"item", "comma", "array"} /\ point \in {"item", "comma", "array"}
           \/ jsn.at \in {"object", "member", "ocomma", "okey"} /\ point \in {"object", "member", "ocomma", "okey"}
           \/ point = jsn.at
    PROVE  Follows
<1>1. jsn' \in Coroutines /\ jsn'.at = point /\ jsn'.stack = jsn.stack /\ jsn'.final = "OK" /\ jsn \in Coroutines
  BY DEF Sound, Coroutines
<1>2. Sound(jsn')
  BY <1>1 DEF Sound, InNumber
<1>3. NestOf(jsn') = NestOf(jsn) /\ WantOf(jsn') = WantOf(jsn) /\ WantOf(jsn) \notin {"done", "error"}
  BY <1>1 DEF NestOf, WantOf, InContainer, InNumber, InArray, InObject, Kind
<1> QED
  BY <1>1, <1>2, <1>3, NestAndWant DEF Follows, Tokens!Next, Tokens!Silent

LEMMA EndFollows ==
    ASSUME Sound(jsn), NEW ch \in Chars, End(ch)
    PROVE  Follows
<1>1. /\ jsn \in Coroutines /\ Len(jsn.stack) <= Depth /\ jsn.final = "OK"
      /\ jsn.at \in {"array", "item", "comma", "object", "member", "ocomma"}
      /\ jsn.stack \in Seq(Held) /\ Len(jsn.stack) \in Nat /\ AllValues(jsn.stack)
      /\ jsn' = Pop(jsn) /\ tok' = EndOf(jsn.at)
  BY DEF Sound, Coroutines, End, Running, AllValues, Held
<1>2. /\ Nest = Append(KindsOf(jsn.stack), Kind(jsn.at))
      /\ Want = IF jsn.at \in InArray THEN "value" ELSE "key"
      /\ tok' = IF jsn.at \in InArray THEN "ARRAY_END" ELSE "OBJECT_END"
  BY <1>1, NestAndWant DEF NestOf, WantOf, InContainer, InArray, InObject, EndOf
<1>3. Sound(jsn') /\ NestOf(jsn') = KindsOf(jsn.stack) /\ WantOf(jsn') = Tokens!After(KindsOf(jsn.stack))
  BY <1>1, PopGives
<1>4. KindsOf(jsn.stack) \in Seq({"array", "object"}) /\ Kind(jsn.at) \in {"array", "object"}
  BY <1>1, KindsAre DEF Kind
<1>5. Nest # <<>> /\ Tokens!Outer(Nest) = KindsOf(jsn.stack) /\ Nest[Len(Nest)] = Kind(jsn.at)
  BY <1>2, <1>4, OuterIs
<1>6. Kind(jsn.at) = IF jsn.at \in InArray THEN "array" ELSE "object"
  BY DEF Kind
<1> QED
  BY <1>2, <1>3, <1>5, <1>6, NestAndWant DEF Follows, Tokens!Next, Tokens!End, Tokens!GoOn

\* The opening quote of a name, also where the stack is full.
LEMMA KeyFollows ==
    ASSUME Sound(jsn), Key
    PROVE  Follows
<1>1. /\ jsn \in Coroutines /\ Len(jsn.stack) <= Depth /\ jsn.final = "OK"
      /\ jsn.at \in {"object", "ocomma", "okey"}
      /\ jsn.stack \in Seq(Held) /\ Len(jsn.stack) \in Nat /\ AllValues(jsn.stack) /\ tok' = "OBJECT_KEY"
  BY DEF Sound, Coroutines, Key, Running, AllValues, Held
<1>2. Nest = NestOf(jsn) /\ Want = "key"
  BY <1>1, NestAndWant DEF WantOf
<1> DEFINE j == Push(jsn, "colon")
<1>3. /\ j \in Coroutines /\ Len(j.stack) <= Depth
      /\ j.final = "OK" =>
           /\ j.at = "start" /\ KindsOf(j.stack) = NestOf(jsn) /\ j.stack # <<>> /\ j.stack[Len(j.stack)] = "colon"
           /\ \A n \in 1 .. Len(j.stack) - 1 : j.stack[n] \in {"item", "member"}
      /\ j.final # "OK" => j.final = "ERROR" /\ Sound(j) /\ NestOf(j) = NestOf(jsn)
  BY <1>1, PushGives DEF Held, InArray, InObject, Kind
<1>4. \/ j.final = "OK" /\ jsn' = [j EXCEPT !.at = "string"]
      \/ j.final # "OK" /\ jsn' = j
  <2>1. CASE j.final = "OK"
    BY <2>1 DEF Key
  <2>2. CASE j.final # "OK"
    BY <2>2 DEF Key
  <2> QED
    BY <2>1, <2>2
<1> HIDE DEF j
<1>5. CASE j.final = "OK" /\ jsn' = [j EXCEPT !.at = "string"]
  <2>1. jsn' \in Coroutines /\ jsn'.at = "string" /\ jsn'.stack = j.stack /\ jsn'.final = "OK"
    BY <1>3, <1>5 DEF Coroutines, Points
  <2>2. Len(j.stack) \in Nat
    BY <1>3 DEF Coroutines
  <2>3. Sound(jsn')
    <3>1. ASSUME NEW n \in 1 .. Len(j.stack), j.stack[n] = "colon" PROVE n = Len(j.stack)
      <4>1. ~(n \in 1 .. Len(j.stack) - 1)
        BY <1>3, <1>5, <3>1
      <4> QED
        BY <2>2, <4>1
    <3> QED
      BY <1>3, <2>1, <3>1 DEF Sound
  <2>4. NestOf(jsn') = NestOf(jsn) /\ WantOf(jsn') = "name"
    BY <1>3, <1>5, <2>1 DEF NestOf, WantOf, InContainer, InArray, InObject
  <2> QED
    BY <1>1, <1>2, <2>3, <2>4, NestAndWant DEF Follows, Tokens!Next, Tokens!Key, Tokens!MayGoOn
<1>6. CASE j.final # "OK" /\ jsn' = j
  <2>1. WantOf(jsn') = "error"
    BY <1>3, <1>6 DEF WantOf
  <2> QED
    BY <1>1, <1>2, <1>3, <1>6, <2>1, NestAndWant DEF Follows, Tokens!Next, Tokens!Key, Tokens!MayGoOn
<1> QED
  BY <1>4, <1>5, <1>6

LEMMA ParseFollows ==
    ASSUME Sound(jsn), NEW ch \in Chars, Parse(ch)
    PROVE  Follows
<1>1. jsn \in Coroutines /\ jsn.at \in Points /\ jsn.final \in {"OK", "DONE", "ERROR"} /\ jsn.stack \in Seq(Held)
  BY DEF Sound, Coroutines
<1>2. CASE Final
  <2>1. jsn.final # "OK" /\ jsn' = jsn /\ tok' = jsn.final
    BY <1>2 DEF Final
  <2>2. \/ jsn.final = "DONE" /\ Want = "done"
        \/ jsn.final = "ERROR" /\ Want = "error"
    <3>1. CASE jsn.final = "DONE"
      BY <3>1, NestAndWant DEF WantOf
    <3>2. CASE jsn.final = "ERROR"
      BY <3>2, NestAndWant DEF WantOf
    <3> QED
      BY <1>1, <2>1, <3>1, <3>2
  <2>3. Nest' = Nest /\ Want' = Want
    BY <2>1, NestAndWant
  <2> QED
    BY <2>1, <2>2, <2>3 DEF Follows, Tokens!Next, Tokens!Done, Tokens!Fail
<1>3. CASE SkipSpace
  <2> DEFINE point == IF jsn.at = "ocomma" THEN "okey" ELSE jsn.at
  <2>1. /\ jsn.final = "OK" /\ tok' = "OK" /\ jsn' = [jsn EXCEPT !.at = point]
        /\ point \in Points
    BY <1>1, <1>3 DEF SkipSpace, Running, Yields, Points, InObject
  <2> QED
    BY <2>1, SilentFollows
<1>4. CASE Comma
  <2> DEFINE point == IF jsn.at = "item" THEN "comma" ELSE "ocomma"
  <2>1. jsn.final = "OK" /\ tok' = "OK" /\ jsn.at \in {"item", "member"} /\ jsn' = [jsn EXCEPT !.at = point]
    BY <1>4 DEF Comma, Running, Resumed
  <2>2. point \in Points
    BY DEF Points, InArray, InObject
  <2> QED
    BY <2>1, <2>2, SilentFollows
<1>5. CASE Colon
  <2>1. /\ jsn.final = "OK" /\ jsn.at = "colon" /\ tok' = "OBJECT_VALUE" /\ jsn' = [jsn EXCEPT !.at = "value"]
    BY <1>5 DEF Colon, Running, Yields
  <2>2. jsn' \in Coroutines /\ jsn'.at = "value" /\ jsn'.stack = jsn.stack /\ jsn'.final = "OK"
    BY <1>1, <2>1 DEF Coroutines, Points, InObject
  <2>3. Sound(jsn')
    BY <2>1, <2>2 DEF Sound
  <2>4. NestOf(jsn') = NestOf(jsn) /\ WantOf(jsn') = "value" /\ WantOf(jsn) = "colon"
    BY <2>1, <2>2 DEF NestOf, WantOf, InContainer, InArray, InObject, Kind
  <2> QED
    BY <2>1, <2>3, <2>4, NestAndWant DEF Follows, Tokens!Next, Tokens!Colon, Tokens!GoOn
<1>6. CASE StringEnd
  BY <1>6, StringFollows
<1>7. CASE Key
  BY <1>7, KeyFollows
<1>8. CASE Start(ch)
  <2>1. /\ jsn.final = "OK" /\ jsn.at = "start" /\ Value(jsn, ch) /\ Len(jsn.stack) <= Depth
    BY <1>8 DEF Start, Running, Sound
  <2>3. AllValues(jsn.stack)
    <3>1. \A n \in 1 .. Len(jsn.stack) : jsn.stack[n] \in Held
      BY <1>1
    <3> QED
      BY <2>1, <3>1 DEF Sound, AllValues, Held
  <2>2. KindsOf(jsn.stack) = Nest /\ Want = "value" /\ Len(Nest) <= Depth
    BY <1>1, <2>1, NestAndWant, KindsAre DEF NestOf, WantOf, InContainer, InArray, InObject
  <2> QED
    BY <1>1, <2>1, <2>2, <2>3, ValueFollows
<1>9. CASE Literal(ch)
  BY <1>9, LiteralFollows
<1>10. CASE StringChar(ch)
  <2>1. /\ jsn.final = "OK" /\ tok' = "OK" /\ jsn.at = "string" /\ jsn' = [jsn EXCEPT !.at = "string"]
    BY <1>10 DEF StringChar, Running, Accept, Yields
  <2> QED
    BY <1>1, <2>1, SilentFollows
<1>11. CASE NumberChar(ch)
  <2>1. PICK step \in NumberSteps : step[1] = jsn.at /\ Accept(step[3])
    BY <1>11 DEF NumberChar
  <2>2. jsn.final = "OK" /\ jsn.at \in InNumber /\ step[3] \in InNumber /\ step[3] \in Points
    BY <1>11, <2>1 DEF NumberChar, Running, NumberSteps, InNumber, Points
  <2>3. tok' = "OK" /\ jsn' = [jsn EXCEPT !.at = step[3]]
    BY <2>1 DEF Accept, Yields
  <2> QED
    BY <2>2, <2>3, SilentFollows
<1>12. CASE NumberEnd(ch)
  BY <1>12, NumberFollows
<1>13. CASE End(ch)
  BY <1>13, EndFollows
<1>14. CASE Item(ch)
  <2>1. jsn.final = "OK" /\ jsn.at \in {"array", "comma"} /\ Nested(Push(jsn, "item"), ch)
    BY <1>14 DEF Item, Running
  <2>2. Kind("item") = Kind(jsn.at)
    BY <2>1 DEF Kind, InArray
  <2> QED
    BY <2>1, <2>2, NestedFollows
<1>15. CASE Member(ch)
  <2>1. jsn.final = "OK" /\ jsn.at = "value" /\ Nested(Push(jsn, "member"), ch)
    BY <1>15 DEF Member, Running
  <2>2. Kind("member") = Kind(jsn.at)
    BY <2>1 DEF Kind, InArray
  <2> QED
    BY <2>1, <2>2, NestedFollows
<1>16. CASE Unexpected(ch)
  <2>1. jsn.final = "OK" /\ Errs
    BY <1>16 DEF Unexpected, Running
  <2> QED
    BY <2>1, FailFollows
<1> QED
  BY <1>2, <1>3, <1>4, <1>5, <1>6, <1>7, <1>8, <1>9, <1>10, <1>11, <1>12, <1>13, <1>14, <1>15, <1>16 DEF Parse

LEMMA FreshIsSound == Sound(Fresh) /\ NestOf(Fresh) = <<>> /\ WantOf(Fresh) = "value"
<1>1. /\ <<>> \in Seq(Held) /\ <<>> \in Seq(Chars) /\ Len(<<>>) = 0
  BY EmptySeq
<1>2. Fresh \in Coroutines /\ Fresh.at = "start" /\ Fresh.stack = <<>> /\ Fresh.final = "OK"
  BY <1>1 DEF Fresh, Coroutines, Points
<1>3. KindsOf(<<>>) = <<>>
  BY <1>1, KindsAre
<1> QED
  BY <1>1, <1>2, <1>3, DepthAssumption DEF Sound, NestOf, WantOf, InContainer, InArray, InObject

\* For any characters and a stack of any depth: what json_parse returns nests, a key
\* is followed by its name and its value, nothing follows the document and an error
\* is for good.
THEOREM TokensAlwaysNest == Spec => TokensNest
<1>1. Init => Sound(jsn) /\ Tokens!Init
  BY FreshIsSound, NestAndWant DEF Init, Tokens!Init
<1>2. Sound(jsn) /\ [Next]_vars => Follows
  <2> SUFFICES ASSUME Sound(jsn), [Next]_vars PROVE Follows
    OBVIOUS
  <2>1. CASE UNCHANGED vars
    <3>1. jsn' = jsn /\ tok' = tok
      BY <2>1 DEF vars
    <3>2. Nest' = Nest /\ Want' = Want
      BY <3>1, NestAndWant
    <3> QED
      BY <3>1, <3>2 DEF Follows
  <2>2. CASE Reinit
    <3>1. jsn' = Fresh /\ tok' = "OK"
      BY <2>2 DEF Reinit
    <3> QED
      BY <3>1, FreshIsSound, NestAndWant DEF Follows, Tokens!Next, Tokens!Restart
  <2>3. ASSUME NEW ch \in Chars, Parse(ch) PROVE Follows
    BY <2>3, ParseFollows
  <2> QED
    BY <2>1, <2>2, <2>3 DEF Next
<1>3. Follows => Sound(jsn)' /\ [Tokens!Next]_Tokens!vars
  BY DEF Follows, Sound, Tokens!vars
<1> QED
  BY <1>1, <1>2, <1>3, PTL DEF Spec, TokensNest, Tokens!Spec

-----------------------------------------------------------------------------
(* The text of a token *)

Bytes == {"c", "0"}
Run(n) == [m \in 1 .. n |-> "c"]

LEMMA PutIs ==
    ASSUME NEW s \in Seq(Bytes), NEW b \in Seq(Bytes), NEW m \in Nat, m = Lesser(Len(s) + Len(b), Cap)
    PROVE  /\ Put(s, b) \in Seq(Bytes) /\ Len(Put(s, b)) = m /\ m <= Cap
           /\ \A n \in 1 .. m : Put(s, b)[n] = IF n <= Len(s) THEN s[n] ELSE b[n - Len(s)]
<1> DEFINE all == s \o b
<1>1. Len(s) \in Nat /\ Len(b) \in Nat
  OBVIOUS
<1>2. /\ all \in Seq(Bytes) /\ Len(all) = Len(s) + Len(b)
      /\ \A n \in 1 .. Len(s) + Len(b) : all[n] = IF n <= Len(s) THEN s[n] ELSE b[n - Len(s)]
  BY ConcatProperties
<1>3. m <= Len(s) + Len(b) /\ m <= Cap /\ Put(s, b) = SubSeq(all, 1, m)
  BY <1>1, <1>2, CapAssumption DEF Put, Lesser
<1> HIDE DEF all
<1>4. 1 \in Int /\ m \in Int /\ \A n \in 1 .. m : all[n] \in Bytes
  BY <1>1, <1>2, <1>3
<1>5. /\ SubSeq(all, 1, m) \in Seq(Bytes) /\ Len(SubSeq(all, 1, m)) = IF 1 <= m THEN m - 1 + 1 ELSE 0
      /\ \A n \in 1 .. m - 1 + 1 : SubSeq(all, 1, m)[n] = all[1 + n - 1]
  BY <1>4, SubSeqProperties
<1>6. Len(SubSeq(all, 1, m)) = m
  BY <1>5
<1>7. ASSUME NEW n \in 1 .. m PROVE SubSeq(all, 1, m)[n] = IF n <= Len(s) THEN s[n] ELSE b[n - Len(s)]
  <2>1. n \in 1 .. m - 1 + 1 /\ 1 + n - 1 = n /\ n \in 1 .. Len(s) + Len(b)
    BY <1>1, <1>3
  <2>2. SubSeq(all, 1, m)[n] = all[1 + n - 1]
    BY <1>5, <2>1
  <2>3. all[n] = IF n <= Len(s) THEN s[n] ELSE b[n - Len(s)]
    BY <1>2, <2>1
  <2> QED
    BY <2>1, <2>2, <2>3
<1> QED
  BY <1>3, <1>5, <1>6, <1>7

LEMMA PutTypes ==
    ASSUME NEW s \in Seq(Bytes), NEW b \in Seq(Bytes)
    PROVE  Put(s, b) \in Seq(Bytes) /\ Len(Put(s, b)) <= Cap
<1> DEFINE m == Lesser(Len(s) + Len(b), Cap)
<1>1. Len(s) \in Nat /\ Len(b) \in Nat
  OBVIOUS
<1>2. m \in Nat /\ m <= Cap
  BY <1>1, CapAssumption DEF Lesser
<1>3. m = Lesser(Len(s) + Len(b), Cap)
  OBVIOUS
<1> HIDE DEF m
<1>4. Put(s, b) \in Seq(Bytes) /\ Len(Put(s, b)) = m
  BY <1>2, <1>3, PutIs, Zenon
<1> QED
  BY <1>2, <1>4

LEMMA RunIs ==
    ASSUME NEW n \in Nat
    PROVE  Run(n) \in Seq(Bytes) /\ Len(Run(n)) = n /\ \A m \in 1 .. n : Run(n)[m] = "c"
<1>1. Run(n) \in [1 .. n -> Bytes]
  BY DEF Run, Bytes
<1> QED
  BY <1>1 DEF Run

\* A character goes behind the others, up to the end of the buffer.
LEMMA RunGrows ==
    ASSUME NEW n \in 0 .. Cap
    PROVE  /\ Lesser(n + 1, Cap) \in 0 .. Cap
           /\ Put(Run(n), <<"c">>) = Run(Lesser(n + 1, Cap))
<1> DEFINE m == Lesser(n + 1, Cap)
           one == <<"c">>
<1>1. m \in Nat /\ m <= n + 1 /\ m <= Cap /\ n \in Nat
  BY CapAssumption DEF Lesser
<1>2. one \in Seq(Bytes) /\ Len(one) = 1 /\ one[1] = "c"
  BY DEF Bytes
<1> HIDE DEF one
<1>3. Run(n) \in Seq(Bytes) /\ Len(Run(n)) = n /\ \A p \in 1 .. n : Run(n)[p] = "c"
  BY <1>1, RunIs
<1>4. m = Lesser(Len(Run(n)) + Len(one), Cap)
  BY <1>2, <1>3
<1> HIDE DEF m
<1>5. /\ Put(Run(n), one) \in Seq(Bytes) /\ Len(Put(Run(n), one)) = m
      /\ \A p \in 1 .. m : Put(Run(n), one)[p] = IF p <= Len(Run(n)) THEN Run(n)[p] ELSE one[p - Len(Run(n))]
  <2>1. Run(n) \in Seq(Bytes) /\ one \in Seq(Bytes) /\ m \in Nat
    BY <1>1, <1>2, <1>3
  <2> QED
    BY <1>4, <2>1, PutIs, Zenon
<1>6. Run(m) \in Seq(Bytes) /\ Len(Run(m)) = m /\ \A p \in 1 .. m : Run(m)[p] = "c"
  BY <1>1, RunIs
<1>7. ASSUME NEW p \in 1 .. m PROVE Put(Run(n), one)[p] = Run(m)[p]
  <2>1. CASE p <= n
    BY <1>1, <1>3, <1>5, <1>6, <2>1
  <2>2. CASE ~(p <= n)
    <3>1. p - n = 1
      BY <1>1, <2>2
    <3> QED
      BY <1>1, <1>2, <1>3, <1>5, <1>6, <2>2, <3>1
  <2> QED
    BY <2>1, <2>2
<1>8. Put(Run(n), one) = Run(m)
  BY <1>5, <1>6, <1>7, SeqEqual
<1> QED
  BY <1>1, <1>8, CapAssumption DEF m, one

\* The zero byte.
LEMMA RunEnds ==
    ASSUME NEW n \in 0 .. Cap, n < Cap
    PROVE  Put(Run(n), <<"0">>) = [p \in 1 .. n + 1 |-> IF p <= n THEN "c" ELSE "0"]
<1> DEFINE m == n + 1
           zero == <<"0">>
           whole == [p \in 1 .. n + 1 |-> IF p <= n THEN "c" ELSE "0"]
<1>1. m \in Nat /\ m <= Cap /\ n \in Nat
  BY CapAssumption
<1>2. zero \in Seq(Bytes) /\ Len(zero) = 1 /\ zero[1] = "0"
  BY DEF Bytes
<1> HIDE DEF zero
<1>3. Run(n) \in Seq(Bytes) /\ Len(Run(n)) = n /\ \A p \in 1 .. n : Run(n)[p] = "c"
  BY <1>1, RunIs
<1>4. m = Lesser(Len(Run(n)) + Len(zero), Cap)
  BY <1>1, <1>2, <1>3, CapAssumption DEF Lesser
<1>5. whole \in [1 .. m -> Bytes] /\ \A p \in 1 .. m : whole[p] = IF p <= n THEN "c" ELSE "0"
  BY DEF Bytes
<1> HIDE DEF whole
<1>6. whole \in Seq(Bytes) /\ Len(whole) = m
  BY <1>1, <1>5
<1> HIDE DEF m
<1>7. /\ Put(Run(n), zero) \in Seq(Bytes) /\ Len(Put(Run(n), zero)) = m
      /\ \A p \in 1 .. m : Put(Run(n), zero)[p] = IF p <= Len(Run(n)) THEN Run(n)[p] ELSE zero[p - Len(Run(n))]
  <2>1. Run(n) \in Seq(Bytes) /\ zero \in Seq(Bytes) /\ m \in Nat
    BY <1>1, <1>2, <1>3
  <2> QED
    BY <1>4, <2>1, PutIs, Zenon
<1>8. ASSUME NEW p \in 1 .. m PROVE Put(Run(n), zero)[p] = whole[p]
  <2>1. CASE p <= n
    BY <1>1, <1>3, <1>5, <1>7, <2>1
  <2>2. CASE ~(p <= n)
    <3>1. p - n = 1
      BY <1>1, <2>2 DEF m
    <3> QED
      BY <1>1, <1>2, <1>3, <1>5, <1>7, <2>2, <3>1
  <2> QED
    BY <2>1, <2>2
<1>9. Put(Run(n), zero) = whole
  BY <1>6, <1>7, <1>8, SeqEqual
<1> QED
  BY <1>9 DEF whole, zero

\* "1" or "0" for true and false.
LEMMA BoolIsWhole ==
    ASSUME 1 < Cap
    PROVE  Put(<<>>, <<"c", "0">>) = [p \in 1 .. 2 |-> IF p <= 1 THEN "c" ELSE "0"]
<1> DEFINE both == <<"c", "0">>
           whole == [p \in 1 .. 2 |-> IF p <= 1 THEN "c" ELSE "0"]
<1>1. both \in Seq(Bytes) /\ Len(both) = 2 /\ both[1] = "c" /\ both[2] = "0"
  BY DEF Bytes
<1>2. <<>> \in Seq(Bytes) /\ Len(<<>>) = 0
  BY EmptySeq
<1>3. 2 = Lesser(Len(<<>>) + Len(both), Cap) /\ 2 \in Nat
  BY <1>1, <1>2, CapAssumption DEF Lesser
<1> HIDE DEF both
<1>4. /\ Put(<<>>, both) \in Seq(Bytes) /\ Len(Put(<<>>, both)) = 2
      /\ \A p \in 1 .. 2 : Put(<<>>, both)[p] = IF p <= Len(<<>>) THEN <<>>[p] ELSE both[p - Len(<<>>)]
  BY <1>1, <1>2, <1>3, PutIs
<1>5. whole \in [1 .. 2 -> Bytes] /\ whole[1] = "c" /\ whole[2] = "0"
  BY DEF Bytes
<1> HIDE DEF whole
<1>6. whole \in Seq(Bytes) /\ Len(whole) = 2
  <2>1. \A n \in Nat : \A f \in [1 .. n -> Bytes] : f \in Seq(Bytes) /\ Len(f) = n
    OBVIOUS
  <2> QED
    BY <1>3, <1>5, <2>1, Zenon
<1>7. ASSUME NEW p \in 1 .. 2 PROVE Put(<<>>, both)[p] = whole[p]
  <2>1. Put(<<>>, both)[p] = both[p - 0] /\ p - 0 = p /\ p \in {1, 2}
    BY <1>2, <1>4
  <2> QED
    BY <1>1, <1>5, <2>1
<1>8. Put(<<>>, both) = whole
  BY <1>4, <1>6, <1>7, SeqEqual
<1> QED
  BY <1>8 DEF whole, both

-----------------------------------------------------------------------------
(* The text in every state *)

\* While a number or a string is read, the buffer holds its characters.
TextInv ==
    /\ text \in Seq(Bytes) /\ Len(text) <= Cap /\ chars \in 0 .. Cap
    /\ jsn.final = "OK" /\ jsn.at \in InNumber \cup {"string"} => text = Run(chars)
    /\ TextIsWhole

Untouched == text' = text /\ chars' = chars

\* A step that ends no token with a text, and goes on with none.
LEMMA TextKept ==
    ASSUME TextInv, Untouched, tok' \notin {"STRING", "NUMBER", "BOOL"},
           jsn'.final = "OK" /\ jsn'.at \in InNumber \cup {"string"} =>
               jsn.final = "OK" /\ jsn.at \in InNumber \cup {"string"}
    PROVE  TextInv'
BY DEF TextInv, Untouched, TextIsWhole

LEMMA TextBegins ==
    ASSUME TextInv, tok' \notin {"STRING", "NUMBER", "BOOL"},
           \/ text' = <<>> /\ chars' = 0
           \/ text' = Put(<<>>, <<"c">>) /\ chars' = Lesser(1, Cap)
    PROVE  TextInv'
<1>1. 0 \in 0 .. Cap /\ Run(0) = <<>>
  <2>1. Run(0) \in Seq(Bytes) /\ Len(Run(0)) = 0
    BY RunIs
  <2> QED
    BY <2>1, EmptySeq, CapAssumption
<1>2. chars' \in 0 .. Cap /\ text' = Run(chars')
  <2>1. CASE text' = <<>> /\ chars' = 0
    BY <1>1, <2>1
  <2>2. CASE text' = Put(<<>>, <<"c">>) /\ chars' = Lesser(1, Cap)
    <3>1. 0 + 1 = 1
      OBVIOUS
    <3>2. Lesser(0 + 1, Cap) \in 0 .. Cap /\ Put(Run(0), <<"c">>) = Run(Lesser(0 + 1, Cap))
      BY <1>1, RunGrows
    <3> QED
      BY <1>1, <2>2, <3>1, <3>2, Zenon
  <2> QED
    BY <2>1, <2>2
<1>3. chars' \in Nat /\ chars' <= Cap
  BY <1>2, CapAssumption
<1>4. text' \in Seq(Bytes) /\ Len(text') = chars'
  BY <1>2, <1>3, RunIs
<1> QED
  BY <1>2, <1>3, <1>4 DEF TextInv, TextIsWhole

LEMMA TextGrows ==
    ASSUME TextInv, jsn.final = "OK", jsn.at \in InNumber \cup {"string"}, NEW point, Accept(point)
    PROVE  TextInv'
<1>1. text = Run(chars) /\ chars \in 0 .. Cap
  BY DEF TextInv
<1>2. text' = Put(text, <<"c">>) /\ chars' = Lesser(chars + 1, Cap) /\ tok' = "OK"
  BY DEF Accept, Yields
<1>3. chars' \in 0 .. Cap /\ text' = Run(chars')
  BY <1>1, <1>2, RunGrows, Zenon
<1>4. chars' \in Nat /\ chars' <= Cap
  BY <1>3, CapAssumption
<1>5. text' \in Seq(Bytes) /\ Len(text') = chars'
  BY <1>3, <1>4, RunIs
<1> QED
  BY <1>2, <1>3, <1>4, <1>5 DEF TextInv, TextIsWhole

\* The zero byte behind a string or a number: json_stack_pop goes on in a container.
LEMMA TextEnds ==
    ASSUME TextInv, jsn.final = "OK", jsn.at \in InNumber \cup {"string"},
           text' = Put(text, <<"0">>), chars' = chars,
           ~(jsn'.final = "OK" /\ jsn'.at \in InNumber \cup {"string"})
    PROVE  TextInv'
<1>1. text = Run(chars) /\ chars \in 0 .. Cap /\ text \in Seq(Bytes)
  BY DEF TextInv
<1>2. <<"0">> \in Seq(Bytes)
  BY DEF Bytes
<1>3. text' \in Seq(Bytes) /\ Len(text') <= Cap
  BY <1>1, <1>2, PutTypes
<1>4. chars' < Cap => text' = [p \in 1 .. chars' + 1 |-> IF p <= chars' THEN "c" ELSE "0"]
  BY <1>1, RunEnds, Zenon
<1> QED
  BY <1>1, <1>3, <1>4 DEF TextInv, TextIsWhole

\* Where a value that is complete leaves the coroutine.
LEMMA PopLeaves ==
    ASSUME NEW j \in Coroutines, Sound(j)
    PROVE  ~(Pop(j).final = "OK" /\ Pop(j).at \in InNumber \cup {"string"})
<1>1. CASE j.stack = <<>>
  BY <1>1 DEF Pop, Coroutines
<1>2. CASE j.stack # <<>>
  <2>1. j.stack[Len(j.stack)] \in Held
    BY <1>2, KindsOfFront DEF Coroutines
  <2>2. Pop(j).at = j.stack[Len(j.stack)]
    BY <1>2 DEF Pop, Coroutines
  <2> QED
    BY <2>1, <2>2 DEF Held, InNumber
<1> QED
  BY <1>1, <1>2

\* The first character of a value, from a coroutine at its start.
LEMMA TextOfValue ==
    ASSUME TextInv, NEW j \in Coroutines, NEW ch \in Chars, Value(j, ch), j.at = "start"
    PROVE  TextInv'
<1>1. ASSUME jsn' = j, tok' = "OK", Untouched PROVE TextInv'
  BY <1>1, TextKept DEF InNumber
<1>2. ASSUME ch \in DOMAIN Rest, jsn' = [j EXCEPT !.at = "literal", !.rest = Rest[ch]], tok' = "OK", Untouched
      PROVE  TextInv'
  <2>1. jsn'.at = "literal"
    BY <1>2 DEF Coroutines
  <2> QED
    BY <1>2, <2>1, TextKept DEF InNumber
<1>3. ASSUME jsn' = [j EXCEPT !.at = IF ch = "[" THEN "array" ELSE "object"],
             tok' = (IF ch = "[" THEN "ARRAY_BEGIN" ELSE "OBJECT_BEGIN"), Untouched
      PROVE  TextInv'
  <2>1. jsn'.at \in {"array", "object"} /\ tok' \in {"ARRAY_BEGIN", "OBJECT_BEGIN"}
    BY <1>3 DEF Coroutines
  <2> QED
    BY <1>3, <2>1, TextKept DEF InNumber
<1>4. ASSUME jsn' = [j EXCEPT !.final = "ERROR"], tok' = "ERROR", Untouched PROVE TextInv'
  <2>1. jsn'.final = "ERROR"
    BY <1>4 DEF Coroutines
  <2> QED
    BY <1>4, <2>1, TextKept
<1>5. ASSUME tok' = "OK",
             \/ text' = <<>> /\ chars' = 0
             \/ text' = Put(<<>>, <<"c">>) /\ chars' = Lesser(1, Cap)
      PROVE  TextInv'
  BY <1>5, TextBegins
<1>6. CASE ch \in DOMAIN Rest /\ jsn' = [j EXCEPT !.at = "literal", !.rest = Rest[ch]] /\ tok' = "OK" /\ Untouched
  BY <1>2, <1>6
<1> QED
  BY <1>1, <1>3, <1>4, <1>5, <1>6 DEF Value, Untouched

LEMMA TextOfNested ==
    ASSUME Sound(jsn), TextInv, jsn.final = "OK", NEW point \in {"item", "member"}, NEW ch \in Chars,
           jsn.at \in {"array", "comma", "value"}, Kind(point) = Kind(jsn.at), Nested(Push(jsn, point), ch)
    PROVE  TextInv'
<1>1. jsn \in Coroutines /\ Len(jsn.stack) <= Depth /\ AllValues(jsn.stack)
  <2>1. \A n \in 1 .. Len(jsn.stack) : jsn.stack[n] \in Held
    BY DEF Sound, Coroutines
  <2> QED
    BY <2>1 DEF Sound, AllValues, Held
<1> DEFINE j == Push(jsn, point)
<1>2. j \in Coroutines /\ (j.final = "OK" => j.at = "start")
  BY <1>1, PushGives DEF Held, InArray, InObject
<1> HIDE DEF j
<1>3. CASE j.final = "OK" /\ Value(j, ch)
  BY <1>2, <1>3, TextOfValue
<1>4. CASE j.final = "ERROR" /\ jsn' = j /\ tok' = "ERROR" /\ Untouched
  BY <1>4, TextKept
<1> QED
  BY <1>3, <1>4 DEF Nested, Untouched, j

LEMMA TextOfLiteral ==
    ASSUME Sound(jsn), TextInv, NEW ch \in Chars, Literal(ch)
    PROVE  TextInv'
<1>1. jsn \in Coroutines /\ jsn.final = "OK" /\ jsn.at = "literal"
  BY DEF Sound, Literal, Running
<1> DEFINE j == [jsn EXCEPT !.rest = <<>>]
<1>2. j \in Coroutines /\ j.at = "literal" /\ j.stack = jsn.stack
  BY <1>1, EmptySeq DEF Coroutines
<1>3. Sound(j)
  BY <1>1, <1>2 DEF Sound
<1> HIDE DEF j
<1>4. ~(Pop(j).final = "OK" /\ Pop(j).at \in InNumber \cup {"string"})
  BY <1>2, <1>3, PopLeaves
<1>5. ASSUME jsn' = [jsn EXCEPT !.rest = Tail(@)], tok' = "OK", Untouched PROVE TextInv'
  <2>1. jsn'.at = "literal"
    BY <1>1, <1>5 DEF Coroutines
  <2> QED
    BY <1>5, <2>1, TextKept DEF InNumber
<1>6. ASSUME jsn' = Pop(j), tok' = "NULL", Untouched PROVE TextInv'
  BY <1>4, <1>6, TextKept
<1>7. ASSUME jsn' = Pop(j), tok' = "BOOL", text' = Put(<<>>, <<"c", "0">>), chars' = Lesser(1, Cap) PROVE TextInv'
  <2>1. chars' \in 0 .. Cap /\ (chars' < Cap => chars' = 1 /\ 1 < Cap)
    BY <1>7, CapAssumption DEF Lesser
  <2>2. <<>> \in Seq(Bytes) /\ <<"c", "0">> \in Seq(Bytes)
    BY EmptySeq DEF Bytes
  <2>3. text' \in Seq(Bytes) /\ Len(text') <= Cap
    BY <1>7, <2>2, PutTypes, Zenon
  <2>4. chars' < Cap => text' = [p \in 1 .. chars' + 1 |-> IF p <= chars' THEN "c" ELSE "0"]
    <3>1. 1 + 1 = 2
      OBVIOUS
    <3> QED
      BY <1>7, <2>1, <3>1, BoolIsWhole, Zenon
  <2> QED
    BY <1>4, <1>7, <2>1, <2>3, <2>4 DEF TextInv, TextIsWhole
<1>8. ASSUME Errs, Untouched PROVE TextInv'
  <2>1. jsn'.final = "ERROR" /\ tok' = "ERROR"
    BY <1>1, <1>8 DEF Errs, Coroutines
  <2> QED
    BY <1>8, <2>1, TextKept
<1> QED
  BY <1>5, <1>6, <1>7, <1>8 DEF Literal, Untouched, j

\* The last character of a text or the first behind it.
LEMMA TextOfNumber ==
    ASSUME Sound(jsn), TextInv, NEW ch \in Chars, NumberEnd(ch)
    PROVE  TextInv'
<1>1. /\ jsn \in Coroutines /\ Len(jsn.stack) <= Depth /\ jsn.final = "OK" /\ jsn.at \in InNumber
      /\ jsn.stack \in Seq(Held) /\ text' = Put(text, <<"0">>) /\ chars' = chars
  BY DEF Sound, Coroutines, NumberEnd, Running
<1>2. AllValues(jsn.stack)
  BY <1>1 DEF Sound, AllValues, Held, InNumber
<1> DEFINE j == Pop(jsn)
<1>3. /\ Sound(j) /\ j.final \in {"OK", "DONE"} /\ (j.final = "OK" => j.at \in {"item", "member"})
  BY <1>1, <1>2, PopGives
<1>4. jsn' = IF j.final = "OK" THEN Resumed(j, ch) ELSE j
  BY DEF NumberEnd
<1> HIDE DEF j
<1>5. CASE j.final = "OK"
  <2>1. j \in Coroutines /\ jsn' = Resumed(j, ch)
    BY <1>3, <1>4, <1>5 DEF Sound
  <2>2. ~(Resumed(j, ch).final = "OK" /\ Resumed(j, ch).at \in InNumber \cup {"string"})
    <3>1. CASE ch = " "
      BY <1>3, <1>5, <3>1 DEF Resumed, InNumber
    <3>2. CASE ch = ","
      <4>1. Resumed(j, ch).at \in {"comma", "ocomma"}
        BY <2>1, <3>2 DEF Resumed, Coroutines
      <4> QED
        BY <4>1 DEF InNumber
    <3>3. CASE ch \notin {" ", ","} /\ ch = Closing(j.at)
      <4>1. Resumed(j, ch) = Pop(j)
        BY <3>3 DEF Resumed
      <4> QED
        BY <1>3, <2>1, <4>1, PopLeaves
    <3>4. CASE ch \notin {" ", ","} /\ ch # Closing(j.at)
      BY <2>1, <3>4 DEF Resumed, Coroutines
    <3> QED
      BY <3>1, <3>2, <3>3, <3>4
  <2> QED
    BY <1>1, <2>1, <2>2, TextEnds
<1>6. CASE j.final # "OK"
  BY <1>1, <1>4, <1>6, TextEnds
<1> QED
  BY <1>5, <1>6

LEMMA TextOfParse ==
    ASSUME Sound(jsn), TextInv, NEW ch \in Chars, Parse(ch)
    PROVE  TextInv'
<1>1. jsn \in Coroutines /\ jsn.final \in {"OK", "DONE", "ERROR"}
  BY DEF Sound, Coroutines
<1>2. CASE Final
  BY <1>1, <1>2, TextKept DEF Final, Untouched
<1>3. ASSUME NEW point, Untouched, Yields(point, tok'), point \notin InNumber \cup {"string"},
             tok' \notin {"STRING", "NUMBER", "BOOL"}
      PROVE  TextInv'
  <2>1. jsn'.at = point
    BY <1>1, <1>3 DEF Yields, Coroutines
  <2> QED
    BY <1>3, <2>1, TextKept
<1>4. CASE SkipSpace
  <2>1. /\ Yields(IF jsn.at = "ocomma" THEN "okey" ELSE jsn.at, "OK") /\ Untouched
        /\ jsn.at \notin InNumber \cup {"string"}
    BY <1>4 DEF SkipSpace, Running, Untouched, InNumber
  <2>2. tok' = "OK"
    BY <2>1 DEF Yields
  <2> QED
    BY <1>3, <2>1, <2>2 DEF InNumber
<1>5. CASE Comma
  <2>1. jsn' = [jsn EXCEPT !.at = IF jsn.at = "item" THEN "comma" ELSE "ocomma"] /\ tok' = "OK" /\ Untouched
    BY <1>5 DEF Comma, Resumed, Untouched
  <2>2. jsn'.at \in {"comma", "ocomma"}
    BY <1>1, <2>1 DEF Coroutines
  <2> QED
    BY <2>1, <2>2, TextKept DEF InNumber
<1>6. CASE Colon
  <2>1. Yields("value", "OBJECT_VALUE") /\ Untouched
    BY <1>6 DEF Colon, Untouched
  <2>2. tok' = "OBJECT_VALUE"
    BY <2>1 DEF Yields
  <2> QED
    BY <1>3, <2>1, <2>2 DEF InNumber
<1>7. CASE StringEnd
  <2>1. /\ jsn.final = "OK" /\ jsn.at = "string" /\ jsn' = Pop(jsn) /\ text' = Put(text, <<"0">>) /\ chars' = chars
    BY <1>7 DEF StringEnd, Running
  <2>2. ~(jsn'.final = "OK" /\ jsn'.at \in InNumber \cup {"string"})
    BY <1>1, <2>1, PopLeaves
  <2> QED
    BY <2>1, <2>2, TextEnds
<1>8. CASE Key
  <2>1. tok' = "OBJECT_KEY"
    BY <1>8 DEF Key
  <2>2. \/ text' = <<>> /\ chars' = 0
        \/ jsn' = Push(jsn, "colon") /\ Push(jsn, "colon").final # "OK" /\ Untouched
    <3>1. CASE Push(jsn, "colon").final = "OK"
      BY <1>8, <3>1 DEF Key
    <3>2. CASE Push(jsn, "colon").final # "OK"
      BY <1>8, <3>2 DEF Key, Untouched
    <3> QED
      BY <3>1, <3>2
  <2>3. CASE text' = <<>> /\ chars' = 0
    BY <2>1, <2>3, TextBegins
  <2>4. CASE jsn' = Push(jsn, "colon") /\ Push(jsn, "colon").final # "OK" /\ Untouched
    BY <2>1, <2>4, TextKept
  <2> QED
    BY <2>2, <2>3, <2>4
<1>9. CASE Start(ch)
  BY <1>1, <1>9, TextOfValue DEF Start, Running
<1>10. CASE Literal(ch)
  BY <1>10, TextOfLiteral
<1>11. CASE StringChar(ch)
  BY <1>11, TextGrows DEF StringChar, Running
<1>12. CASE NumberChar(ch)
  <2>1. PICK step \in NumberSteps : Accept(step[3])
    BY <1>12 DEF NumberChar
  <2>2. jsn.final = "OK" /\ jsn.at \in InNumber
    BY <1>12 DEF NumberChar, Running
  <2> QED
    BY <2>1, <2>2, TextGrows
<1>13. CASE NumberEnd(ch)
  BY <1>13, TextOfNumber
<1>14. CASE End(ch)
  <2>1. /\ jsn' = Pop(jsn) /\ tok' \in {"ARRAY_END", "OBJECT_END"} /\ Untouched
    BY <1>14 DEF End, EndOf, Untouched
  <2>2. ~(jsn'.final = "OK" /\ jsn'.at \in InNumber \cup {"string"})
    BY <1>1, <2>1, PopLeaves
  <2> QED
    BY <2>1, <2>2, TextKept
<1>15. CASE Item(ch)
  <2>1. jsn.final = "OK" /\ jsn.at \in {"array", "comma"} /\ Nested(Push(jsn, "item"), ch)
    BY <1>15 DEF Item, Running
  <2>2. Kind("item") = Kind(jsn.at)
    BY <2>1 DEF Kind, InArray
  <2> QED
    BY <2>1, <2>2, TextOfNested
<1>16. CASE Member(ch)
  <2>1. jsn.final = "OK" /\ jsn.at = "value" /\ Nested(Push(jsn, "member"), ch)
    BY <1>16 DEF Member, Running
  <2>2. Kind("member") = Kind(jsn.at)
    BY <2>1 DEF Kind, InArray
  <2> QED
    BY <2>1, <2>2, TextOfNested
<1>17. CASE Unexpected(ch)
  <2>1. jsn' = [jsn EXCEPT !.final = "ERROR"] /\ tok' = "ERROR" /\ Untouched
    BY <1>17 DEF Unexpected, Errs, Untouched
  <2>2. jsn'.final = "ERROR"
    BY <1>1, <2>1 DEF Coroutines
  <2> QED
    BY <2>1, <2>2, TextKept
<1> QED
  BY <1>2, <1>4, <1>5, <1>6, <1>7, <1>8, <1>9, <1>10, <1>11, <1>12, <1>13, <1>14, <1>15, <1>16, <1>17 DEF Parse

LEMMA JsonInvariant == Spec => [](Sound(jsn) /\ TextInv)
<1>1. Init => Sound(jsn) /\ TextInv
  <2> SUFFICES ASSUME Init PROVE Sound(jsn) /\ TextInv
    OBVIOUS
  <2>1. jsn = Fresh /\ text = <<>> /\ tok = "OK" /\ chars = 0
    BY DEF Init
  <2>2. jsn.final = "OK" /\ jsn.at = "start"
    BY <2>1 DEF Fresh
  <2>3. <<>> \in Seq(Bytes) /\ Len(<<>>) = 0
    BY EmptySeq
  <2>4. TextInv
    BY <2>1, <2>2, <2>3, CapAssumption DEF TextInv, TextIsWhole, InNumber
  <2> QED
    BY <2>1, <2>4, FreshIsSound
<1>2. Sound(jsn) /\ TextInv /\ [Next]_vars => (Sound(jsn) /\ TextInv)'
  <2> SUFFICES ASSUME Sound(jsn), TextInv, [Next]_vars PROVE Sound(jsn') /\ TextInv'
    BY DEF Sound
  <2>1. CASE UNCHANGED vars
    BY <2>1 DEF vars, TextInv, TextIsWhole
  <2>2. CASE Reinit
    <3>1. jsn' = Fresh /\ tok' = "OK" /\ Untouched
      BY <2>2 DEF Reinit, Untouched
    <3>2. jsn'.at = "start"
      BY <3>1 DEF Fresh
    <3> QED
      BY <3>1, <3>2, FreshIsSound, TextKept DEF InNumber
  <2>3. ASSUME NEW ch \in Chars, Parse(ch) PROVE Sound(jsn') /\ TextInv'
    BY <2>3, ParseFollows, TextOfParse DEF Follows
  <2> QED
    BY <2>1, <2>2, <2>3 DEF Next
<1> QED
  BY <1>1, <1>2, PTL DEF Spec

\* Types, for any depth and capacity: the stack never outgrows its slots nor the text
\* its buffer.
THEOREM TypeCorrect == Spec => []TypeOK
<1>1. Sound(jsn) /\ TextInv => TypeOK
  BY DEF Sound, TextInv, TypeOK, Coroutines, Held, Bytes
<1> QED
  BY <1>1, JsonInvariant, PTL

\* The text of a string, a number or a boolean is whole where it fits, for a buffer of
\* any capacity and whatever was parsed into it before.
THEOREM TextsAreWhole == Spec => []TextIsWhole
<1>1. Sound(jsn) /\ TextInv => TextIsWhole
  BY DEF TextInv
<1> QED
  BY <1>1, JsonInvariant, PTL

-----------------------------------------------------------------------------
(* Recursive functions *)

\* Induction over the numbers, as a set that contains its successors.
LEMMA SetInduction ==
    ASSUME NEW S, 0 \in S, \A n \in Nat : n \in S => n + 1 \in S
    PROVE  \A n \in Nat : n \in S
<1> DEFINE Less == {p \in Nat \X Nat : p[1] < p[2]}
<1> SUFFICES ASSUME Nat \ S # {} PROVE FALSE
  OBVIOUS
<1>1. IsWellFoundedOn(Less, Nat)
  BY NatLessThanWellFounded DEF OpToRel
<1>2. PICK x \in Nat \ S : \A y \in Nat \ S : <<y, x>> \notin Less
  <2>1. Nat \ S \subseteq Nat
    OBVIOUS
  <2> QED
    BY <1>1, <2>1, WFMin
<1>3. x - 1 \in Nat /\ <<x - 1, x>> \in Less
  OBVIOUS
<1> QED
  BY <1>2, <1>3

\* What is built step by step, from base on and by step[m] in the m-th of n steps.
Builds(set, base, step, n, f) ==
    /\ f \in [0 .. n -> set] /\ f[0] = base
    /\ \A m \in 1 .. n : f[m] = step[m][f[m - 1]]

LEMMA Built ==
    ASSUME NEW set, NEW base \in set, NEW n \in Nat, NEW step \in [1 .. n -> [set -> set]]
    PROVE  \E f : Builds(set, base, step, n, f)
<1> DEFINE S == {m \in Nat : m <= n => \E f : Builds(set, base, step, m, f)}
<1>1. 0 \in S
  <2>1. Builds(set, base, step, 0, [m \in 0 .. 0 |-> base])
    BY DEF Builds
  <2> QED
    BY <2>1
<1>2. ASSUME NEW m \in Nat, m \in S PROVE m + 1 \in S
  <2> SUFFICES ASSUME m + 1 <= n PROVE \E f : Builds(set, base, step, m + 1, f)
    OBVIOUS
  <2>1. PICK f : Builds(set, base, step, m, f)
    BY <1>2
  <2> DEFINE g == [p \in 0 .. m + 1 |-> IF p <= m THEN f[p] ELSE step[m + 1][f[m]]]
  <2>2. f[m] \in set /\ \A p \in 0 .. m : f[p] \in set
    BY <2>1 DEF Builds
  <2>3. m + 1 \in 1 .. n
    OBVIOUS
  <2>4. step[m + 1] \in [set -> set]
    BY <2>3
  <2>5. step[m + 1][f[m]] \in set
    BY <2>2, <2>4
  <2>6. g \in [0 .. m + 1 -> set] /\ g[0] = base
    BY <2>1, <2>2, <2>5 DEF Builds
  <2>7. ASSUME NEW p \in 1 .. m + 1 PROVE g[p] = step[p][g[p - 1]]
    <3>1. p \in 0 .. m + 1 /\ p - 1 \in 0 .. m + 1 /\ p - 1 <= m /\ g[p - 1] = f[p - 1]
      OBVIOUS
    <3>2. CASE p <= m
      BY <2>1, <3>1, <3>2 DEF Builds
    <3>3. CASE ~(p <= m)
      <4>1. p = m + 1 /\ p - 1 = m
        BY <3>3
      <4> QED
        BY <3>1, <3>3, <4>1
    <3> QED
      BY <3>2, <3>3
  <2> HIDE DEF g
  <2>8. Builds(set, base, step, m + 1, g)
    BY <2>6, <2>7 DEF Builds
  <2> QED
    BY <2>8
<1>3. \A m \in Nat : m \in S
  <2> HIDE DEF S
  <2> QED
    BY <1>1, <1>2, SetInduction
<1> QED
  BY <1>3

\* What holds at the beginning and is kept by every step holds throughout.
LEMMA StaysIn ==
    ASSUME NEW set, NEW n \in Nat, NEW f, f[0] \in set, \A m \in 1 .. n : f[m - 1] \in set => f[m] \in set
    PROVE  \A m \in 0 .. n : f[m] \in set
<1> DEFINE S == {m \in Nat : m <= n => f[m] \in set}
<1>1. 0 \in S
  OBVIOUS
<1>2. ASSUME NEW m \in Nat, m \in S PROVE m + 1 \in S
  <2> SUFFICES ASSUME m + 1 <= n PROVE f[m + 1] \in set
    OBVIOUS
  <2>1. m + 1 \in 1 .. n /\ (m + 1) - 1 = m /\ f[m] \in set
    BY <1>2
  <2> QED
    BY <2>1
<1>3. \A m \in Nat : m \in S
  <2> HIDE DEF S
  <2> QED
    BY <1>1, <1>2, SetInduction
<1> QED
  BY <1>3

-----------------------------------------------------------------------------
(* The grammar: what is kept of a row of tokens *)

Toks == {"NULL", "BOOL", "STRING", "NUMBER", "ARRAY_BEGIN", "ARRAY_END", "OBJECT_BEGIN", "OBJECT_END",
         "OBJECT_KEY", "OBJECT_VALUE"}
Ends == {"ARRAY_END", "OBJECT_END"}
Returned == Toks \cup {"DONE", "ERROR"}

KeptOf(toks, drop, f) ==
    /\ f \in [0..Len(toks) -> Seq(Returned)] /\ f[0] = <<>>
    /\ \A n \in 1..Len(toks) : f[n] = IF toks[n] \in drop THEN f[n - 1] ELSE Append(f[n - 1], toks[n])

LEMMA WithoutIs ==
    ASSUME NEW toks \in Seq(Returned), NEW drop
    PROVE  \E f : KeptOf(toks, drop, f) /\ Without(toks, drop) = f[Len(toks)]
<1> DEFINE n == Len(toks)
           Next1(x, m) == IF toks[m] \in drop THEN x ELSE Append(x, toks[m])
           Loop(f) == f = [m \in 0..n |-> IF m = 0 THEN <<>> ELSE Next1(f[m - 1], m)]
           f == CHOOSE f : Loop(f)
           step == [m \in 1..n |-> [x \in Seq(Returned) |-> Next1(x, m)]]
<1>1. n \in Nat /\ \A m \in 1..n : toks[m] \in Returned
  OBVIOUS
<1>2. Without(toks, drop) = f[n]
  BY DEF Without
<1> HIDE DEF n
<1>3. step \in [1..n -> [Seq(Returned) -> Seq(Returned)]]
  BY <1>1
<1>4. PICK h : Builds(Seq(Returned), <<>>, step, n, h)
  <2> HIDE DEF step
  <2>1. <<>> \in Seq(Returned)
    OBVIOUS
  <2> QED
    BY <1>1, <1>3, <2>1, Built
<1>5. h \in [0..n -> Seq(Returned)] /\ h[0] = <<>> /\ \A m \in 1..n : h[m] = Next1(h[m - 1], m)
  <2>1. h \in [0..n -> Seq(Returned)] /\ h[0] = <<>> /\ \A m \in 1..n : h[m] = step[m][h[m - 1]]
    BY <1>4 DEF Builds
  <2>2. \A m \in 1..n : m - 1 \in 0..n
    BY <1>1
  <2> HIDE DEF Next1
  <2> QED
    BY <2>1, <2>2
<1> HIDE DEF Next1, step
<1>6. Loop(h)
  BY <1>5
<1>7. Loop(f)
  BY <1>6
<1> HIDE DEF f
<1>8. /\ f[0] = <<>> /\ \A m \in 1..n : f[m] = Next1(f[m - 1], m)
      /\ DOMAIN f = 0..n
  <2>1. f = [m \in 0..n |-> IF m = 0 THEN <<>> ELSE Next1(f[m - 1], m)]
    BY <1>7
  <2>2. 0 \in 0..n /\ \A m \in 1..n : m \in 0..n /\ m # 0
    BY <1>1
  <2> HIDE DEF Loop
  <2> QED
    BY <2>1, <2>2
<1>9. \A m \in 0..n : f[m] \in Seq(Returned)
  <2>1. f[0] \in Seq(Returned)
    BY <1>8
  <2>2. ASSUME NEW m \in 1..n, f[m - 1] \in Seq(Returned) PROVE f[m] \in Seq(Returned)
    <3> DEFINE x == f[m - 1]
    <3>1. toks[m] \in Returned /\ x \in Seq(Returned) /\ f[m] = Next1(x, m)
      BY <1>1, <1>8, <2>2
    <3> HIDE DEF x
    <3>2. Append(x, toks[m]) \in Seq(Returned)
      BY <3>1
    <3> QED
      BY <3>1, <3>2 DEF Next1
  <2> QED
    BY <1>1, <2>1, <2>2, StaysIn
<1>10. f \in [0..n -> Seq(Returned)]
  <2>1. f = [m \in 0..n |-> f[m]]
    BY <1>7
  <2> QED
    BY <1>9, <2>1
<1>11. KeptOf(toks, drop, f)
  BY <1>8, <1>10 DEF KeptOf, n, Next1
<1> QED
  BY <1>2, <1>11 DEF n

\* One token more is dropped, or kept behind the others.
LEMMA WithoutMore ==
    ASSUME NEW toks \in Seq(Returned), NEW t \in Returned, NEW drop
    PROVE  Without(Append(toks, t), drop) = IF t \in drop THEN Without(toks, drop) ELSE Append(Without(toks, drop), t)
<1> DEFINE n == Len(toks)
           m == n + 1
           more == Append(toks, t)
<1>1. n \in Nat /\ more \in Seq(Returned) /\ Len(more) = m /\ more[m] = t /\ \A p \in 1..n : more[p] = toks[p]
  OBVIOUS
<1>2. PICK f : KeptOf(toks, drop, f) /\ Without(toks, drop) = f[n]
  BY WithoutIs
<1>3. PICK g : KeptOf(more, drop, g) /\ Without(more, drop) = g[m]
  BY <1>1, WithoutIs
<1>4. f[0] = <<>> /\ \A p \in 1..n : f[p] = IF toks[p] \in drop THEN f[p - 1] ELSE Append(f[p - 1], toks[p])
  BY <1>2 DEF KeptOf
<1>5. g[0] = <<>> /\ \A p \in 1..m : g[p] = IF more[p] \in drop THEN g[p - 1] ELSE Append(g[p - 1], more[p])
  BY <1>1, <1>3 DEF KeptOf
<1> HIDE DEF more
<1> DEFINE S == {p \in Nat : p <= n => f[p] = g[p]}
<1>6. 0 \in S
  BY <1>4, <1>5
<1>7. ASSUME NEW p \in Nat, p \in S PROVE p + 1 \in S
  <2> SUFFICES ASSUME p + 1 <= n PROVE f[p + 1] = g[p + 1]
    OBVIOUS
  <2> DEFINE q == p + 1
  <2>1. q \in 1..n /\ q \in 1..m /\ q - 1 = p /\ f[p] = g[p]
    BY <1>1, <1>7
  <2> HIDE DEF q
  <2>2. f[q] = g[q]
    BY <1>1, <1>4, <1>5, <2>1
  <2> QED
    BY <2>2 DEF q
<1>8. \A p \in Nat : p \in S
  <2> HIDE DEF S
  <2> QED
    BY <1>6, <1>7, SetInduction
<1>9. f[n] = g[n] /\ m \in 1..m /\ m - 1 = n
  BY <1>1, <1>8
<1> HIDE DEF n, m
<1> QED
  BY <1>1, <1>2, <1>3, <1>5, <1>9 DEF more
-----------------------------------------------------------------------------
(* The grammar: how the coroutine moves through a document *)

Stacks == Seq(Held)
Texts == Seq(Chars)
Tokenses == Seq(Toks)

\* The coroutine at a point with its stack, in a literal, and when it is done;
\* where it was when it was done does not matter.
At(point, s) == [at |-> point, rest |-> <<>>, stack |-> s, final |-> "OK"]
InLiteral(r, s) == [at |-> "literal", rest |-> r, stack |-> s, final |-> "OK"]
Complete == [at |-> "start", rest |-> <<>>, stack |-> <<>>, final |-> "DONE"]
Plain(j) == IF j.final = "DONE" THEN Complete ELSE j

\* Behind a value that was begun on the stack s.
Top(s) == s[Len(s)]
Ended(s) == IF s = <<>> THEN Complete ELSE At(Top(s), SubSeq(s, 1, Len(s) - 1))

Begins(s, c, k, t) ==
    \/ c \in DOMAIN Rest /\ k = InLiteral(Rest[c], s) /\ t = "OK"
    \/ c = Quote /\ k = At("string", s) /\ t = "OK"
    \/ c = "[" /\ k = At("array", s) /\ t = "ARRAY_BEGIN"
    \/ c = "{" /\ k = At("object", s) /\ t = "OBJECT_BEGIN"
    \/ c = "+" /\ k = At("int", s) /\ t = "OK"
    \/ c = "." /\ k = At("frac", s) /\ t = "OK"

\* What may come behind a value.
Behind(s, c, k, t) ==
    \/ s = <<>> /\ c = " " /\ k = Complete /\ t = "DONE"
    \/ /\ s # <<>> /\ Top(s) \in {"item", "member"}
       /\ \/ c = " " /\ k = Ended(s) /\ t = "OK"
          \/ /\ c = "," /\ t = "OK"
             /\ k = At(IF Top(s) = "item" THEN "comma" ELSE "ocomma", SubSeq(s, 1, Len(s) - 1))
          \/ /\ c = Closing(Top(s)) /\ t = EndOf(Top(s))
             /\ k = Ended(SubSeq(s, 1, Len(s) - 1))

\* The steps of the parser within a document.
StartMoves(s, j, c, k, t) ==
    \/ j = At("start", s) /\ Begins(s, c, k, t)
    \/ j \in {At("array", s), At("comma", s)} /\ Len(s) < Depth /\ Begins(Append(s, "item"), c, k, t)
    \/ j = At("value", s) /\ Len(s) < Depth /\ Begins(Append(s, "member"), c, k, t)
LiteralMoves(s, j, c, k, t) ==
    \/ \E r \in Texts : r # <<>> /\ j = InLiteral(<<c>> \o r, s) /\ k = InLiteral(r, s) /\ t = "OK"
    \/ j = InLiteral(<<c>>, s) /\ k = Ended(s) /\ ((c = "l" /\ t = "NULL") \/ (c = "e" /\ t = "BOOL"))
StringMoves(s, j, c, k, t) ==
    \/ j = At("string", s) /\ c # Quote /\ k = j /\ t = "OK"
    \/ j = At("string", s) /\ c = Quote /\ k = Ended(s) /\ t = "STRING"
    \/ /\ j \in {At("object", s), At("ocomma", s)} /\ Len(s) < Depth
       /\ c = Quote /\ k = At("string", Append(s, "colon")) /\ t = "OBJECT_KEY"
NumberMoves(s, j, c, k, t) ==
    \/ \E p, q \in InNumber : <<p, c, q>> \in NumberSteps /\ j = At(p, s) /\ k = At(q, s) /\ t = "OK"
    \/ \E p \in {"frac", "exp"}, u \in {"OK", "DONE"} \cup Ends : j = At(p, s) /\ Behind(s, c, k, u) /\ t = "NUMBER"
ContainerMoves(s, j, c, k, t) ==
    \/ j = Ended(s) /\ Behind(s, c, k, t)
    \/ \E p \in {"array", "object"} : j = At(p, s) /\ c = Closing(p) /\ k = Ended(s) /\ t = EndOf(p)
    \/ j = At("colon", s) /\ c = ":" /\ k = At("value", s) /\ t = "OBJECT_VALUE"

Moves(j, c, k, t) ==
    \E s \in Stacks :
      \/ StartMoves(s, j, c, k, t) \/ LiteralMoves(s, j, c, k, t) \/ StringMoves(s, j, c, k, t)
      \/ NumberMoves(s, j, c, k, t) \/ ContainerMoves(s, j, c, k, t)

\* A call as it is when the coroutine is at a point.
LEMMA ParseAt ==
    ASSUME NEW ch, NEW point, NEW s, jsn = At(point, s), Parse(ch)
    PROVE  /\ point = "start" => (ch = " " /\ SkipSpace) \/ Start(ch)
           /\ point = "string" => IF ch = Quote THEN StringEnd ELSE StringChar(ch)
           /\ point \in InNumber => NumberChar(ch) \/ NumberEnd(ch)
           /\ point \in {"array", "comma"} => (ch = " " /\ SkipSpace) \/ End(ch) \/ Item(ch)
           /\ point \in {"item", "member"} => (ch = " " /\ SkipSpace) \/ (ch = "," /\ Comma) \/ End(ch) \/ Unexpected(ch)
           /\ point \in {"object", "ocomma"} => (ch = " " /\ SkipSpace) \/ (ch = Quote /\ Key) \/ End(ch) \/ Unexpected(ch)
           /\ point = "colon" => (ch = " " /\ SkipSpace) \/ (ch = ":" /\ Colon) \/ Unexpected(ch)
           /\ point = "value" => Member(ch)
<1>1. jsn.final = "OK" /\ jsn.at = point
  BY DEF At
<1>2. \/ ch = " " /\ SkipSpace
      \/ ch = "," /\ Comma
      \/ ch = ":" /\ Colon
      \/ ch = Quote /\ (StringEnd \/ Key)
      \/ Start(ch) \/ Literal(ch) \/ StringChar(ch) \/ NumberChar(ch) \/ NumberEnd(ch)
      \/ End(ch) \/ Item(ch) \/ Member(ch) \/ Unexpected(ch)
  BY <1>1 DEF Parse, Final
<1>3. /\ SkipSpace => point \in {"start", "array", "item", "object", "member", "colon", "ocomma", "okey"}
      /\ Comma => point \in {"item", "member"}
      /\ Colon => point = "colon"
      /\ StringEnd => point = "string"
      /\ Key => point \in {"object", "ocomma", "okey"}
      /\ Start(ch) => point = "start"
      /\ Literal(ch) => point = "literal"
      /\ StringChar(ch) => point = "string" /\ ch # Quote
      /\ NumberChar(ch) \/ NumberEnd(ch) => point \in InNumber
      /\ End(ch) => point \in {"array", "item", "comma", "object", "member", "ocomma"}
      /\ Item(ch) => point \in {"array", "comma"}
      /\ Member(ch) => point = "value"
      /\ Unexpected(ch) => point \in {"item", "member", "object", "ocomma", "okey", "colon"}
  BY <1>1 DEF SkipSpace, Comma, Colon, StringEnd, Key, Start, Literal, StringChar, NumberChar, NumberEnd, End, Item,
              Member, Unexpected, Running
<1> QED
  BY <1>2, <1>3 DEF InNumber

LEMMA StacksAre ==
    ASSUME NEW s \in Stacks, NEW p \in Held
    PROVE  /\ Append(s, p) \in Stacks /\ Append(s, p) # <<>> /\ Top(Append(s, p)) = p
           /\ SubSeq(Append(s, p), 1, Len(Append(s, p)) - 1) = s
           /\ Ended(Append(s, p)) = At(p, s)
<1>1. Append(s, p) \in Stacks /\ Len(Append(s, p)) = Len(s) + 1 /\ Len(s) \in Nat /\ Append(s, p)[Len(s) + 1] = p
  BY DEF Stacks
<1>2. Append(s, p) # <<>>
  BY <1>1, EmptySeq
<1>3. SubSeq(Append(s, p), 1, Len(s)) = s
  BY DEF Stacks
<1>4. (Len(s) + 1) - 1 = Len(s)
  BY <1>1
<1> QED
  BY <1>1, <1>2, <1>3, <1>4 DEF Ended, Top

LEMMA Popped ==
    ASSUME NEW s, NEW j, NEW point, j = [at |-> point, rest |-> <<>>, stack |-> s, final |-> "OK"]
    PROVE  Plain(Pop(j)) = Ended(s)
<1>1. CASE s = <<>>
  <2>1. Pop(j).final = "DONE"
    BY <1>1 DEF Pop
  <2> QED
    BY <1>1, <2>1 DEF Plain, Ended
<1>2. CASE s # <<>>
  <2>1. j.stack = s /\ j.at = point
    OBVIOUS
  <2>2. Pop(j) = [j EXCEPT !.at = s[Len(s)], !.stack = SubSeq(s, 1, Len(s) - 1)]
    BY <1>2, <2>1 DEF Pop
  <2> DEFINE at == s[Len(s)]
             front == SubSeq(s, 1, Len(s) - 1)
  <2>3. Pop(j) = [j EXCEPT !.at = at, !.stack = front] /\ Ended(s) = [at |-> at, rest |-> <<>>, stack |-> front, final |-> "OK"]
    BY <1>2, <2>2 DEF Ended, At, Top
  <2> HIDE DEF at, front
  <2>4. Pop(j) = [at |-> at, rest |-> <<>>, stack |-> front, final |-> "OK"]
    BY <2>3
  <2> QED
    BY <2>3, <2>4 DEF Plain
<1> QED
  BY <1>1, <1>2

LEMMA ValueMoves ==
    ASSUME NEW s, NEW c, NEW k, NEW t, Begins(s, c, k, t), Value(At("start", s), c)
    PROVE  Plain(jsn') = k /\ tok' = t
BY DEF Begins, Value, At, InLiteral, Plain, Rest, Quote
LEMMA BeginsWith ==
    ASSUME NEW s, NEW c, NEW k, NEW t, Begins(s, c, k, t)
    PROVE  c \notin {" ", "]", "}", ",", ":"}
BY DEF Begins, Rest, Quote

LEMMA PushMoves ==
    ASSUME NEW s, NEW p, NEW j, NEW point, j = At(point, s), Len(s) < Depth
    PROVE  Push(j, p) = At("start", Append(s, p))
BY DEF Push, At

LEMMA StartHappens ==
    ASSUME NEW s, NEW c, NEW k, NEW t, StartMoves(s, jsn, c, k, t), Parse(c)
    PROVE  Plain(jsn') = k /\ tok' = t
<1>1. CASE jsn = At("start", s) /\ Begins(s, c, k, t)
  <2>1. Start(c)
    BY <1>1, BeginsWith, ParseAt
  <2> QED
    BY <1>1, <2>1, ValueMoves DEF Start
<1>2. CASE jsn \in {At("array", s), At("comma", s)} /\ Len(s) < Depth /\ Begins(Append(s, "item"), c, k, t)
  <2>1. PICK point \in {"array", "comma"} : jsn = At(point, s)
    BY <1>2
  <2>2. c \notin {" ", "]"}
    BY <1>2, BeginsWith
  <2>3. ~End(c)
    BY <2>1, <2>2 DEF End, Closing, At, InArray
  <2>4. Item(c)
    BY <2>1, <2>2, <2>3, ParseAt
  <2>5. Push(jsn, "item") = At("start", Append(s, "item"))
    BY <1>2, <2>1, PushMoves
  <2>6. Value(At("start", Append(s, "item")), c)
    <3> DEFINE j == At("start", Append(s, "item"))
    <3>1. Nested(Push(jsn, "item"), c)
      BY <2>4 DEF Item
    <3>2. Nested(j, c) /\ j.final = "OK"
      BY <2>5, <3>1 DEF At
    <3> HIDE DEF j
    <3>3. Value(j, c)
      BY <3>2 DEF Nested
    <3> QED
      BY <3>3 DEF j
  <2> QED
    BY <1>2, <2>6, ValueMoves
<1>3. CASE jsn = At("value", s) /\ Len(s) < Depth /\ Begins(Append(s, "member"), c, k, t)
  <2>1. Member(c)
    BY <1>3, ParseAt
  <2>2. Push(jsn, "member") = At("start", Append(s, "member"))
    BY <1>3, PushMoves
  <2>3. Value(At("start", Append(s, "member")), c)
    BY <2>1, <2>2 DEF Member, Nested, At
  <2> QED
    BY <1>3, <2>3, ValueMoves
<1> QED
  BY <1>1, <1>2, <1>3 DEF StartMoves

LEMMA LiteralHappens ==
    ASSUME NEW s, NEW c \in Chars, NEW k, NEW t, LiteralMoves(s, jsn, c, k, t), Parse(c)
    PROVE  Plain(jsn') = k /\ tok' = t
<1>1. PICK r \in Texts : jsn = InLiteral(<<c>> \o r, s)
  <2>1. <<>> \in Texts /\ <<c>> = <<c>> \o <<>>
    BY DEF Texts
  <2> QED
    BY <2>1 DEF LiteralMoves
<1>2. Literal(c)
  BY <1>1 DEF Parse, Final, SkipSpace, Comma, Colon, StringEnd, Key, Start, StringChar, NumberChar, NumberEnd, End, Item,
              Member, Unexpected, Running, InLiteral, InNumber
<1>3. /\ jsn.rest = <<c>> \o r /\ jsn.rest[1] = c /\ Tail(jsn.rest) = r /\ Len(jsn.rest) = 1 + Len(r) /\ Len(r) \in Nat
      /\ r = <<>> <=> Len(r) = 0
  BY <1>1 DEF InLiteral, Texts
<1>4. CASE r # <<>>
  <2>1. jsn' = [jsn EXCEPT !.rest = Tail(jsn.rest)] /\ tok' = "OK"
    BY <1>2, <1>3, <1>4 DEF Literal
  <2>2. jsn' = InLiteral(r, s)
    BY <1>1, <1>3, <2>1 DEF InLiteral
  <2>3. k = InLiteral(r, s) /\ t = "OK"
    <3>1. ASSUME NEW q \in Texts, jsn = InLiteral(<<c>> \o q, s) PROVE q = r
      <4>1. jsn.rest = <<c>> \o q /\ Tail(<<c>> \o q) = q
        BY <3>1 DEF InLiteral, Texts
      <4> QED
        BY <1>3, <4>1
    <3>2. jsn # InLiteral(<<c>>, s)
      <4>1. Len(<<c>>) = 1 /\ InLiteral(<<c>>, s).rest = <<c>>
        BY DEF InLiteral
      <4> QED
        BY <1>3, <1>4, <4>1
    <3> QED
      BY <3>1, <3>2 DEF LiteralMoves
  <2>4. Plain(InLiteral(r, s)) = InLiteral(r, s)
    BY DEF Plain, InLiteral
  <2> QED
    BY <2>1, <2>2, <2>3, <2>4
<1>5. CASE r = <<>>
  <2>1. jsn' = Pop([jsn EXCEPT !.rest = <<>>]) /\ ((c = "l" /\ tok' = "NULL") \/ (c = "e" /\ tok' = "BOOL"))
    BY <1>2, <1>3, <1>5 DEF Literal
  <2>2. [jsn EXCEPT !.rest = <<>>] = [at |-> "literal", rest |-> <<>>, stack |-> s, final |-> "OK"]
    BY <1>1 DEF InLiteral
  <2>3. Plain(jsn') = Ended(s)
    BY <2>1, <2>2, Popped
  <2>4. k = Ended(s) /\ ((c = "l" /\ t = "NULL") \/ (c = "e" /\ t = "BOOL"))
    <3>1. ASSUME NEW q \in Texts, q # <<>>, jsn = InLiteral(<<c>> \o q, s) PROVE FALSE
      <4>1. jsn.rest = <<c>> \o q /\ Tail(<<c>> \o q) = q
        BY <3>1 DEF InLiteral, Texts
      <4> QED
        BY <1>3, <1>5, <3>1, <4>1
    <3> QED
      BY <3>1 DEF LiteralMoves
  <2> QED
    BY <2>1, <2>3, <2>4
<1> QED
  BY <1>4, <1>5

LEMMA StringHappens ==
    ASSUME NEW s, NEW c, NEW k, NEW t, StringMoves(s, jsn, c, k, t), Parse(c)
    PROVE  Plain(jsn') = k /\ tok' = t
<1>1. CASE jsn = At("string", s) /\ c # Quote /\ k = jsn /\ t = "OK"
  <2>1. StringChar(c)
    BY <1>1, ParseAt
  <2>2. jsn' = jsn /\ tok' = "OK"
    BY <1>1, <2>1 DEF StringChar, Accept, Yields, At
  <2> QED
    BY <1>1, <2>2 DEF Plain, At
<1>2. CASE jsn = At("string", s) /\ c = Quote /\ k = Ended(s) /\ t = "STRING"
  <2>1. StringEnd
    BY <1>2, ParseAt
  <2> QED
    BY <1>2, <2>1, Popped DEF StringEnd, At
<1>3. CASE /\ jsn \in {At("object", s), At("ocomma", s)} /\ Len(s) < Depth
           /\ c = Quote /\ k = At("string", Append(s, "colon")) /\ t = "OBJECT_KEY"
  <2>1. PICK point \in {"object", "ocomma"} : jsn = At(point, s)
    BY <1>3
  <2>2. Key
    <3>1. ~End(c) /\ ~Unexpected(c)
      BY <1>3, <2>1 DEF End, Unexpected, Running, Closing, At, InArray, Quote
    <3>2. c # " "
      BY <1>3 DEF Quote
    <3> QED
      BY <2>1, <3>1, <3>2, ParseAt
  <2>3. Push(jsn, "colon") = At("start", Append(s, "colon"))
    BY <1>3, <2>1, PushMoves
  <2>4. jsn' = [At("start", Append(s, "colon")) EXCEPT !.at = "string"] /\ tok' = "OBJECT_KEY"
    <3> DEFINE j == At("start", Append(s, "colon"))
    <3>1. j.final = "OK" /\ Push(jsn, "colon") = j
      BY <2>3 DEF At
    <3> HIDE DEF j
    <3>2. jsn' = [j EXCEPT !.at = "string"] /\ tok' = "OBJECT_KEY"
      BY <2>2, <3>1 DEF Key
    <3> QED
      BY <3>2 DEF j
  <2>5. jsn' = At("string", Append(s, "colon"))
    BY <2>4 DEF At
  <2> QED
    BY <1>3, <2>4, <2>5 DEF Plain, At
<1> QED
  BY <1>1, <1>2, <1>3 DEF StringMoves
LEMMA ResumedMoves ==
    ASSUME NEW s, s # <<>>, NEW c, NEW k, NEW t, Behind(s, c, k, t)
    PROVE  Plain(Resumed(Ended(s), c)) = k
<1> DEFINE point == Top(s)
           front == SubSeq(s, 1, Len(s) - 1)
           j == [at |-> point, rest |-> <<>>, stack |-> front, final |-> "OK"]
<1>1. Ended(s) = j /\ Ended(s) = At(point, front)
  BY DEF Ended, At
<1>2. /\ point \in {"item", "member"}
      /\ \/ c = " " /\ k = Ended(s)
         \/ c = "," /\ k = At(IF point = "item" THEN "comma" ELSE "ocomma", front)
         \/ c = Closing(point) /\ k = Ended(front)
  BY DEF Behind
<1>3. Closing(point) \notin {" ", ","}
  BY DEF Closing
<1> HIDE DEF point, front
<1>4. j.at = point
  OBVIOUS
<1>5. CASE c = " " /\ k = Ended(s)
  <2>1. Resumed(j, c) = j
    BY <1>5 DEF Resumed
  <2> QED
    <3>1. Plain(j) = j
      BY DEF Plain
    <3> HIDE DEF j
    <3> QED
      BY <1>1, <1>5, <2>1, <3>1
<1>6. CASE c = "," /\ k = At(IF point = "item" THEN "comma" ELSE "ocomma", front)
  <2> DEFINE next == IF point = "item" THEN "comma" ELSE "ocomma"
  <2>1. Resumed(j, c) = [j EXCEPT !.at = next]
    BY <1>4, <1>6 DEF Resumed
  <2> HIDE DEF next
  <2>2. Resumed(j, c) = At(next, front)
    BY <2>1 DEF At
  <2>3. k = At(next, front)
    BY <1>6 DEF next
  <2> QED
    BY <1>1, <2>2, <2>3 DEF Plain, At
<1>7. CASE c = Closing(point) /\ k = Ended(front)
  <2>1. Resumed(j, c) = Pop(j)
    BY <1>3, <1>4, <1>7 DEF Resumed
  <2> QED
    BY <1>1, <1>7, <2>1, Popped
<1> QED
  BY <1>2, <1>5, <1>6, <1>7

LEMMA NumberHappens ==
    ASSUME NEW s, NEW c, NEW k, NEW t, NumberMoves(s, jsn, c, k, t), Parse(c)
    PROVE  Plain(jsn') = k /\ tok' = t
<1>1. ASSUME NEW p \in InNumber, NEW q \in InNumber, <<p, c, q>> \in NumberSteps, jsn = At(p, s), k = At(q, s), t = "OK"
      PROVE  Plain(jsn') = k /\ tok' = t
  <2>1. jsn.at = p
    BY <1>1 DEF At
  <2>2. NumberChar(c)
    <3>1. ~NumberEnd(c)
      BY <1>1, <2>1 DEF NumberEnd
    <3> QED
      BY <1>1, <3>1, ParseAt
  <2>3. PICK u \in NumberSteps : u[1] = p /\ u[2] = c /\ Accept(u[3])
    BY <2>1, <2>2 DEF NumberChar
  <2>4. u[3] = q
    BY <1>1, <2>3 DEF NumberSteps
  <2>5. jsn' = [jsn EXCEPT !.at = q] /\ tok' = "OK"
    BY <2>3, <2>4 DEF Accept, Yields
  <2> QED
    BY <1>1, <2>5 DEF At, Plain
<1>2. ASSUME NEW p \in {"frac", "exp"}, NEW u, jsn = At(p, s), Behind(s, c, k, u), t = "NUMBER"
      PROVE  Plain(jsn') = k /\ tok' = t
  <2>1. c \in {" ", ",", "]", "}"}
    BY <1>2 DEF Behind, Closing
  <2>2. NumberEnd(c)
    <3>1. ~NumberChar(c)
      <4>1. \A n \in NumberSteps : n[2] \in {"1", ".", "e", "+"}
        BY DEF NumberSteps
      <4> QED
        BY <2>1, <4>1 DEF NumberChar
    <3> QED
      BY <1>2, <3>1, ParseAt DEF InNumber
  <2>3. jsn' = (IF Pop(jsn).final = "OK" THEN Resumed(Pop(jsn), c) ELSE Pop(jsn)) /\ tok' = "NUMBER"
    BY <2>2 DEF NumberEnd
  <2>4. CASE s = <<>>
    <3>1. Pop(jsn).final = "DONE" /\ k = Complete
      BY <1>2, <2>4 DEF Pop, At, Behind
    <3> QED
      BY <1>2, <2>3, <3>1 DEF Plain
  <2>5. CASE s # <<>>
    <3>1. Pop(jsn).final = "OK"
      BY <1>2, <2>5 DEF Pop, At
    <3>2. Plain(Pop(jsn)) = Ended(s)
      BY <1>2, Popped DEF At
    <3>3. Pop(jsn) = Ended(s)
      BY <3>1, <3>2 DEF Plain
    <3> QED
      BY <1>2, <2>3, <2>5, <3>1, <3>3, ResumedMoves
  <2> QED
    BY <2>4, <2>5
<1> QED
  BY <1>1, <1>2 DEF NumberMoves

LEMMA ContainerHappens ==
    ASSUME NEW s, NEW c, NEW k, NEW t, jsn.final # "DONE", ContainerMoves(s, jsn, c, k, t), Parse(c)
    PROVE  Plain(jsn') = k /\ tok' = t
<1>1. CASE jsn = Ended(s) /\ Behind(s, c, k, t)
  <2>1. s # <<>>
    BY <1>1 DEF Ended, Complete
  <2> DEFINE point == Top(s)
             front == SubSeq(s, 1, Len(s) - 1)
  <2>2. jsn = At(point, front) /\ point \in {"item", "member"}
    BY <1>1, <2>1 DEF Ended, Behind
  <2>3. /\ \/ c = " " /\ k = Ended(s) /\ t = "OK"
           \/ c = "," /\ t = "OK"
           \/ c = Closing(point) /\ k = Ended(front) /\ t = EndOf(point)
        /\ Closing(point) \notin {" ", ","}
    BY <1>1, <2>1 DEF Behind, Closing
  <2>4. Plain(Resumed(jsn, c)) = k
    BY <1>1, <2>1, ResumedMoves
  <2> HIDE DEF point, front
  <2>5. jsn.at = point
    BY <2>2 DEF At
  <2>6. (c = " " /\ SkipSpace) \/ (c = "," /\ Comma) \/ End(c) \/ Unexpected(c)
    BY <2>2, ParseAt
  <2>7. (End(c) => c = Closing(point)) /\ (Unexpected(c) => c \notin {" ", ",", Closing(point)})
    BY <2>2, <2>5 DEF End, Unexpected, Running
  <2>8. CASE c = " " /\ k = Ended(s) /\ t = "OK"
    <3>1. SkipSpace
      BY <2>3, <2>6, <2>7, <2>8
    <3>2. jsn' = [jsn EXCEPT !.at = point] /\ tok' = "OK"
      BY <2>2, <2>5, <3>1 DEF SkipSpace, Yields
    <3>3. jsn' = jsn
      BY <2>2, <3>2 DEF At
    <3> QED
      BY <1>1, <2>2, <2>8, <3>2, <3>3 DEF Plain, At
  <2>9. CASE c = "," /\ t = "OK"
    <3>1. Comma
      BY <2>3, <2>6, <2>7, <2>9
    <3> QED
      BY <2>4, <2>9, <3>1 DEF Comma
  <2>10. CASE c = Closing(point) /\ k = Ended(front) /\ t = EndOf(point)
    <3>1. End(c)
      BY <2>3, <2>6, <2>7, <2>10
    <3>2. jsn' = Pop(jsn) /\ tok' = EndOf(point)
      BY <2>5, <3>1 DEF End
    <3>3. Plain(Pop(jsn)) = Ended(front)
      BY <2>2, Popped DEF At
    <3> QED
      BY <2>10, <3>2, <3>3
  <2> QED
    BY <2>3, <2>8, <2>9, <2>10
<1>2. ASSUME NEW p \in {"array", "object"}, jsn = At(p, s), c = Closing(p), k = Ended(s), t = EndOf(p)
      PROVE  Plain(jsn') = k /\ tok' = t
  <2>1. jsn.at = p /\ c \in {"]", "}"} /\ (p = "array" => c = "]")
    BY <1>2 DEF At, Closing, InArray
  <2>2. End(c)
    <3>1. ~Item(c) /\ ~Unexpected(c)
      BY <1>2, <2>1 DEF Item, Unexpected, Running, Closing, InArray
    <3> QED
      BY <1>2, <2>1, <3>1, ParseAt DEF Quote
  <2>3. jsn' = Pop(jsn) /\ tok' = EndOf(p)
    BY <2>1, <2>2 DEF End
  <2>4. Plain(Pop(jsn)) = Ended(s)
    BY <1>2, Popped DEF At
  <2> QED
    BY <1>2, <2>3, <2>4
<1>3. CASE jsn = At("colon", s) /\ c = ":" /\ k = At("value", s) /\ t = "OBJECT_VALUE"
  <2>1. Colon
    <3>1. ~Unexpected(c)
      BY <1>3 DEF Unexpected, Running, At
    <3> QED
      BY <1>3, <3>1, ParseAt
  <2>2. jsn' = [jsn EXCEPT !.at = "value"] /\ tok' = "OBJECT_VALUE"
    BY <2>1 DEF Colon, Yields
  <2> QED
    BY <1>3, <2>2 DEF Plain, At
<1> QED
  BY <1>1, <1>2, <1>3 DEF ContainerMoves

\* What json_parse does within a document is one of the moves.
LEMMA MovesHappen ==
    ASSUME NEW c \in Chars, NEW k, NEW t, Moves(Plain(jsn), c, k, t), Parse(c)
    PROVE  Plain(jsn') = k /\ tok' = t
<1>1. CASE jsn.final = "DONE"
  <2>1. Plain(jsn) = Complete
    BY <1>1 DEF Plain
  <2>2. jsn' = jsn /\ tok' = "DONE"
    BY <1>1 DEF Parse, Final, SkipSpace, Comma, Colon, StringEnd, Key, Start, Literal, StringChar, NumberChar,
                NumberEnd, End, Item, Member, Unexpected, Running
  <2>3. PICK s \in Stacks : \/ StartMoves(s, Complete, c, k, t) \/ LiteralMoves(s, Complete, c, k, t)
                            \/ StringMoves(s, Complete, c, k, t) \/ NumberMoves(s, Complete, c, k, t)
                            \/ ContainerMoves(s, Complete, c, k, t)
    BY <2>1 DEF Moves
  <2>4. \A p, r : Complete # At(p, r) /\ Complete # InLiteral(p, r)
    BY DEF Complete, At, InLiteral
  <2>5. Complete = Ended(s) /\ Behind(s, c, k, t)
    BY <2>3, <2>4 DEF StartMoves, LiteralMoves, StringMoves, NumberMoves, ContainerMoves
  <2>6. s = <<>>
    BY <2>4, <2>5 DEF Ended
  <2>7. k = Complete /\ t = "DONE"
    BY <2>5, <2>6 DEF Behind
  <2> QED
    BY <2>1, <2>2, <2>7
<1>2. CASE jsn.final # "DONE"
  <2>1. Plain(jsn) = jsn
    BY <1>2 DEF Plain
  <2>2. PICK s \in Stacks : \/ StartMoves(s, jsn, c, k, t) \/ LiteralMoves(s, jsn, c, k, t)
                            \/ StringMoves(s, jsn, c, k, t) \/ NumberMoves(s, jsn, c, k, t)
                            \/ ContainerMoves(s, jsn, c, k, t)
    BY <2>1 DEF Moves
  <2> QED
    BY <1>2, <2>2, StartHappens, LiteralHappens, StringHappens, NumberHappens, ContainerHappens
<1> QED
  BY <1>1, <1>2
-----------------------------------------------------------------------------
(* The grammar: texts that lead to the end of the document *)

\* The token t is one of those to come, or none of the grammar's; unless every
\* number is spaced, the end behind a number may be passed over.
Tells(t, more, after, spaced) ==
    \/ t \in {"OK", "DONE"} /\ after = more
    \/ t \in Toks /\ more = <<t>> \o after
    \/ ~spaced /\ t = "NUMBER" /\ \E u \in Ends : more = <<t>> \o (<<u>> \o after)

\* The coroutine, the text and the tokens to come.
Left(j, rest, more) == [jsn |-> j, rest |-> rest, more |-> more]

Goes(x, y, spaced) ==
    \E c \in Chars, t \in Toks \cup {"OK", "DONE"} :
      /\ x.rest = <<c>> \o y.rest /\ Moves(x.jsn, c, y.jsn, t) /\ Tells(t, x.more, y.more, spaced)
      /\ y.rest # <<>> => x.jsn.final = "OK"

Consistent(all, spaced) ==
    \A x \in all :
      /\ x.rest \in Texts /\ x.more \in Tokenses
      /\ x.rest = <<>> => x.jsn = Complete /\ x.more = <<>>
      /\ x.rest # <<>> => \E y \in all : Goes(x, y, spaced)

\* From j on, with this text left, the parser returns these tokens and is done.
Good(j, rest, more, spaced) == \E all : Consistent(all, spaced) /\ Left(j, rest, more) \in all

LEMMA GoodTypes ==
    ASSUME NEW j, NEW rest, NEW more, NEW spaced, Good(j, rest, more, spaced)
    PROVE  /\ rest \in Texts /\ more \in Tokenses
           /\ rest = <<>> => j = Complete /\ more = <<>>
<1> DEFINE x == Left(j, rest, more)
<1>1. x.jsn = j /\ x.rest = rest /\ x.more = more
  BY DEF Left
<1> HIDE DEF x
<1>2. PICK all : Consistent(all, spaced) /\ x \in all
  BY DEF Good, x
<1> QED
  BY <1>1, <1>2 DEF Consistent

LEMMA GoodAtEnd == \A spaced : Good(Complete, <<>>, <<>>, spaced)
<1> SUFFICES ASSUME NEW spaced PROVE Good(Complete, <<>>, <<>>, spaced)
  OBVIOUS
<1> DEFINE x == Left(Complete, <<>>, <<>>)
<1>1. x.jsn = Complete /\ x.rest = <<>> /\ x.more = <<>>
  BY DEF Left
<1>2. <<>> \in Texts /\ <<>> \in Tokenses
  BY DEF Texts, Tokenses
<1> HIDE DEF x
<1>3. Consistent({x}, spaced)
  BY <1>1, <1>2 DEF Consistent
<1> QED
  BY <1>3 DEF Good, x

LEMMA GoodBefore ==
    ASSUME NEW j, NEW c \in Chars, NEW k, NEW t \in Toks \cup {"OK", "DONE"}, NEW rest, NEW more \in Tokenses, NEW after,
           NEW spaced, Good(k, rest, after, spaced), Moves(j, c, k, t), Tells(t, more, after, spaced),
           rest # <<>> => j.final = "OK"
    PROVE  Good(j, <<c>> \o rest, more, spaced)
<1> DEFINE row == <<c>> \o rest
           x == Left(j, row, more)
           y == Left(k, rest, after)
<1>1. PICK all : Consistent(all, spaced) /\ y \in all
  BY DEF Good
<1>2. rest \in Texts
  BY GoodTypes
<1>3. row \in Texts /\ row # <<>>
  BY <1>2 DEF Texts
<1>4. x.jsn = j /\ x.rest = row /\ x.more = more /\ y.jsn = k /\ y.rest = rest /\ y.more = after
  BY DEF Left
<1>5. Goes(x, y, spaced)
  <2> HIDE DEF x, y
  <2> QED
    BY <1>4 DEF Goes
<1> DEFINE more1 == all \cup {x}
<1>6. Consistent(more1, spaced)
  <2> SUFFICES ASSUME NEW z \in more1
               PROVE  /\ z.rest \in Texts /\ z.more \in Tokenses
                      /\ z.rest = <<>> => z.jsn = Complete /\ z.more = <<>>
                      /\ z.rest # <<>> => \E w \in more1 : Goes(z, w, spaced)
    BY DEF Consistent
  <2>1. CASE z = x
    <3> HIDE DEF x, y, row
    <3> QED
      BY <1>1, <1>3, <1>4, <1>5, <2>1
  <2>2. CASE z \in all
    BY <1>1, <2>2 DEF Consistent
  <2> QED
    BY <2>1, <2>2
<1>7. x \in more1
  OBVIOUS
<1> HIDE DEF more1
<1> QED
  BY <1>6, <1>7 DEF Good

LEMMA GoodAfter ==
    ASSUME NEW j, NEW rest, NEW more, NEW spaced, Good(j, rest, more, spaced), rest # <<>>
    PROVE  \E c \in Chars, t \in Toks \cup {"OK", "DONE"} : \E k, r, after :
             /\ rest = <<c>> \o r /\ Moves(j, c, k, t) /\ Tells(t, more, after, spaced)
             /\ Good(k, r, after, spaced) /\ (r # <<>> => j.final = "OK")
<1> DEFINE x == Left(j, rest, more)
<1>1. x.jsn = j /\ x.rest = rest /\ x.more = more
  BY DEF Left
<1> HIDE DEF x
<1>2. PICK all : Consistent(all, spaced) /\ x \in all
  BY DEF Good, x
<1>3. PICK y \in all : Goes(x, y, spaced)
  BY <1>1, <1>2 DEF Consistent
<1>4. Good(y.jsn, y.rest, y.more, spaced)
  <2> DEFINE z == Left(y.jsn, y.rest, y.more)
             more1 == all \cup {z}
  <2>1. z.jsn = y.jsn /\ z.rest = y.rest /\ z.more = y.more
    BY DEF Left
  <2> HIDE DEF z
  <2>2. \A w : Goes(y, w, spaced) => Goes(z, w, spaced)
    BY <2>1 DEF Goes
  <2>3. Consistent(more1, spaced)
    <3> SUFFICES ASSUME NEW v \in more1
                 PROVE  /\ v.rest \in Texts /\ v.more \in Tokenses
                        /\ v.rest = <<>> => v.jsn = Complete /\ v.more = <<>>
                        /\ v.rest # <<>> => \E w \in more1 : Goes(v, w, spaced)
      BY DEF Consistent
    <3>1. CASE v \in all
      BY <1>2, <3>1 DEF Consistent
    <3>2. CASE v = z
      BY <1>2, <2>1, <2>2, <3>2 DEF Consistent
    <3> QED
      BY <3>1, <3>2
  <2>4. z \in more1
    OBVIOUS
  <2> HIDE DEF more1
  <2> QED
    BY <2>3, <2>4 DEF Good, z
<1>5. PICK c \in Chars, t \in Toks \cup {"OK", "DONE"} :
        /\ rest = <<c>> \o y.rest /\ Moves(j, c, y.jsn, t) /\ Tells(t, more, y.more, spaced)
        /\ y.rest # <<>> => j.final = "OK"
  BY <1>1, <1>3 DEF Goes
<1> QED
  BY <1>4, <1>5
-----------------------------------------------------------------------------
(* The grammar: one character more in front *)

\* Two texts put together before a third, kept as they are.
Joined(a, b, c) == (a \o b) \o c


LEMMA RegroupTexts ==
    ASSUME NEW x \in Texts, NEW y \in Texts, NEW z \in Texts
    PROVE  Joined(x, y, z) = x \o (y \o z)
<1>1. x \in Seq(Chars) /\ y \in Seq(Chars) /\ z \in Seq(Chars)
  BY DEF Texts
<1>2. (x \o y) \o z = x \o (y \o z)
  BY <1>1
<1> QED
  BY <1>2 DEF Joined

\* Short rows.
LEMMA RowsAre ==
    ASSUME NEW S, NEW a \in S, NEW b \in S, NEW c \in S, NEW d \in S
    PROVE  /\ <<a>> \in Seq(S) /\ <<a, b>> \in Seq(S) /\ <<a, b, c>> \in Seq(S) /\ <<a, b, c, d>> \in Seq(S)
           /\ <<a>> # <<>> /\ <<a, b>> # <<>> /\ <<a, b, c>> # <<>> /\ <<a, b, c, d>> # <<>>
OBVIOUS

LEMMA AtIs ==
    /\ \A p, s : At(p, s).final = "OK" /\ At(p, s).at = p /\ At(p, s).stack = s
    /\ \A p, s, q, r : At(p, s) = At(q, r) => p = q /\ s = r
    /\ \A p, s, q, r : At(p, s) = InLiteral(q, r) => p = "literal"
    /\ \A p, s : At(p, s) # Complete /\ InLiteral(p, s) # Complete /\ InLiteral(p, s).final = "OK"
<1>1. \A p, s : At(p, s).final = "OK" /\ At(p, s).at = p /\ At(p, s).stack = s
  BY DEF At
<1>2. \A p, s : InLiteral(p, s).final = "OK" /\ InLiteral(p, s).at = "literal" /\ Complete.final = "DONE"
  BY DEF InLiteral, Complete
<1> QED
  BY <1>1, <1>2

\* Before a value of a container comes what is before a value elsewhere.
LEMMA StartIs ==
    ASSUME NEW s \in Stacks, NEW c, NEW k, NEW t, Moves(At("start", s), c, k, t)
    PROVE  Begins(s, c, k, t)
<1> DEFINE j == At("start", s)
<1>1. PICK r \in Stacks : \/ StartMoves(r, j, c, k, t) \/ LiteralMoves(r, j, c, k, t) \/ StringMoves(r, j, c, k, t)
                          \/ NumberMoves(r, j, c, k, t) \/ ContainerMoves(r, j, c, k, t)
  BY DEF Moves
<1>2. /\ j # Complete /\ \A q : j # InLiteral(q, r)
      /\ \A q : j = At(q, r) => q = "start" /\ r = s
  BY AtIs
<1> HIDE DEF j
<1>3. ~LiteralMoves(r, j, c, k, t) /\ ~StringMoves(r, j, c, k, t) /\ ~NumberMoves(r, j, c, k, t)
  <2>1. ~LiteralMoves(r, j, c, k, t)
    BY <1>2 DEF LiteralMoves
  <2>2. ~StringMoves(r, j, c, k, t)
    BY <1>2 DEF StringMoves
  <2>3. ~NumberMoves(r, j, c, k, t)
    BY <1>2 DEF NumberMoves, InNumber
  <2> QED
    BY <2>1, <2>2, <2>3
<1>4. ~ContainerMoves(r, j, c, k, t)
  <2>1. ~(j = Ended(r) /\ Behind(r, c, k, t))
    <3> SUFFICES ASSUME j = Ended(r), Behind(r, c, k, t) PROVE FALSE
      OBVIOUS
    <3>1. r # <<>>
      BY <1>2 DEF Ended
    <3>2. j = At(Top(r), SubSeq(r, 1, Len(r) - 1)) /\ Top(r) \in {"item", "member"}
      BY <3>1 DEF Ended, Behind
    <3>3. Top(r) = "start"
      BY <1>2, <3>2, AtIs DEF j
    <3> QED
      BY <3>2, <3>3
  <2> QED
    BY <1>2, <2>1 DEF ContainerMoves
<1> QED
  BY <1>1, <1>2, <1>3, <1>4 DEF StartMoves

LEMMA MoveIs ==
    ASSUME NEW s \in Stacks, NEW j, NEW c, NEW k, NEW t,
           \/ StartMoves(s, j, c, k, t) \/ LiteralMoves(s, j, c, k, t) \/ StringMoves(s, j, c, k, t)
           \/ NumberMoves(s, j, c, k, t) \/ ContainerMoves(s, j, c, k, t)
    PROVE  Moves(j, c, k, t)
BY DEF Moves

Ready(s) == s \in Stacks /\ (s # <<>> => Top(s) \in {"item", "member"})

LEMMA EndedIs ==
    ASSUME NEW s \in Stacks, Ready(s), NEW c, NEW k, NEW t, Moves(Ended(s), c, k, t)
    PROVE  Behind(s, c, k, t)
<1> DEFINE j == Ended(s)
<1>1. PICK r \in Stacks : \/ StartMoves(r, j, c, k, t) \/ LiteralMoves(r, j, c, k, t) \/ StringMoves(r, j, c, k, t)
                          \/ NumberMoves(r, j, c, k, t) \/ ContainerMoves(r, j, c, k, t)
  BY DEF Moves
<1>2. CASE s = <<>>
  <2>1. j = Complete /\ \A p, q : j # At(p, q) /\ j # InLiteral(p, q)
    BY <1>2, AtIs DEF Ended
  <2> HIDE DEF j
  <2>2. j = Ended(r) /\ Behind(r, c, k, t)
    BY <1>1, <2>1 DEF StartMoves, LiteralMoves, StringMoves, NumberMoves, ContainerMoves
  <2>3. r = <<>>
    BY <2>1, <2>2 DEF Ended
  <2> QED
    BY <1>2, <2>2, <2>3
<1>3. CASE s # <<>>
  <2> DEFINE front == SubSeq(s, 1, Len(s) - 1)
  <2>1. j = At(Top(s), front) /\ Top(s) \in {"item", "member"}
    BY <1>3 DEF Ended, Ready
  <2>2. /\ j # Complete /\ \A q : j # InLiteral(q, r)
        /\ \A p, q : j = At(p, q) => p \in {"item", "member"} /\ p = Top(s) /\ q = front
    <3> DEFINE top == Top(s)
    <3>1. j = At(top, front) /\ top # "literal"
      BY <2>1
    <3> HIDE DEF j, top, front
    <3>2. \A q : j # InLiteral(q, r)
      BY <3>1, AtIs
    <3>3. \A p, q : j = At(p, q) => p = top /\ q = front
      BY <3>1, AtIs
    <3>4. j # Complete
      BY <3>1, AtIs
    <3> QED
      BY <2>1, <3>2, <3>3, <3>4 DEF top
  <2> HIDE DEF j
  <2>3. j = Ended(r) /\ Behind(r, c, k, t)
    <3>1. ~StartMoves(r, j, c, k, t)
      BY <2>2 DEF StartMoves
    <3>2. ~LiteralMoves(r, j, c, k, t)
      BY <2>2 DEF LiteralMoves
    <3>3. ~StringMoves(r, j, c, k, t)
      BY <2>2 DEF StringMoves
    <3>4. ~NumberMoves(r, j, c, k, t)
      BY <2>2 DEF NumberMoves, InNumber
    <3> QED
      BY <1>1, <2>2, <3>1, <3>2, <3>3, <3>4 DEF ContainerMoves
  <2>4. r # <<>>
    BY <2>2, <2>3 DEF Ended
  <2>5. Top(r) = Top(s) /\ SubSeq(r, 1, Len(r) - 1) = front
    <3> DEFINE before == SubSeq(r, 1, Len(r) - 1)
               top == Top(r)
    <3>1. j = At(top, before)
      BY <2>3, <2>4 DEF Ended
    <3> HIDE DEF front, before, top
    <3>2. top = Top(s) /\ before = front
      BY <2>2, <3>1
    <3> QED
      BY <3>2 DEF top, before
  <2> QED
    BY <1>3, <2>3, <2>4, <2>5 DEF Behind, j
<1> QED
  BY <1>2, <1>3

\* One character in front that returns a token, and one that returns none.
LEMMA OneToken ==
    ASSUME NEW j, NEW c \in Chars, NEW k, NEW t \in Toks, NEW rest, NEW more, NEW spaced,
           Good(k, rest, more, spaced), Moves(j, c, k, t), j.final = "OK"
    PROVE  Good(j, <<c>> \o rest, <<t>> \o more, spaced)
<1>1. more \in Tokenses
  BY GoodTypes
<1>2. <<t>> \o more \in Tokenses
  BY <1>1 DEF Tokenses
<1>3. Tells(t, <<t>> \o more, more, spaced)
  BY DEF Tells
<1> QED
  BY <1>2, <1>3, GoodBefore

LEMMA NoToken ==
    ASSUME NEW j, NEW c \in Chars, NEW k, NEW rest, NEW more, NEW spaced,
           Good(k, rest, more, spaced), Moves(j, c, k, "OK"), j.final = "OK"
    PROVE  Good(j, <<c>> \o rest, more, spaced)
<1>1. more \in Tokenses
  BY GoodTypes
<1>2. Tells("OK", more, more, spaced)
  BY DEF Tells
<1> QED
  BY <1>1, <1>2, GoodBefore

LEMMA GoodInContainer ==
    ASSUME NEW s \in Stacks, NEW p \in {"item", "member"}, NEW j, Len(s) < Depth,
           (j = At("value", s) /\ p = "member") \/ (j \in {At("array", s), At("comma", s)} /\ p = "item"),
           NEW rest, NEW more, NEW spaced, Good(At("start", Append(s, p)), rest, more, spaced)
    PROVE  Good(j, rest, more, spaced)
<1> DEFINE inner == Append(s, p)
<1>1. inner \in Stacks
  BY StacksAre DEF Held
<1>2. rest # <<>>
  BY GoodTypes, AtIs
<1>3. PICK c \in Chars, t \in Toks \cup {"OK", "DONE"} : \E k, r, after :
        /\ rest = <<c>> \o r /\ Moves(At("start", inner), c, k, t) /\ Tells(t, more, after, spaced)
        /\ Good(k, r, after, spaced)
  <2> HIDE DEF inner
  <2> DEFINE from == At("start", inner)
  <2>1. Good(from, rest, more, spaced)
    BY DEF inner
  <2> HIDE DEF from
  <2>2. \E c \in Chars, t \in Toks \cup {"OK", "DONE"} : \E k, r, after :
          /\ rest = <<c>> \o r /\ Moves(from, c, k, t) /\ Tells(t, more, after, spaced)
          /\ Good(k, r, after, spaced) /\ (r # <<>> => from.final = "OK")
    BY <1>2, <2>1, GoodAfter
  <2> QED
    BY <2>2 DEF from
<1>4. PICK k, r, after :
        /\ rest = <<c>> \o r /\ Moves(At("start", inner), c, k, t) /\ Tells(t, more, after, spaced)
        /\ Good(k, r, after, spaced)
  BY <1>3
<1>5. Begins(inner, c, k, t)
  BY <1>1, <1>4, StartIs
<1>6. StartMoves(s, j, c, k, t)
  BY <1>5 DEF StartMoves
<1>7. Moves(j, c, k, t) /\ j.final = "OK"
  BY <1>6, MoveIs, AtIs
<1>8. more \in Tokenses
  BY GoodTypes
<1> QED
  BY <1>4, <1>7, <1>8, GoodBefore
-----------------------------------------------------------------------------
(* The grammar: scalars *)

Docs == [text : Texts, toks : Tokenses, spaced : BOOLEAN]

\* With v in front, the parser gets from one point to the other.
Leads(v, from, to, spaced) ==
    \A rest, more : rest # <<>> /\ Good(to, rest, more, spaced) => Good(from, v.text \o rest, v.toks \o more, spaced)

\* It gets from the start of a value to its end, wherever n more containers can be
\* opened.
Reads(v, n, spaced) ==
    (spaced => v.spaced) =>
        \A s \in Stacks : Ready(s) /\ Len(s) + n <= Depth => Leads(v, At("start", s), Ended(s), spaced)

LEMMA CharsAre ==
    {"n", "u", "l", "t", "r", "e", "f", "a", "s", Quote, "[", "]", "{", "}", ",", ":", "+", ".", "1", " ", "x"} \subseteq Chars
BY DEF Chars

LEMMA RowBefore ==
    ASSUME NEW j, NEW c \in Chars, NEW k, NEW q \in Texts, NEW rest \in Texts, NEW more, NEW spaced,
           Good(k, q \o rest, more, spaced), Moves(j, c, k, "OK"), j.final = "OK"
    PROVE  Good(j, (<<c>> \o q) \o rest, more, spaced)
<1>1. Good(j, <<c>> \o (q \o rest), more, spaced)
  BY NoToken
<1>2. Joined(<<c>>, q, rest) = <<c>> \o (q \o rest)
  <2> DEFINE first == <<c>>
  <2>1. first \in Texts
    BY DEF Texts
  <2> HIDE DEF first
  <2>2. Joined(first, q, rest) = first \o (q \o rest)
    BY <2>1, RegroupTexts
  <2> QED
    BY <2>2 DEF first
<1> QED
  BY <1>1, <1>2 DEF Joined

\* null, true and false, from their second character on.
LEMMA LiteralBefore ==
    ASSUME NEW s \in Stacks, NEW c \in Chars, NEW q \in Texts, q # <<>>, NEW w, w = <<c>> \o q,
           NEW rest \in Texts, NEW more, NEW spaced, Good(InLiteral(q, s), q \o rest, more, spaced)
    PROVE  Good(InLiteral(w, s), w \o rest, more, spaced)
<1> DEFINE j == InLiteral(<<c>> \o q, s)
           k == InLiteral(q, s)
<1>1. LiteralMoves(s, j, c, k, "OK")
  BY DEF LiteralMoves
<1>2. Moves(j, c, k, "OK") /\ j.final = "OK"
  BY <1>1, MoveIs, AtIs
<1> HIDE DEF j
<1>3. Good(j, (<<c>> \o q) \o rest, more, spaced)
  BY <1>2, RowBefore
<1> QED
  BY <1>3 DEF j

LEMMA LiteralEnd ==
    ASSUME NEW s \in Stacks, NEW c, NEW t, (c = "l" /\ t = "NULL") \/ (c = "e" /\ t = "BOOL"),
           NEW rest, NEW more, NEW spaced, Good(Ended(s), rest, more, spaced)
    PROVE  Good(InLiteral(<<c>>, s), <<c>> \o rest, <<t>> \o more, spaced)
<1> DEFINE j == InLiteral(<<c>>, s)
           k == Ended(s)
<1>1. LiteralMoves(s, j, c, k, t)
  BY DEF LiteralMoves
<1>2. Moves(j, c, k, t) /\ j.final = "OK"
  BY <1>1, MoveIs, AtIs
<1>3. c \in Chars /\ t \in Toks
  BY CharsAre DEF Toks
<1> HIDE DEF j, k
<1>4. Good(j, <<c>> \o rest, <<t>> \o more, spaced)
  BY <1>2, <1>3, OneToken DEF k
<1> QED
  BY <1>4 DEF j

LEMMA LiteralBegin ==
    ASSUME NEW s \in Stacks, NEW c \in DOMAIN Rest, Rest[c] \in Texts, NEW rest \in Texts, NEW more, NEW spaced,
           Good(InLiteral(Rest[c], s), Rest[c] \o rest, more, spaced)
    PROVE  Good(At("start", s), (<<c>> \o Rest[c]) \o rest, more, spaced)
<1> DEFINE j == At("start", s)
           k == InLiteral(Rest[c], s)
<1>1. Begins(s, c, k, "OK")
  BY DEF Begins
<1>2. StartMoves(s, j, c, k, "OK")
  BY <1>1 DEF StartMoves
<1>3. Moves(j, c, k, "OK") /\ j.final = "OK"
  BY <1>2, MoveIs, AtIs
<1>4. c \in Chars
  BY CharsAre DEF Rest
<1> HIDE DEF j, k
<1>5. Good(j, (<<c>> \o Rest[c]) \o rest, more, spaced)
  BY <1>3, <1>4, RowBefore DEF k
<1> QED
  BY <1>5 DEF j

LEMMA WordsRead ==
    ASSUME NEW v \in Words, NEW n \in Nat, NEW spaced
    PROVE  v \in Docs /\ Reads(v, n, spaced)
<1> DEFINE ull == <<"u", "l", "l">>
           rue == <<"r", "u", "e">>
           alse == <<"a", "l", "s", "e">>
<1>1. Rest["n"] = ull /\ Rest["t"] = rue /\ Rest["f"] = alse /\ DOMAIN Rest = {"n", "t", "f"}
  BY DEF Rest
<1>2. ull \in Texts /\ rue \in Texts /\ alse \in Texts
  <2>1. /\ "u" \in Chars /\ "l" \in Chars /\ "r" \in Chars /\ "e" \in Chars /\ "a" \in Chars /\ "s" \in Chars
    BY CharsAre
  <2>2. ull \in Seq(Chars)
    BY <2>1, RowsAre
  <2>3. rue \in Seq(Chars)
    BY <2>1, RowsAre
  <2>4. alse \in Seq(Chars)
    BY <2>1, RowsAre
  <2> QED
    BY <2>2, <2>3, <2>4 DEF Texts
<1>3. PICK a \in DOMAIN Rest, t \in {"NULL", "BOOL"} :
        /\ v = [text |-> <<a>> \o Rest[a], toks |-> <<t>>, spaced |-> TRUE]
        /\ t = IF a = "n" THEN "NULL" ELSE "BOOL"
  <2>1. <<"n", "u", "l", "l">> = <<"n">> \o ull
    OBVIOUS
  <2>2. <<"t", "r", "u", "e">> = <<"t">> \o rue
    OBVIOUS
  <2>3. <<"f", "a", "l", "s", "e">> = <<"f">> \o alse
    OBVIOUS
  <2> HIDE DEF ull, rue, alse
  <2>4. \/ v = [text |-> <<"n">> \o Rest["n"], toks |-> <<"NULL">>, spaced |-> TRUE]
        \/ v = [text |-> <<"t">> \o Rest["t"], toks |-> <<"BOOL">>, spaced |-> TRUE]
        \/ v = [text |-> <<"f">> \o Rest["f"], toks |-> <<"BOOL">>, spaced |-> TRUE]
    BY <1>1, <2>1, <2>2, <2>3 DEF Words, Scalar
  <2> QED
    BY <1>1, <2>4
<1>4. ASSUME NEW s \in Stacks, NEW rest, NEW more, Good(Ended(s), rest, more, spaced)
      PROVE  Good(InLiteral(Rest[a], s), Rest[a] \o rest, <<t>> \o more, spaced)
  <2>1. rest \in Texts
    BY <1>4, GoodTypes
  <2> DEFINE l == <<"l">>
             ll == <<"l", "l">>
             e == <<"e">>
             ue == <<"u", "e">>
             se == <<"s", "e">>
             lse == <<"l", "s", "e">>
  <2>2. /\ l \in Texts /\ ll \in Texts /\ e \in Texts /\ ue \in Texts /\ se \in Texts /\ lse \in Texts
        /\ l # <<>> /\ ll # <<>> /\ e # <<>> /\ ue # <<>> /\ se # <<>> /\ lse # <<>>
    <3>1. "u" \in Chars /\ "l" \in Chars /\ "e" \in Chars /\ "s" \in Chars
      BY CharsAre
    <3>2. l \in Seq(Chars) /\ l # <<>>
      BY <3>1, RowsAre
    <3>3. ll \in Seq(Chars) /\ ll # <<>>
      BY <3>1, RowsAre
    <3>4. e \in Seq(Chars) /\ e # <<>>
      BY <3>1, RowsAre
    <3>5. ue \in Seq(Chars) /\ ue # <<>>
      BY <3>1, RowsAre
    <3>6. se \in Seq(Chars) /\ se # <<>>
      BY <3>1, RowsAre
    <3>7. lse \in Seq(Chars) /\ lse # <<>>
      BY <3>1, RowsAre
    <3> HIDE DEF l, ll, e, ue, se, lse
    <3> QED
      BY <3>2, <3>3, <3>4, <3>5, <3>6, <3>7 DEF Texts
  <2>3. ll = <<"l">> \o l /\ ull = <<"u">> \o ll
    OBVIOUS
  <2>4. ue = <<"u">> \o e /\ rue = <<"r">> \o ue
    OBVIOUS
  <2>5. se = <<"s">> \o e /\ lse = <<"l">> \o se /\ alse = <<"a">> \o lse
    OBVIOUS
  <2>6. /\ Good(InLiteral(l, s), l \o rest, <<"NULL">> \o more, spaced)
        /\ Good(InLiteral(e, s), e \o rest, <<"BOOL">> \o more, spaced)
    BY <1>4, LiteralEnd
  <2> DEFINE null == <<"NULL">> \o more
             bool == <<"BOOL">> \o more
  <2> HIDE DEF ull, rue, alse, l, ll, e, ue, se, lse, null, bool
  <2>7. Good(InLiteral(ll, s), ll \o rest, null, spaced)
    BY <2>1, <2>2, <2>3, <2>6, CharsAre, LiteralBefore DEF null
  <2>8. Good(InLiteral(ull, s), ull \o rest, null, spaced)
    BY <2>1, <2>2, <2>3, <2>7, CharsAre, LiteralBefore
  <2>9. Good(InLiteral(ue, s), ue \o rest, bool, spaced)
    BY <2>1, <2>2, <2>4, <2>6, CharsAre, LiteralBefore DEF bool
  <2>10. Good(InLiteral(rue, s), rue \o rest, bool, spaced)
    BY <2>1, <2>2, <2>4, <2>9, CharsAre, LiteralBefore
  <2>11. Good(InLiteral(se, s), se \o rest, bool, spaced)
    BY <2>1, <2>2, <2>5, <2>6, CharsAre, LiteralBefore DEF bool
  <2>12. Good(InLiteral(lse, s), lse \o rest, bool, spaced)
    BY <2>1, <2>2, <2>5, <2>11, CharsAre, LiteralBefore
  <2>13. Good(InLiteral(alse, s), alse \o rest, bool, spaced)
    BY <2>1, <2>2, <2>5, <2>12, CharsAre, LiteralBefore
  <2> QED
    BY <1>1, <1>3, <2>8, <2>10, <2>13 DEF null, bool
<1>6. Rest[a] \in Texts
  BY <1>1, <1>2
<1> HIDE DEF ull, rue, alse
<1>7. v \in Docs
  <2> DEFINE r == Rest[a]
  <2>1. r \in Seq(Chars) /\ a \in Chars /\ t \in Toks
    BY <1>1, <1>6, CharsAre DEF Texts, Toks
  <2> HIDE DEF r
  <2>2. <<a>> \o r \in Seq(Chars) /\ <<t>> \in Seq(Toks)
    BY <2>1
  <2> QED
    BY <1>3, <2>2 DEF Docs, Texts, Tokenses, r
<1>5. ASSUME NEW s \in Stacks, NEW rest, NEW more, Good(Ended(s), rest, more, spaced)
      PROVE  Good(At("start", s), v.text \o rest, v.toks \o more, spaced)
  <2>1. Good(At("start", s), (<<a>> \o Rest[a]) \o rest, <<t>> \o more, spaced)
    BY <1>4, <1>5, <1>6, GoodTypes, LiteralBegin
  <2> QED
    BY <1>3, <2>1
<1> QED
  BY <1>5, <1>7 DEF Reads, Leads
\* A character in front of a row, which returns no token.
LEMMA RowGrows ==
    ASSUME NEW j, NEW c \in Chars, NEW k, NEW q \in Texts, NEW w, w = <<c>> \o q, NEW rest \in Texts, NEW more, NEW spaced,
           Good(k, q \o rest, more, spaced), Moves(j, c, k, "OK"), j.final = "OK"
    PROVE  w \in Texts /\ Good(j, w \o rest, more, spaced)
<1>1. Good(j, (<<c>> \o q) \o rest, more, spaced)
  BY RowBefore
<1>2. <<c>> \o q \in Texts
  BY DEF Texts
<1> QED
  BY <1>1, <1>2

LEMMA StringInside ==
    ASSUME NEW s \in Stacks, NEW rest, NEW more, NEW spaced, Good(Ended(s), rest, more, spaced)
    PROVE  /\ Good(At("string", s), <<"x", "]", Quote>> \o rest, <<"STRING">> \o more, spaced)
           /\ <<"x", "]", Quote>> \in Texts
<1> DEFINE j == At("string", s)
           k == Ended(s)
           one == <<Quote>>
           two == <<"]", Quote>>
           three == <<"x", "]", Quote>>
           told == <<"STRING">> \o more
<1>1. rest \in Texts /\ Quote \in Chars /\ "]" \in Chars /\ "x" \in Chars /\ "STRING" \in Toks
  BY GoodTypes, CharsAre DEF Toks
<1>2. Quote # "]" /\ Quote # "x"
  BY DEF Quote
<1>3. StringMoves(s, j, Quote, k, "STRING") /\ StringMoves(s, j, "]", j, "OK") /\ StringMoves(s, j, "x", j, "OK")
  BY <1>2 DEF StringMoves
<1>4. Moves(j, Quote, k, "STRING") /\ Moves(j, "]", j, "OK") /\ Moves(j, "x", j, "OK") /\ j.final = "OK"
  BY <1>3, MoveIs, AtIs
<1>5. two = <<"]">> \o one /\ three = <<"x">> \o two
  OBVIOUS
<1>6. one \in Texts
  <2>1. one \in Seq(Chars)
    BY <1>1, RowsAre
  <2> QED
    BY <2>1 DEF Texts
<1> HIDE DEF j, k
<1>7. Good(j, one \o rest, told, spaced)
  BY <1>1, <1>4, OneToken DEF k
<1> HIDE DEF one, two, three, told
<1>8. two \in Texts /\ Good(j, two \o rest, told, spaced)
  BY <1>1, <1>4, <1>5, <1>6, <1>7, RowGrows
<1>9. three \in Texts /\ Good(j, three \o rest, told, spaced)
  BY <1>1, <1>4, <1>5, <1>8, RowGrows
<1> QED
  BY <1>9 DEF j, three, told

LEMMA StringsAre == \A v \in Strings : v = [text |-> <<Quote>> \o <<"x", "]", Quote>>, toks |-> <<"STRING">>, spaced |-> TRUE]
<1>1. <<Quote, "x", "]", Quote>> = <<Quote>> \o <<"x", "]", Quote>>
  OBVIOUS
<1> QED
  BY <1>1 DEF Strings, Scalar

LEMMA StringsRead ==
    ASSUME NEW v \in Strings, NEW n \in Nat, NEW spaced
    PROVE  v \in Docs /\ Reads(v, n, spaced)
<1> DEFINE three == <<"x", "]", Quote>>
<1>1. v = [text |-> <<Quote>> \o three, toks |-> <<"STRING">>, spaced |-> TRUE]
  BY StringsAre
<1>2. ASSUME NEW s \in Stacks, NEW rest, NEW more, Good(Ended(s), rest, more, spaced)
      PROVE  Good(At("start", s), v.text \o rest, v.toks \o more, spaced)
  <2> DEFINE j == At("start", s)
             k == At("string", s)
             told == <<"STRING">> \o more
  <2>1. Good(k, three \o rest, told, spaced) /\ three \in Texts /\ rest \in Texts
    BY <1>2, StringInside, GoodTypes
  <2>2. Begins(s, Quote, k, "OK") /\ Quote \in Chars
    BY CharsAre DEF Begins
  <2>3. StartMoves(s, j, Quote, k, "OK")
    BY <2>2 DEF StartMoves
  <2>4. Moves(j, Quote, k, "OK") /\ j.final = "OK"
    BY <2>3, MoveIs, AtIs
  <2> HIDE DEF j, k, told, three
  <2>5. Good(j, (<<Quote>> \o three) \o rest, told, spaced)
    BY <2>1, <2>2, <2>4, RowBefore
  <2> QED
    BY <1>1, <2>5 DEF j, told
<1>3. v \in Docs
  <2>1. Quote \in Chars /\ "x" \in Chars /\ "]" \in Chars /\ "STRING" \in Toks
    BY CharsAre DEF Toks
  <2>2. three \in Seq(Chars) /\ <<"STRING">> \in Seq(Toks)
    BY <2>1, RowsAre
  <2> HIDE DEF three
  <2>3. <<Quote>> \o three \in Seq(Chars)
    BY <2>1, <2>2
  <2> QED
    BY <1>1, <2>2, <2>3 DEF Docs, Texts, Tokenses
<1> QED
  BY <1>2, <1>3 DEF Reads, Leads
\* A number's own characters.
LEMMA NumberGoes ==
    ASSUME NEW s \in Stacks
    PROVE  /\ Moves(At("int", s), "1", At("int", s), "OK") /\ Moves(At("int", s), ".", At("frac", s), "OK")
           /\ Moves(At("frac", s), "1", At("frac", s), "OK") /\ Moves(At("frac", s), "e", At("esign", s), "OK")
           /\ Moves(At("esign", s), "+", At("exp", s), "OK") /\ Moves(At("exp", s), "1", At("exp", s), "OK")
<1>1. ASSUME NEW p \in InNumber, NEW q \in InNumber, NEW c, <<p, c, q>> \in NumberSteps
      PROVE  Moves(At(p, s), c, At(q, s), "OK")
  <2>1. NumberMoves(s, At(p, s), c, At(q, s), "OK")
    BY <1>1 DEF NumberMoves
  <2> QED
    BY <2>1, MoveIs
<1>2. /\ <<"int", "1", "int">> \in NumberSteps /\ <<"int", ".", "frac">> \in NumberSteps
      /\ <<"frac", "1", "frac">> \in NumberSteps /\ <<"frac", "e", "esign">> \in NumberSteps
      /\ <<"esign", "+", "exp">> \in NumberSteps /\ <<"exp", "1", "exp">> \in NumberSteps
  BY DEF NumberSteps
<1>3. "int" \in InNumber /\ "frac" \in InNumber /\ "esign" \in InNumber /\ "exp" \in InNumber
  BY DEF InNumber
<1> QED
  BY <1>1, <1>2, <1>3

\* A number without a space behind it: what ends it is the next character, whose
\* token is dropped.
LEMMA UnspacedEnd ==
    ASSUME NEW s, Ready(s), NEW rest, rest # <<>>, NEW more, NEW spaced, ~spaced, Good(Ended(s), rest, more, spaced)
    PROVE  Good(At("frac", s), rest, <<"NUMBER">> \o more, spaced)
<1>1. s \in Stacks /\ more \in Tokenses
  BY GoodTypes DEF Ready
<1> DEFINE from == Ended(s)
<1>2. \E c \in Chars, t \in Toks \cup {"OK", "DONE"} : \E k, r, after :
        /\ rest = <<c>> \o r /\ Moves(from, c, k, t) /\ Tells(t, more, after, spaced)
        /\ Good(k, r, after, spaced) /\ (r # <<>> => from.final = "OK")
  <2>1. Good(from, rest, more, spaced)
    OBVIOUS
  <2> HIDE DEF from
  <2> QED
    BY <2>1, GoodAfter
<1>3. PICK c \in Chars, t \in Toks \cup {"OK", "DONE"} : \E k, r, after :
        /\ rest = <<c>> \o r /\ Moves(from, c, k, t) /\ Tells(t, more, after, spaced)
        /\ Good(k, r, after, spaced)
  BY <1>2
<1>4. PICK k, r, after :
        /\ rest = <<c>> \o r /\ Moves(from, c, k, t) /\ Tells(t, more, after, spaced)
        /\ Good(k, r, after, spaced)
  BY <1>3
<1>5. Behind(s, c, k, t)
  BY <1>1, <1>4, EndedIs
<1>6. t \in {"OK", "DONE"} \cup Ends
  BY <1>5 DEF Behind, EndOf, Ends
<1> DEFINE j == At("frac", s)
           told == <<"NUMBER">> \o more
<1>7. NumberMoves(s, j, c, k, "NUMBER")
  BY <1>5, <1>6 DEF NumberMoves
<1>8. Moves(j, c, k, "NUMBER") /\ j.final = "OK"
  BY <1>1, <1>7, MoveIs, AtIs
<1>9. "NUMBER" \in Toks /\ told \in Tokenses
  <2>1. "NUMBER" \in Toks
    BY DEF Toks
  <2> QED
    BY <1>1, <2>1 DEF Tokenses
<1>10. Tells("NUMBER", told, after, spaced)
  <2>1. CASE t \in {"OK", "DONE"}
    <3>1. after = more
      BY <1>4, <2>1 DEF Tells, Toks
    <3> QED
      BY <1>9, <3>1 DEF Tells
  <2>2. CASE t \in Ends
    <3>1. more = <<t>> \o after
      BY <1>4, <2>2 DEF Tells, Ends
    <3> QED
      BY <2>2, <3>1 DEF Tells
  <2> QED
    BY <1>6, <2>1, <2>2
<1> HIDE DEF j, told, from
<1>11. Good(j, <<c>> \o r, told, spaced)
  BY <1>4, <1>8, <1>9, <1>10, GoodBefore
<1> QED
  BY <1>4, <1>11 DEF j, told

\* A number with a space behind it.
LEMMA SpacedEnd ==
    ASSUME NEW s, Ready(s), NEW rest, NEW more, NEW spaced, Good(Ended(s), rest, more, spaced)
    PROVE  Good(At("exp", s), <<" ">> \o rest, <<"NUMBER">> \o more, spaced)
<1>1. s \in Stacks
  BY DEF Ready
<1> DEFINE j == At("exp", s)
           k == Ended(s)
<1>2. \E u \in {"OK", "DONE"} \cup Ends : Behind(s, " ", k, u)
  <2>1. CASE s = <<>>
    <3>1. k = Complete
      BY <2>1 DEF Ended
    <3>2. Behind(s, " ", k, "DONE")
      BY <2>1, <3>1 DEF Behind
    <3> QED
      BY <3>2
  <2>2. CASE s # <<>>
    <3>1. Behind(s, " ", k, "OK")
      BY <2>2 DEF Behind, Ready
    <3> QED
      BY <3>1
  <2> QED
    BY <2>1, <2>2
<1>3. NumberMoves(s, j, " ", k, "NUMBER")
  BY <1>2 DEF NumberMoves
<1>4. Moves(j, " ", k, "NUMBER") /\ j.final = "OK" /\ " " \in Chars /\ "NUMBER" \in Toks
  BY <1>1, <1>3, MoveIs, AtIs, CharsAre DEF Toks
<1> HIDE DEF j, k
<1>5. Good(j, <<" ">> \o rest, <<"NUMBER">> \o more, spaced)
  BY <1>4, OneToken DEF k
<1> QED
  BY <1>5 DEF j

\* The first character of a number.
LEMMA NumberBegin ==
    ASSUME NEW s \in Stacks
    PROVE  Moves(At("start", s), "+", At("int", s), "OK") /\ Moves(At("start", s), ".", At("frac", s), "OK")
<1>1. Begins(s, "+", At("int", s), "OK") /\ Begins(s, ".", At("frac", s), "OK")
  BY DEF Begins
<1>2. StartMoves(s, At("start", s), "+", At("int", s), "OK") /\ StartMoves(s, At("start", s), ".", At("frac", s), "OK")
  BY <1>1 DEF StartMoves
<1> QED
  BY <1>2, MoveIs

LEMMA FractionReads ==
    ASSUME NEW n \in Nat, NEW spaced, NEW v, v = [text |-> <<".", "1">>, toks |-> <<"NUMBER">>, spaced |-> FALSE]
    PROVE  v \in Docs /\ Reads(v, n, spaced)
<1> DEFINE one == <<"1">>
           two == <<".", "1">>
<1>1. "1" \in Chars /\ "." \in Chars /\ "NUMBER" \in Toks
  BY CharsAre DEF Toks
<1>2. one \in Seq(Chars) /\ two \in Seq(Chars)
  <2>1. one \in Seq(Chars)
    BY <1>1, RowsAre
  <2>2. two \in Seq(Chars)
    BY <1>1, RowsAre
  <2> QED
    BY <2>1, <2>2
<1>3. two = <<".">> \o one
  OBVIOUS
<1>4. v.text = two /\ v.toks = <<"NUMBER">> /\ v.spaced = FALSE
  OBVIOUS
<1>5. <<"NUMBER">> \in Seq(Toks)
  BY <1>1, RowsAre
<1>6. v \in Docs
  <2> HIDE DEF two
  <2>1. v = [text |-> two, toks |-> <<"NUMBER">>, spaced |-> FALSE]
    BY DEF two
  <2> QED
    BY <1>2, <1>5, <2>1 DEF Docs, Texts, Tokenses
<1>7. ASSUME NEW s, Ready(s), NEW rest, rest # <<>>, NEW more, Good(Ended(s), rest, more, spaced), ~spaced
      PROVE  Good(At("start", s), two \o rest, <<"NUMBER">> \o more, spaced)
  <2> DEFINE told == <<"NUMBER">> \o more
             j == At("frac", s)
             from == At("start", s)
  <2>1. s \in Stacks /\ rest \in Texts
    BY <1>7, GoodTypes DEF Ready
  <2>2. Good(j, rest, told, spaced)
    BY <1>7, UnspacedEnd
  <2>3. Moves(j, "1", j, "OK") /\ Moves(from, ".", j, "OK") /\ j.final = "OK" /\ from.final = "OK"
    BY <2>1, NumberGoes, NumberBegin, AtIs
  <2> HIDE DEF j, told, from
  <2>4. Good(j, one \o rest, told, spaced)
    BY <1>1, <2>2, <2>3, NoToken
  <2> HIDE DEF one, two
  <2>5. Good(from, two \o rest, told, spaced)
    <3>1. one \in Texts
      BY <1>2 DEF Texts
    <3> QED
      BY <1>1, <1>3, <2>1, <2>3, <2>4, <3>1, RowGrows
  <2> QED
    BY <2>5 DEF told, from
<1>8. ~spaced => \A s \in Stacks : Ready(s) => Leads(v, At("start", s), Ended(s), spaced)
  <2> HIDE DEF one, two
  <2> QED
    BY <1>4, <1>7 DEF Leads
<1> QED
  BY <1>4, <1>6, <1>8 DEF Reads

LEMMA ExponentRows ==
    /\ <<"+", "1", ".", "1", "e", "+", "1", " ">> \in Texts
    /\ \A s, rest, more, spaced :
          Ready(s) /\ Good(Ended(s), rest, more, spaced) =>
              Good(At("start", s), <<"+", "1", ".", "1", "e", "+", "1", " ">> \o rest, <<"NUMBER">> \o more, spaced)
<1>0. PICK sp : sp = " "
  OBVIOUS
<1> DEFINE r1 == <<sp>>
           r2 == <<"1", sp>>
           r3 == <<"+", "1", sp>>
           r4 == <<"e", "+", "1", sp>>
           r5 == <<"1", "e", "+", "1", sp>>
           r6 == <<".", "1", "e", "+", "1", sp>>
           r7 == <<"1", ".", "1", "e", "+", "1", sp>>
           r8 == <<"+", "1", ".", "1", "e", "+", "1", sp>>
<1>1. "1" \in Chars /\ "." \in Chars /\ "+" \in Chars /\ "e" \in Chars /\ sp \in Chars /\ "NUMBER" \in Toks
  BY <1>0, CharsAre DEF Toks
<1>2. r2 = <<"1">> \o r1 /\ r3 = <<"+">> \o r2 /\ r4 = <<"e">> \o r3 /\ r5 = <<"1">> \o r4
  <2>1. r2 = <<"1">> \o r1
    OBVIOUS
  <2>2. r3 = <<"+">> \o r2
    OBVIOUS
  <2>3. r4 = <<"e">> \o r3
    OBVIOUS
  <2>4. r5 = <<"1">> \o r4
    OBVIOUS
  <2> HIDE DEF r1, r2, r3, r4, r5
  <2> QED
    BY <2>1, <2>2, <2>3, <2>4
<1>3. r6 = <<".">> \o r5 /\ r7 = <<"1">> \o r6 /\ r8 = <<"+">> \o r7
  <2>1. r6 = <<".">> \o r5
    OBVIOUS
  <2>2. r7 = <<"1">> \o r6
    OBVIOUS
  <2>3. r8 = <<"+">> \o r7
    OBVIOUS
  <2> HIDE DEF r5, r6, r7, r8
  <2> QED
    BY <2>1, <2>2, <2>3
<1>4. r1 \in Texts
  <2>1. r1 \in Seq(Chars)
    BY <1>1, RowsAre
  <2> QED
    BY <2>1 DEF Texts
<1> HIDE DEF r2, r3, r4, r5, r6, r7, r8
<1>6. r8 \in Texts
  <2>1. ASSUME NEW c \in Chars, NEW q \in Texts PROVE <<c>> \o q \in Texts
    BY DEF Texts
  <2> HIDE DEF r1
  <2>2. r2 \in Texts /\ r3 \in Texts /\ r4 \in Texts /\ r5 \in Texts
    BY <1>1, <1>2, <1>4, <2>1
  <2> QED
    BY <1>1, <1>3, <2>1, <2>2
<1>8. ASSUME NEW s, Ready(s), NEW rest, NEW more, NEW spaced, Good(Ended(s), rest, more, spaced)
      PROVE  Good(At("start", s), r8 \o rest, <<"NUMBER">> \o more, spaced)
  <2> DEFINE told == <<"NUMBER">> \o more
             start == At("start", s)
             int == At("int", s)
             frac == At("frac", s)
             esign == At("esign", s)
             exp == At("exp", s)
  <2>1. s \in Stacks /\ rest \in Texts
    BY <1>8, GoodTypes DEF Ready
  <2>2. Good(exp, r1 \o rest, told, spaced)
    BY <1>0, <1>8, SpacedEnd
  <2>3. /\ Moves(start, "+", int, "OK") /\ Moves(int, "1", int, "OK") /\ Moves(int, ".", frac, "OK")
        /\ Moves(frac, "1", frac, "OK") /\ Moves(frac, "e", esign, "OK") /\ Moves(esign, "+", exp, "OK")
        /\ Moves(exp, "1", exp, "OK")
    BY <2>1, NumberGoes, NumberBegin
  <2>4. start.final = "OK" /\ int.final = "OK" /\ frac.final = "OK" /\ esign.final = "OK" /\ exp.final = "OK"
    BY AtIs
  <2> HIDE DEF told, start, int, frac, esign, exp, r1
  <2>5. r2 \in Texts /\ Good(exp, r2 \o rest, told, spaced)
    BY <1>1, <1>2, <1>4, <2>1, <2>2, <2>3, <2>4, RowGrows
  <2>6. r3 \in Texts /\ Good(esign, r3 \o rest, told, spaced)
    BY <1>1, <1>2, <2>1, <2>3, <2>4, <2>5, RowGrows
  <2>7. r4 \in Texts /\ Good(frac, r4 \o rest, told, spaced)
    BY <1>1, <1>2, <2>1, <2>3, <2>4, <2>6, RowGrows
  <2>8. r5 \in Texts /\ Good(frac, r5 \o rest, told, spaced)
    BY <1>1, <1>2, <2>1, <2>3, <2>4, <2>7, RowGrows
  <2>9. r6 \in Texts /\ Good(int, r6 \o rest, told, spaced)
    BY <1>1, <1>3, <2>1, <2>3, <2>4, <2>8, RowGrows
  <2>10. r7 \in Texts /\ Good(int, r7 \o rest, told, spaced)
    BY <1>1, <1>3, <2>1, <2>3, <2>4, <2>9, RowGrows
  <2>11. Good(start, r8 \o rest, told, spaced)
    BY <1>1, <1>3, <2>1, <2>3, <2>4, <2>10, RowGrows
  <2> QED
    BY <2>11 DEF told, start
<1> HIDE DEF r1
<1> QED
  BY <1>0, <1>6, <1>8, Zenon DEF r8

LEMMA NumberReads ==
    ASSUME NEW n \in Nat, NEW spaced, NEW row \in Texts,
           \A s, rest, more : Ready(s) /\ Good(Ended(s), rest, more, spaced) =>
               Good(At("start", s), row \o rest, <<"NUMBER">> \o more, spaced)
    PROVE  Scalar(row, "NUMBER") \in Docs /\ Reads(Scalar(row, "NUMBER"), n, spaced)
<1> DEFINE told == <<"NUMBER">>
           v == Scalar(row, "NUMBER")
<1>1. v = [text |-> row, toks |-> told, spaced |-> TRUE]
  BY DEF Scalar
<1>2. told \in Seq(Toks)
  <2>1. "NUMBER" \in Toks
    BY DEF Toks
  <2> QED
    BY <2>1, RowsAre
<1>3. \A s, rest, more : Ready(s) /\ Good(Ended(s), rest, more, spaced) => Good(At("start", s), row \o rest, told \o more, spaced)
  OBVIOUS
<1> HIDE DEF v, told
<1>4. v \in Docs /\ v.text = row /\ v.toks = told
  BY <1>1, <1>2 DEF Docs, Tokenses
<1>5. v \in Docs /\ Reads(v, n, spaced)
  BY <1>3, <1>4 DEF Reads, Leads
<1> QED
  BY <1>5 DEF v

LEMMA ScalarsRead ==
    ASSUME NEW v \in Scalars, NEW n \in Nat, NEW spaced
    PROVE  v \in Docs /\ Reads(v, n, spaced)
<1>1. CASE v \in Numbers
  <2> DEFINE row == <<"+", "1", ".", "1", "e", "+", "1", " ">>
             v1 == [text |-> <<".", "1">>, toks |-> <<"NUMBER">>, spaced |-> FALSE]
  <2>1. v = v1 \/ v = Scalar(row, "NUMBER")
    BY <1>1 DEF Numbers
  <2>2. v1 \in Docs /\ Reads(v1, n, spaced)
    BY FractionReads
  <2>3. /\ row \in Texts
        /\ \A s, rest, more, yes : Ready(s) /\ Good(Ended(s), rest, more, yes) =>
               Good(At("start", s), row \o rest, <<"NUMBER">> \o more, yes)
    BY ExponentRows, Zenon
  <2> HIDE DEF row, v1
  <2>4. Scalar(row, "NUMBER") \in Docs /\ Reads(Scalar(row, "NUMBER"), n, spaced)
    BY <2>3, NumberReads
  <2> QED
    BY <2>1, <2>2, <2>4
<1> QED
  BY <1>1, WordsRead, StringsRead DEF Scalars-----------------------------------------------------------------------------
(* The grammar: containers *)

LEMMA Assoc ==
    ASSUME NEW S, NEW x \in Seq(S), NEW y \in Seq(S), NEW z \in Seq(S)
    PROVE  x \o y \in Seq(S) /\ (x \o y) \o z = x \o (y \o z)
OBVIOUS

\* Four and five texts put together, kept as they are.
Joined4(a, b, c, d) == ((a \o b) \o c) \o d
Joined5(a, b, c, d, e) == (((a \o b) \o c) \o d) \o e
InFront4(a, b, c, d) == a \o (b \o (c \o d))
InFront5(a, b, c, d, e) == a \o (b \o (c \o (d \o e)))

\* Rows of characters and of tokens.
Rows == Seq(Chars \cup Toks)

LEMMA RowsHold == Texts \subseteq Rows /\ Tokenses \subseteq Rows
BY DEF Rows, Texts, Tokenses

LEMMA Regroup4 == \A a, b, c, d \in Rows : Joined4(a, b, c, d) = InFront4(a, b, c, d)
<1> DEFINE S == Chars \cup Toks
<1> SUFFICES ASSUME NEW a \in Seq(S), NEW b \in Seq(S), NEW c \in Seq(S), NEW d \in Seq(S)
             PROVE  Joined4(a, b, c, d) = a \o (b \o (c \o d))
  BY DEF Rows, InFront4
<1> HIDE DEF S
<1> DEFINE ab == a \o b
           cd == c \o d
<1>1. ab \in Seq(S) /\ cd \in Seq(S) /\ (a \o b) \o cd = a \o (b \o cd)
  OBVIOUS
<1>2. Joined4(a, b, c, d) = (ab \o c) \o d
  BY DEF Joined4
<1> HIDE DEF ab
<1>3. (ab \o c) \o d = ab \o (c \o d)
  BY <1>1
<1> QED
  BY <1>1, <1>2, <1>3 DEF ab

LEMMA Regroup5 == \A a, b, c, d, e \in Rows : Joined5(a, b, c, d, e) = InFront5(a, b, c, d, e)
<1> DEFINE S == Chars \cup Toks
<1> SUFFICES ASSUME NEW a \in Seq(S), NEW b \in Seq(S), NEW c \in Seq(S), NEW d \in Seq(S), NEW e \in Seq(S)
             PROVE  Joined5(a, b, c, d, e) = a \o (b \o (c \o (d \o e)))
  BY DEF Rows, InFront5
<1> HIDE DEF S
<1> DEFINE ab == a \o b
           abc == ab \o c
           de == d \o e
           cde == c \o de
<1>1. ab \in Seq(S) /\ de \in Seq(S) /\ Joined5(a, b, c, d, e) = (abc \o d) \o e
  BY DEF Joined5
<1> HIDE DEF ab, de
<1>2. abc \in Seq(S) /\ abc \o de = ab \o (c \o de)
  BY <1>1
<1> HIDE DEF abc
<1>3. (abc \o d) \o e = abc \o (d \o e)
  BY <1>2
<1>4. cde \in Seq(S)
  BY <1>1
<1> HIDE DEF cde
<1>5. (a \o b) \o cde = a \o (b \o cde)
  BY <1>4
<1> QED
  BY <1>1, <1>2, <1>3, <1>5 DEF ab, de, cde

\* Parts joined one by one.
Nothing == [text |-> <<>>, toks |-> <<>>, spaced |-> TRUE]
Joins(l, sep, v) ==
    [text |-> l.text \o sep \o v.text, toks |-> l.toks \o v.toks, spaced |-> l.spaced /\ v.spaced]

LEMMA JoinsIs ==
    ASSUME NEW l \in Docs, NEW sep \in Texts, NEW v \in Docs
    PROVE  Joins(l, sep, v) \in Docs
<1> DEFINE lt == l.text
           vt == v.text
           lk == l.toks
           vk == v.toks
           yes == l.spaced /\ v.spaced
<1>1. lt \in Seq(Chars) /\ vt \in Seq(Chars) /\ lk \in Seq(Toks) /\ vk \in Seq(Toks) /\ sep \in Seq(Chars)
  BY DEF Docs, Texts, Tokenses
<1>2. yes \in BOOLEAN
  <2>1. l.spaced \in BOOLEAN /\ v.spaced \in BOOLEAN
    BY DEF Docs
  <2> QED
    BY <2>1, Zenon
<1> DEFINE row == (lt \o sep) \o vt
           toks == lk \o vk
<1>3. Joins(l, sep, v) = [text |-> row, toks |-> toks, spaced |-> yes]
  BY Zenon DEF Joins
<1> HIDE DEF lt, vt, lk, vk, yes
<1>4. row \in Seq(Chars) /\ toks \in Seq(Toks)
  BY <1>1
<1> HIDE DEF row, toks
<1> QED
  BY <1>2, <1>3, <1>4 DEF Docs, Texts, Tokenses


ChainOf(ps, sep, f) ==
    /\ f \in [0..Len(ps) -> Docs] /\ f[0] = Nothing
    /\ \A m \in 1..Len(ps) : f[m] = Joins(f[m - 1], IF m = 1 THEN <<>> ELSE sep, ps[m])

LEMMA ChainIs ==
    ASSUME NEW ps \in Seq(Docs), NEW sep \in Texts
    PROVE  \E f : ChainOf(ps, sep, f) /\ Chain(ps, sep) = f[Len(ps)]
<1> DEFINE n == Len(ps)
           Before(m) == IF m = 1 THEN <<>> ELSE sep
           Next1(x, m) == Joins(x, Before(m), ps[m])
           Loop(f) == f = [m \in 0..n |-> IF m = 0 THEN Nothing ELSE Next1(f[m - 1], m)]
           f == CHOOSE f : Loop(f)
           step == [m \in 1..n |-> [x \in Docs |-> Next1(x, m)]]
<1>1. n \in Nat /\ \A m \in 1..n : ps[m] \in Docs /\ Before(m) \in Texts
  BY DEF Texts
<1>2. Chain(ps, sep) = f[n]
  BY DEF Chain, Joins, Nothing
<1>3. Nothing \in Docs
  BY DEF Nothing, Docs, Texts, Tokenses
<1> HIDE DEF n, Before
<1>4. \A x \in Docs : \A m \in 1..n : Next1(x, m) \in Docs
  BY <1>1, JoinsIs
<1> HIDE DEF Next1
<1>5. step \in [1..n -> [Docs -> Docs]]
  BY <1>4
<1>6. PICK h : Builds(Docs, Nothing, step, n, h)
  <2> HIDE DEF step
  <2> QED
    BY <1>1, <1>3, <1>5, Built
<1>7. h \in [0..n -> Docs] /\ h[0] = Nothing /\ \A m \in 1..n : h[m] = Next1(h[m - 1], m)
  <2>1. h \in [0..n -> Docs] /\ h[0] = Nothing /\ \A m \in 1..n : h[m] = step[m][h[m - 1]]
    BY <1>6 DEF Builds
  <2>2. \A m \in 1..n : m - 1 \in 0..n
    BY <1>1
  <2> QED
    BY <2>1, <2>2
<1> HIDE DEF step
<1>8. Loop(h)
  BY <1>7
<1>9. Loop(f)
  BY <1>8
<1> HIDE DEF f
<1>10. f[0] = Nothing /\ \A m \in 1..n : f[m] = Next1(f[m - 1], m)
  <2>1. f = [m \in 0..n |-> IF m = 0 THEN Nothing ELSE Next1(f[m - 1], m)]
    BY <1>9
  <2>2. 0 \in 0..n /\ \A m \in 1..n : m \in 0..n /\ m # 0
    BY <1>1
  <2> HIDE DEF Loop
  <2> QED
    BY <2>1, <2>2
<1>11. \A m \in 0..n : f[m] \in Docs
  <2>1. \A m \in 1..n : f[m - 1] \in Docs => f[m] \in Docs
    BY <1>4, <1>10
  <2> QED
    BY <1>1, <1>3, <1>10, <2>1, StaysIn
<1>12. f \in [0..n -> Docs]
  <2>1. f = [m \in 0..n |-> f[m]]
    BY <1>9
  <2> QED
    BY <1>11, <2>1
<1>13. ChainOf(ps, sep, f)
  BY <1>10, <1>12 DEF ChainOf, n, Next1, Before
<1> QED
  BY <1>2, <1>13 DEF n
LEMMA ChainIsDoc ==
    ASSUME NEW ps \in Seq(Docs), NEW sep \in Texts
    PROVE  /\ Chain(ps, sep) \in Docs
           /\ Chain(ps, sep).spaced => \A p \in 1..Len(ps) : ps[p].spaced
<1> DEFINE n == Len(ps)
<1>1. n \in Nat
  OBVIOUS
<1>2. PICK f : ChainOf(ps, sep, f) /\ Chain(ps, sep) = f[n]
  BY ChainIs
<1>3. f \in [0..n -> Docs] /\ \A m \in 1..n : f[m].spaced => f[m - 1].spaced /\ ps[m].spaced
  <2>1. ASSUME NEW m \in 1..n, f[m].spaced PROVE f[m - 1].spaced /\ ps[m].spaced
    <3> DEFINE before == IF m = 1 THEN <<>> ELSE sep
    <3>1. f[m] = Joins(f[m - 1], before, ps[m])
      BY <1>2, <2>1 DEF ChainOf
    <3> HIDE DEF before
    <3>2. f[m].spaced = (f[m - 1].spaced /\ ps[m].spaced)
      BY <3>1 DEF Joins
    <3> QED
      BY <2>1, <3>2, Zenon
  <2> QED
    BY <1>2, <2>1 DEF ChainOf
<1> HIDE DEF n
<1> DEFINE S == {m \in Nat : m <= n /\ f[m].spaced => \A p \in 1..m : ps[p].spaced}
<1>4. 0 \in S
  OBVIOUS
<1>5. ASSUME NEW m \in Nat, m \in S PROVE m + 1 \in S
  <2> DEFINE q == m + 1
  <2> SUFFICES ASSUME q <= n, f[q].spaced PROVE \A p \in 1..q : ps[p].spaced
    OBVIOUS
  <2>1. q \in 1..n /\ q - 1 = m /\ \A p \in 1..q : p \in 1..m \/ p = q
    BY <1>1
  <2> HIDE DEF q
  <2>2. f[m].spaced /\ ps[q].spaced
    BY <1>3, <2>1
  <2>3. \A p \in 1..m : ps[p].spaced
    BY <1>1, <1>5, <2>1, <2>2
  <2> QED
    BY <2>1, <2>2, <2>3
<1>6. \A m \in Nat : m \in S
  <2> HIDE DEF S
  <2> QED
    BY <1>4, <1>5, SetInduction
<1> QED
  BY <1>1, <1>2, <1>3, <1>6 DEF n

\* From the opening bracket to the last item, over a comma before each but the first.
LEMMA ChainLeads ==
    ASSUME NEW ps \in Seq(Docs), NEW first, NEW comma, NEW after, NEW spaced, NEW ch \in Chars,
           \A p \in 1..Len(ps) : Leads(ps[p], first, after, spaced) /\ Leads(ps[p], comma, after, spaced),
           Moves(after, ch, comma, "OK"), after.final = "OK",
           NEW rest, rest # <<>>, NEW more, NEW last, Good(last, rest, more, spaced),
           (ps = <<>> /\ last = first) \/ (ps # <<>> /\ last = after)
    PROVE  Good(first, Chain(ps, <<ch>>).text \o rest, Chain(ps, <<ch>>).toks \o more, spaced)
<1> DEFINE n == Len(ps)
           sep == <<ch>>
<1>1. n \in Nat /\ (ps = <<>> <=> n = 0) /\ \A p \in 1..n : ps[p] \in Docs
  BY EmptySeq
<1>2. sep \in Texts /\ sep \in Seq(Chars)
  BY DEF Texts
<1>3. PICK f : ChainOf(ps, sep, f) /\ Chain(ps, sep) = f[n]
  <2> HIDE DEF sep
  <2> QED
    BY <1>2, ChainIs
<1>4. f \in [0..n -> Docs] /\ f[0] = Nothing /\ \A m \in 1..n : f[m] = Joins(f[m - 1], IF m = 1 THEN <<>> ELSE sep, ps[m])
  BY <1>3 DEF ChainOf
<1> DEFINE From(m) == IF m = 0 THEN first ELSE after
           Told(m) == \A r, x : r # <<>> /\ Good(From(m), r, x, spaced) => Good(first, f[m].text \o r, f[m].toks \o x, spaced)
           S == {m \in Nat : m <= n => Told(m)}
<1>5. \A p \in 1..n : \A r, x : r # <<>> => /\ Good(after, r, x, spaced) => Good(first, ps[p].text \o r, ps[p].toks \o x, spaced)
                                            /\ Good(after, r, x, spaced) => Good(comma, ps[p].text \o r, ps[p].toks \o x, spaced)
  BY DEF Leads
<1>6. 0 \in S
  <2> SUFFICES ASSUME NEW r, NEW x, Good(first, r, x, spaced) PROVE Good(first, f[0].text \o r, f[0].toks \o x, spaced)
    OBVIOUS
  <2>1. r \in Seq(Chars) /\ x \in Seq(Toks)
    BY GoodTypes DEF Texts, Tokenses
  <2>2. <<>> \o r = r /\ <<>> \o x = x
    BY <2>1
  <2>3. f[0].text = <<>> /\ f[0].toks = <<>>
    BY <1>4 DEF Nothing
  <2> QED
    BY <2>2, <2>3
<1> HIDE DEF n, sep
<1>7. ASSUME NEW m \in Nat, m \in S PROVE m + 1 \in S
  <2> DEFINE q == m + 1
  <2> SUFFICES ASSUME q <= n PROVE Told(q)
    OBVIOUS
  <2>1. q \in 1..n /\ q - 1 = m /\ q # 0 /\ (q = 1 <=> m = 0) /\ m \in 0..n
    BY <1>1
  <2> HIDE DEF q
  <2> SUFFICES ASSUME NEW r, r # <<>>, NEW x, Good(after, r, x, spaced)
               PROVE  Good(first, f[q].text \o r, f[q].toks \o x, spaced)
    BY <2>1
  <2>2. r \in Seq(Chars) /\ x \in Seq(Toks)
    BY GoodTypes DEF Texts, Tokenses
  <2> DEFINE v == ps[q]
             vt == v.text
             vk == v.toks
             lt == f[m].text
             lk == f[m].toks
  <2>3. /\ vt \in Seq(Chars) /\ vk \in Seq(Toks) /\ lt \in Seq(Chars) /\ lk \in Seq(Toks)
        /\ v \in Docs /\ f[m] \in Docs
    BY <1>1, <1>4, <2>1 DEF Docs, Texts, Tokenses
  <2>4. f[q].toks = lk \o vk /\ f[q].text = (IF m = 0 THEN lt \o <<>> ELSE lt \o sep) \o vt
    <3> DEFINE before == IF m = 0 THEN <<>> ELSE sep
               l == f[m]
    <3>1. f[q] = Joins(l, before, v)
      BY <1>4, <2>1
    <3> HIDE DEF before, l, v
    <3> DEFINE j == f[q]
    <3>2. j = Joins(l, before, v)
      BY <3>1
    <3> HIDE DEF j
    <3>3. j.toks = l.toks \o v.toks /\ j.text = (l.text \o before) \o v.text
      BY <3>2 DEF Joins
    <3> QED
      BY <3>3 DEF before, l, j
  <2>5. /\ Good(first, vt \o r, vk \o x, spaced) /\ Good(comma, vt \o r, vk \o x, spaced)
    BY <1>5, <2>1
  <2> HIDE DEF v, vt, vk, lt, lk
  <2>6. CASE m = 0
    <3>1. lt = <<>> /\ lk = <<>>
      BY <1>4, <2>6 DEF lt, lk, Nothing
    <3>2. f[q].toks = vk /\ f[q].text = vt
      BY <2>3, <2>4, <2>6, <3>1
    <3> QED
      BY <2>5, <3>2
  <2>7. CASE m # 0
    <3> DEFINE row == vt \o r
               told == vk \o x
               long == sep \o row
    <3>1. row \in Seq(Chars) /\ told \in Seq(Toks) /\ lk \o vk \in Seq(Toks)
      BY <2>2, <2>3
    <3>2. (lk \o vk) \o x = lk \o told
      <4>1. lk \in Seq(Toks) /\ vk \in Seq(Toks) /\ x \in Seq(Toks)
        BY <2>2, <2>3
      <4> QED
        BY <4>1, Assoc
    <3>3. Joined4(lt, sep, vt, r) = lt \o long
      <4>1. lt \in Texts /\ sep \in Texts /\ vt \in Texts /\ r \in Texts
        BY <1>2, <2>2, <2>3 DEF Texts
      <4>2. lt \in Rows /\ sep \in Rows /\ vt \in Rows /\ r \in Rows
        BY <4>1, RowsHold
      <4>3. Joined4(lt, sep, vt, r) = InFront4(lt, sep, vt, r)
        BY <4>2, Regroup4
      <4> QED
        BY <4>3 DEF InFront4
    <3>4. f[q].toks \o x = lk \o told /\ f[q].text \o r = lt \o long
      BY <2>4, <2>7, <3>2, <3>3 DEF Joined4
    <3>5. Good(comma, row, told, spaced)
      BY <2>5
    <3> HIDE DEF row, told
    <3>6. Good(after, <<ch>> \o row, told, spaced)
      BY <1>2, <3>5, NoToken
    <3>7. long # <<>>
      BY <3>1 DEF sep
    <3>8. Good(after, long, told, spaced)
      BY <3>6 DEF sep
    <3> HIDE DEF long
    <3>9. Told(m)
      BY <1>7, <2>1
    <3>10. Good(first, lt \o long, lk \o told, spaced)
      BY <2>7, <3>7, <3>8, <3>9 DEF lt, lk
    <3> QED
      BY <3>4, <3>10
  <2> QED
    BY <2>6, <2>7
<1>8. \A m \in Nat : m \in S
  <2> HIDE DEF S
  <2> QED
    BY <1>6, <1>7, SetInduction
<1>9. Told(n)
  BY <1>1, <1>8
<1>10. Good(From(n), rest, more, spaced)
  BY <1>1
<1> QED
  BY <1>3, <1>9, <1>10 DEF sep
LEMMA BracketedIs ==
    ASSUME NEW open \in Chars, NEW close \in Chars, NEW begin \in Toks, NEW end \in Toks, NEW v \in Docs
    PROVE  Bracketed(open, begin, v, close, end) \in Docs
<1> DEFINE vt == v.text
           vk == v.toks
           row == (<<open>> \o vt) \o <<close>>
           toks == (<<begin>> \o vk) \o <<end>>
<1>1. vt \in Seq(Chars) /\ vk \in Seq(Toks) /\ v.spaced \in BOOLEAN
  BY DEF Docs, Texts, Tokenses
<1>2. Bracketed(open, begin, v, close, end) = [text |-> row, toks |-> toks, spaced |-> v.spaced]
  BY Zenon DEF Bracketed
<1> HIDE DEF vt, vk
<1>3. row \in Seq(Chars)
  BY <1>1
<1>4. toks \in Seq(Toks)
  BY <1>1
<1> HIDE DEF row, toks
<1> QED
  BY <1>1, <1>2, <1>3, <1>4 DEF Docs, Texts, Tokenses

LEMMA BracketedLeads ==
    ASSUME NEW open \in Chars, NEW close \in Chars, NEW ch \in Chars, NEW begin \in Toks, NEW end \in Toks,
           NEW ps \in Seq(Docs), NEW from, NEW first, NEW comma, NEW after, NEW to, NEW spaced,
           Moves(from, open, first, begin), Moves(first, close, to, end), Moves(after, close, to, end),
           Moves(after, ch, comma, "OK"), from.final = "OK", first.final = "OK", after.final = "OK",
           \A p \in 1..Len(ps) : Leads(ps[p], first, after, spaced) /\ Leads(ps[p], comma, after, spaced)
    PROVE  Leads(Bracketed(open, begin, Chain(ps, <<ch>>), close, end), from, to, spaced)
<1> DEFINE v == Chain(ps, <<ch>>)
           w == Bracketed(open, begin, v, close, end)
<1> SUFFICES ASSUME NEW rest, NEW more, Good(to, rest, more, spaced)
             PROVE  Good(from, w.text \o rest, w.toks \o more, spaced)
  BY DEF Leads
<1> DEFINE vt == v.text
           vk == v.toks
           last == IF ps = <<>> THEN first ELSE after
           tail == <<close>> \o rest
           told == <<end>> \o more
           a == <<open>>
           z == <<close>>
           b == <<begin>>
           y == <<end>>
<1>1. rest \in Seq(Chars) /\ more \in Seq(Toks)
  BY GoodTypes DEF Texts, Tokenses
<1>2. v \in Docs
  <2> DEFINE sep == <<ch>>
  <2>1. sep \in Texts
    BY DEF Texts
  <2> HIDE DEF sep
  <2>2. Chain(ps, sep) \in Docs
    BY <2>1, ChainIsDoc
  <2> QED
    BY <2>2 DEF sep
<1>3. w.text = (a \o vt) \o z /\ w.toks = (b \o vk) \o y
  <2> HIDE DEF v
  <2> QED
    BY DEF Bracketed
<1> HIDE DEF v
<1>4. vt \in Seq(Chars) /\ vk \in Seq(Toks)
  BY <1>2 DEF Docs, Texts, Tokenses
<1>5. Good(first, tail, told, spaced) /\ Good(after, tail, told, spaced)
  BY OneToken
<1>6. tail # <<>> /\ tail \in Texts /\ told \in Tokenses
  BY <1>1 DEF Texts, Tokenses
<1> HIDE DEF tail, told
<1>7. Good(first, vt \o tail, vk \o told, spaced)
  <2>1. (ps = <<>> /\ last = first) \/ (ps # <<>> /\ last = after)
    OBVIOUS
  <2> HIDE DEF last
  <2>2. Good(last, tail, told, spaced)
    BY <1>5, <2>1
  <2> QED
    BY <1>6, <2>1, <2>2, ChainLeads DEF v
<1> DEFINE row == vt \o tail
           toks == vk \o told
<1>8. Good(first, row, toks, spaced)
  BY <1>7
<1> HIDE DEF row, toks, w
<1>9. Good(from, a \o row, b \o toks, spaced)
  BY <1>8, OneToken
<1>10. w.text \o rest = a \o row
  <2>1. a \in Texts /\ z \in Texts /\ vt \in Texts /\ rest \in Texts
    BY <1>1, <1>4 DEF Texts
  <2> HIDE DEF a, z, vt
  <2>2. Joined4(a, vt, z, rest) = InFront4(a, vt, z, rest)
    BY <2>1, RowsHold, Regroup4
  <2> QED
    BY <1>3, <2>2 DEF Joined4, InFront4, row, tail, a, z
<1>11. w.toks \o more = b \o toks
  <2>1. b \in Tokenses /\ y \in Tokenses /\ vk \in Tokenses /\ more \in Tokenses
    BY <1>1, <1>4 DEF Tokenses
  <2> HIDE DEF b, y, vk
  <2>2. Joined4(b, vk, y, more) = InFront4(b, vk, y, more)
    BY <2>1, RowsHold, Regroup4
  <2> QED
    BY <1>3, <2>2 DEF Joined4, InFront4, toks, told, b, y
<1> QED
  BY <1>9, <1>10, <1>11 DEF w

\* Opening and closing a container, and its commas.
LEMMA ContainersMove ==
    ASSUME NEW s, Ready(s)
    PROVE  /\ Moves(At("start", s), "[", At("array", s), "ARRAY_BEGIN")
           /\ Moves(At("start", s), "{", At("object", s), "OBJECT_BEGIN")
           /\ Moves(At("array", s), "]", Ended(s), "ARRAY_END")
           /\ Moves(At("object", s), "}", Ended(s), "OBJECT_END")
           /\ Moves(At("item", s), "]", Ended(s), "ARRAY_END")
           /\ Moves(At("member", s), "}", Ended(s), "OBJECT_END")
           /\ Moves(At("item", s), ",", At("comma", s), "OK")
           /\ Moves(At("member", s), ",", At("ocomma", s), "OK")
<1>0. s \in Stacks
  BY DEF Ready
<1>1. Moves(At("start", s), "[", At("array", s), "ARRAY_BEGIN") /\ Moves(At("start", s), "{", At("object", s), "OBJECT_BEGIN")
  <2>1. Begins(s, "[", At("array", s), "ARRAY_BEGIN") /\ Begins(s, "{", At("object", s), "OBJECT_BEGIN")
    BY DEF Begins
  <2>2. /\ StartMoves(s, At("start", s), "[", At("array", s), "ARRAY_BEGIN")
        /\ StartMoves(s, At("start", s), "{", At("object", s), "OBJECT_BEGIN")
    BY <2>1 DEF StartMoves
  <2> QED
    BY <1>0, <2>2, MoveIs
<1>2. Moves(At("array", s), "]", Ended(s), "ARRAY_END") /\ Moves(At("object", s), "}", Ended(s), "OBJECT_END")
  <2>1. Closing("array") = "]" /\ Closing("object") = "}" /\ EndOf("array") = "ARRAY_END" /\ EndOf("object") = "OBJECT_END"
    BY DEF Closing, EndOf, InArray
  <2>2. ContainerMoves(s, At("array", s), "]", Ended(s), "ARRAY_END") /\ ContainerMoves(s, At("object", s), "}", Ended(s), "OBJECT_END")
    BY <2>1 DEF ContainerMoves
  <2> QED
    BY <1>0, <2>2, MoveIs
<1>3. ASSUME NEW p \in {"item", "member"}, NEW c, NEW k, NEW t,
             \/ c = Closing(p) /\ t = EndOf(p) /\ k = Ended(s)
             \/ c = "," /\ t = "OK" /\ k = At(IF p = "item" THEN "comma" ELSE "ocomma", s)
      PROVE  Moves(At(p, s), c, k, t)
  <2> DEFINE r == Append(s, p)
  <2>1. r \in Stacks /\ r # <<>> /\ Top(r) = p /\ SubSeq(r, 1, Len(r) - 1) = s /\ Ended(r) = At(p, s)
    BY <1>0, StacksAre DEF Held
  <2> HIDE DEF r
  <2>2. Behind(r, c, k, t)
    BY <1>3, <2>1, Zenon DEF Behind
  <2>3. ContainerMoves(r, At(p, s), c, k, t)
    BY <2>1, <2>2 DEF ContainerMoves
  <2> QED
    BY <2>1, <2>3, MoveIs
<1>4. Closing("item") = "]" /\ Closing("member") = "}" /\ EndOf("item") = "ARRAY_END" /\ EndOf("member") = "OBJECT_END"
  BY DEF Closing, EndOf, InArray
<1>5. Moves(At("item", s), "]", Ended(s), "ARRAY_END") /\ Moves(At("member", s), "}", Ended(s), "OBJECT_END")
  BY <1>3, <1>4
<1>6. Moves(At("item", s), ",", At("comma", s), "OK") /\ Moves(At("member", s), ",", At("ocomma", s), "OK")
  BY <1>3
<1> QED
  BY <1>1, <1>2, <1>5, <1>6
LEMMA UpToAre ==
    ASSUME NEW n \in Nat, NEW S, NEW ps \in UpTo(n, S)
    PROVE  ps \in Seq(S) /\ \A p \in 1..Len(ps) : ps[p] \in S
<1>1. PICK i \in 0..n : ps \in [1..i -> S]
  BY DEF UpTo
<1>2. ps \in Seq(S)
  BY <1>1, SeqDef
<1> QED
  BY <1>2

LEMMA LeadsInContainer ==
    ASSUME NEW s \in Stacks, NEW p \in {"item", "member"}, NEW j, Len(s) < Depth,
           (j = At("value", s) /\ p = "member") \/ (j \in {At("array", s), At("comma", s)} /\ p = "item"),
           NEW v, NEW to, NEW spaced, Leads(v, At("start", Append(s, p)), to, spaced)
    PROVE  Leads(v, j, to, spaced)
<1> SUFFICES ASSUME NEW rest, NEW more, rest # <<>>, Good(to, rest, more, spaced)
             PROVE  Good(j, v.text \o rest, v.toks \o more, spaced)
  BY DEF Leads
<1> DEFINE row == v.text \o rest
           toks == v.toks \o more
<1>1. Good(At("start", Append(s, p)), row, toks, spaced)
  BY DEF Leads
<1> HIDE DEF row, toks
<1>2. Good(j, row, toks, spaced)
  BY <1>1, GoodInContainer
<1> QED
  BY <1>2 DEF row, toks

\* A value one container further in.
LEMMA ReadsWithin ==
    ASSUME NEW n \in Nat, NEW spaced, NEW v, Reads(v, n, spaced), spaced => v.spaced,
           NEW s, Ready(s), Len(s) + (n + 1) <= Depth, NEW p \in {"item", "member"}
    PROVE  Leads(v, At("start", Append(s, p)), At(p, s), spaced) /\ Len(s) < Depth /\ s \in Stacks
<1> DEFINE r == Append(s, p)
<1>1. s \in Stacks /\ p \in Held /\ Len(s) \in Nat /\ Depth \in Nat
  BY DepthAssumption DEF Ready, Held, Stacks
<1>2. r \in Stacks /\ Top(r) = p /\ Ended(r) = At(p, s)
  BY <1>1, StacksAre
<1>3. Len(r) = Len(s) + 1
  BY <1>1 DEF Stacks
<1> HIDE DEF r
<1>4. Ready(r) /\ Len(r) + n <= Depth /\ Len(s) < Depth
  BY <1>1, <1>2, <1>3 DEF Ready
<1>5. Leads(v, At("start", r), Ended(r), spaced)
  BY <1>2, <1>4 DEF Reads
<1> QED
  BY <1>1, <1>2, <1>4, <1>5 DEF r

LEMMA ArraysRead ==
    ASSUME NEW inner \in SUBSET Docs, NEW n \in Nat, NEW spaced, \A v \in inner : Reads(v, n, spaced),
           NEW w \in Arrays(inner)
    PROVE  w \in Docs /\ Reads(w, n + 1, spaced)
<1>1. PICK ps \in UpTo(Items, inner) :
        \E open, close, ch : /\ open = "[" /\ close = "]" /\ ch = ","
                             /\ w = Bracketed(open, "ARRAY_BEGIN", Chain(ps, <<ch>>), close, "ARRAY_END")
  BY DEF Arrays
<1>2. PICK open, close, ch : /\ open = "[" /\ close = "]" /\ ch = ","
                             /\ w = Bracketed(open, "ARRAY_BEGIN", Chain(ps, <<ch>>), close, "ARRAY_END")
  BY <1>1
<1>3. /\ open \in Chars /\ close \in Chars /\ ch \in Chars
      /\ "ARRAY_BEGIN" \in Toks /\ "ARRAY_END" \in Toks
  BY <1>2, CharsAre, Zenon DEF Toks
<1>4. w = Bracketed(open, "ARRAY_BEGIN", Chain(ps, <<ch>>), close, "ARRAY_END")
  BY <1>2
<1>5. ps \in Seq(Docs) /\ \A p \in 1..Len(ps) : ps[p] \in inner
  <2>1. ps \in Seq(inner) /\ \A p \in 1..Len(ps) : ps[p] \in inner
    BY LevelsAssumption, UpToAre
  <2> QED
    BY <2>1
<1> DEFINE v == Chain(ps, <<ch>>)
<1>6. v \in Docs /\ (v.spaced => \A p \in 1..Len(ps) : ps[p].spaced)
  <2> DEFINE sep == <<ch>>
  <2>1. sep \in Texts
    BY <1>3 DEF Texts
  <2> HIDE DEF sep
  <2>2. Chain(ps, sep) \in Docs /\ (Chain(ps, sep).spaced => \A p \in 1..Len(ps) : ps[p].spaced)
    BY <1>5, <2>1, ChainIsDoc
  <2> QED
    BY <2>2 DEF sep
<1>7. w \in Docs /\ w.spaced = v.spaced
  <2> HIDE DEF v
  <2>1. w = Bracketed(open, "ARRAY_BEGIN", v, close, "ARRAY_END")
    BY <1>4 DEF v
  <2> QED
    BY <1>3, <1>6, <2>1, BracketedIs DEF Bracketed
<1>8. ASSUME spaced => w.spaced, NEW s, Ready(s), Len(s) + (n + 1) <= Depth
      PROVE  Leads(w, At("start", s), Ended(s), spaced)
  <2>1. \A p \in 1..Len(ps) : spaced => ps[p].spaced
    BY <1>6, <1>7, <1>8
  <2> DEFINE first == At("array", s)
             comma == At("comma", s)
             after == At("item", s)
             from == At("start", s)
             to == Ended(s)
  <2>2. ASSUME NEW p \in 1..Len(ps)
        PROVE  Leads(ps[p], first, after, spaced) /\ Leads(ps[p], comma, after, spaced)
    <3> DEFINE x == ps[p]
    <3>1. Reads(x, n, spaced) /\ (spaced => x.spaced)
      BY <1>5, <2>1
    <3> HIDE DEF x, first, comma, after
    <3>2. Leads(x, At("start", Append(s, "item")), At("item", s), spaced) /\ Len(s) < Depth /\ s \in Stacks
      BY <1>8, <3>1, ReadsWithin
    <3>3. Leads(x, first, after, spaced) /\ Leads(x, comma, after, spaced)
      BY <3>2, LeadsInContainer DEF first, comma, after
    <3> QED
      BY <3>3 DEF x
  <2>3. Moves(from, open, first, "ARRAY_BEGIN") /\ Moves(first, close, to, "ARRAY_END") /\ Moves(after, close, to, "ARRAY_END")
    BY <1>2, <1>8, ContainersMove, Zenon
  <2>4. Moves(after, ch, comma, "OK")
    BY <1>2, <1>8, ContainersMove, Zenon
  <2>5. from.final = "OK" /\ first.final = "OK" /\ after.final = "OK"
    BY AtIs
  <2> HIDE DEF first, comma, after, from, to
  <2>6. Leads(w, from, to, spaced)
    BY <1>3, <1>4, <1>5, <2>2, <2>3, <2>4, <2>5, BracketedLeads
  <2> QED
    BY <2>6 DEF from, to
<1> QED
  BY <1>7, <1>8 DEF Reads
LEMMA StringTexts == <<"x", "]", Quote>> \in Texts
<1>1. "x" \in Chars /\ "]" \in Chars /\ Quote \in Chars
  BY CharsAre
<1>2. <<"x", "]", Quote>> \in Seq(Chars)
  BY <1>1, RowsAre
<1> QED
  BY <1>2 DEF Texts

LEMMA PairIs ==
    ASSUME NEW name \in Strings, NEW v \in Docs
    PROVE  /\ Pair(name, v) \in Docs /\ Pair(name, v).spaced = v.spaced
           /\ \E co, qu : /\ co = ":" /\ qu = Quote
                          /\ Pair(name, v).text = ((<<qu>> \o <<"x", "]", qu>>) \o <<co>>) \o v.text
                          /\ Pair(name, v).toks = ((<<"OBJECT_KEY">> \o <<"STRING">>) \o <<"OBJECT_VALUE">>) \o v.toks
<1>1. PICK co, qu : co = ":" /\ qu = Quote
  OBVIOUS
<1> DEFINE inside == <<"x", "]", Quote>>
<1>2. name = [text |-> <<qu>> \o inside, toks |-> <<"STRING">>, spaced |-> TRUE]
  BY <1>1, StringsAre
<1>3. inside \in Texts
  BY StringTexts
<1>4. co \in Chars /\ qu \in Chars
  BY <1>1, CharsAre, Zenon
<1> HIDE DEF inside
<1> DEFINE w == Pair(name, v)
           vt == v.text
           vk == v.toks
           ck == <<co>>
           row == ((<<qu>> \o inside) \o ck) \o vt
           toks == ((<<"OBJECT_KEY">> \o <<"STRING">>) \o <<"OBJECT_VALUE">>) \o vk
<1>5. w = [text |-> (name.text \o ck) \o vt, toks |-> ((<<"OBJECT_KEY">> \o name.toks) \o <<"OBJECT_VALUE">>) \o vk,
           spaced |-> v.spaced]
  BY <1>1, Zenon DEF Pair
<1>6. name.text = <<qu>> \o inside /\ name.toks = <<"STRING">>
  BY <1>2
<1>7. w = [text |-> row, toks |-> toks, spaced |-> v.spaced]
  BY <1>5, <1>6, Zenon
<1>8. vt \in Seq(Chars) /\ vk \in Seq(Toks) /\ v.spaced \in BOOLEAN /\ inside \in Seq(Chars)
  BY <1>3 DEF Docs, Texts, Tokenses
<1> HIDE DEF w, vt, vk
<1>9. row \in Seq(Chars)
  <2> DEFINE front == <<qu>> \o inside
             mid == front \o ck
  <2>1. front \in Seq(Chars) /\ ck \in Seq(Chars)
    BY <1>4, <1>8
  <2> HIDE DEF front, ck
  <2>2. mid \in Seq(Chars)
    BY <2>1
  <2> HIDE DEF mid
  <2>3. mid \o vt \in Seq(Chars)
    BY <1>8, <2>2
  <2> QED
    BY <2>3 DEF mid, front
<1>10. toks \in Seq(Toks)
  <2>1. "OBJECT_KEY" \in Toks /\ "STRING" \in Toks /\ "OBJECT_VALUE" \in Toks
    BY DEF Toks
  <2> QED
    BY <1>8, <2>1
<1> HIDE DEF row, toks
<1>11. w \in Docs /\ w.spaced = v.spaced /\ w.text = row /\ w.toks = toks
  BY <1>7, <1>8, <1>9, <1>10 DEF Docs, Texts, Tokenses
<1>12. inside = <<"x", "]", qu>>
  BY <1>1 DEF inside
<1>13. Pair(name, v).text = ((<<qu>> \o <<"x", "]", qu>>) \o <<co>>) \o v.text
  BY <1>11, <1>12 DEF w, row, vt
<1>14. Pair(name, v).toks = ((<<"OBJECT_KEY">> \o <<"STRING">>) \o <<"OBJECT_VALUE">>) \o v.toks
  BY <1>11 DEF w, toks, vk
<1> QED
  BY <1>1, <1>11, <1>13, <1>14 DEF w

LEMMA PairLeads ==
    ASSUME NEW name \in Strings, NEW v \in Docs, NEW n \in Nat, NEW spaced, Reads(v, n, spaced), spaced => v.spaced,
           NEW s, Ready(s), Len(s) + (n + 1) <= Depth, NEW j \in {At("object", s), At("ocomma", s)}
    PROVE  Leads(Pair(name, v), j, At("member", s), spaced)
<1> DEFINE w == Pair(name, v)
           to == At("member", s)
<1> SUFFICES ASSUME NEW rest, rest # <<>>, NEW more, Good(to, rest, more, spaced)
             PROVE  Good(j, w.text \o rest, w.toks \o more, spaced)
  BY DEF Leads
<1>1. PICK co, qu : /\ co = ":" /\ qu = Quote
                    /\ w.text = ((<<qu>> \o <<"x", "]", qu>>) \o <<co>>) \o v.text
                    /\ w.toks = ((<<"OBJECT_KEY">> \o <<"STRING">>) \o <<"OBJECT_VALUE">>) \o v.toks
  BY PairIs
<1> DEFINE inside == <<"x", "]", qu>>
           vt == v.text
           vk == v.toks
           ck == <<co>>
           a == <<qu>>
           k1 == <<"OBJECT_KEY">>
           k2 == <<"STRING">>
           k3 == <<"OBJECT_VALUE">>
           row1 == vt \o rest
           toks1 == vk \o more
           row2 == ck \o row1
           toks2 == k3 \o toks1
           row3 == inside \o row2
           toks3 == k2 \o toks2
           at1 == At("value", s)
           at2 == At("colon", s)
           at3 == At("string", Append(s, "colon"))
<1>2. w.text = ((a \o inside) \o ck) \o vt /\ w.toks = ((k1 \o k2) \o k3) \o vk
  BY <1>1
<1>3. Leads(v, At("start", Append(s, "member")), to, spaced) /\ Len(s) < Depth /\ s \in Stacks
  BY ReadsWithin
<1>4. Leads(v, at1, to, spaced)
  <2> HIDE DEF at1, to
  <2> QED
    BY <1>3, LeadsInContainer DEF at1
<1>5. Good(at1, row1, toks1, spaced)
  <2> HIDE DEF at1, to
  <2> QED
    BY <1>4 DEF Leads
<1>6. co \in Chars /\ qu \in Chars /\ "OBJECT_KEY" \in Toks /\ "STRING" \in Toks /\ "OBJECT_VALUE" \in Toks
  BY <1>1, CharsAre, Zenon DEF Toks
<1>7. Moves(at2, co, at1, "OBJECT_VALUE") /\ at2.final = "OK"
  <2>1. ContainerMoves(s, At("colon", s), ":", At("value", s), "OBJECT_VALUE")
    BY DEF ContainerMoves
  <2>2. Moves(At("colon", s), ":", At("value", s), "OBJECT_VALUE")
    BY <1>3, <2>1, MoveIs
  <2>3. At("colon", s).final = "OK"
    BY AtIs
  <2> QED
    BY <1>1, <2>2, <2>3, Zenon
<1>8. Moves(j, qu, at3, "OBJECT_KEY") /\ j.final = "OK"
  <2>1. StringMoves(s, j, Quote, at3, "OBJECT_KEY")
    BY <1>3 DEF StringMoves
  <2>2. Moves(j, Quote, at3, "OBJECT_KEY")
    BY <1>3, <2>1, MoveIs
  <2>3. j.final = "OK"
    BY AtIs
  <2> QED
    BY <1>1, <2>2, <2>3, Zenon
<1>9. /\ Append(s, "colon") \in Stacks /\ Ended(Append(s, "colon")) = at2
  <2>1. "colon" \in Held
    BY DEF Held
  <2> QED
    BY <1>3, <2>1, StacksAre
<1>10. Good(at2, row2, toks2, spaced)
  <2> HIDE DEF at1, at2, row1, toks1
  <2> QED
    BY <1>5, <1>6, <1>7, OneToken
<1>11. Good(at3, row3, toks3, spaced)
  <2> DEFINE r == Append(s, "colon")
  <2>1. r \in Stacks /\ Good(Ended(r), row2, toks2, spaced) /\ inside = <<"x", "]", Quote>>
    BY <1>1, <1>9, <1>10
  <2> HIDE DEF r, row2, toks2, inside
  <2>2. Good(At("string", r), <<"x", "]", Quote>> \o row2, <<"STRING">> \o toks2, spaced)
    BY <2>1, StringInside
  <2>3. Good(At("string", r), inside \o row2, <<"STRING">> \o toks2, spaced)
    BY <2>1, <2>2
  <2> QED
    BY <2>3 DEF r
<1>12. Good(j, a \o row3, k1 \o toks3, spaced)
  <2> HIDE DEF at3, row3, toks3
  <2> QED
    BY <1>6, <1>8, <1>11, OneToken
<1>13. w.text \o rest = a \o row3
  <2>1. a \in Texts /\ ck \in Texts
    BY <1>6 DEF Texts
  <2>2. inside \in Texts
    BY <1>1, StringTexts
  <2>3. vt \in Texts /\ rest \in Texts
    BY GoodTypes DEF Docs
  <2> HIDE DEF a, ck, inside, vt
  <2>4. Joined5(a, inside, ck, vt, rest) = InFront5(a, inside, ck, vt, rest)
    BY <2>1, <2>2, <2>3, RowsHold, Regroup5
  <2> QED
    BY <1>2, <2>4 DEF Joined5, InFront5
<1>14. w.toks \o more = k1 \o toks3
  <2>1. k1 \in Tokenses /\ k2 \in Tokenses /\ k3 \in Tokenses
    BY <1>6 DEF Tokenses
  <2>2. vk \in Tokenses /\ more \in Tokenses
    BY GoodTypes DEF Docs
  <2> HIDE DEF k1, k2, k3, vk
  <2>3. Joined5(k1, k2, k3, vk, more) = InFront5(k1, k2, k3, vk, more)
    BY <2>1, <2>2, RowsHold, Regroup5
  <2> QED
    BY <1>2, <2>3 DEF Joined5, InFront5
<1> QED
  BY <1>12, <1>13, <1>14
LEMMA ObjectsRead ==
    ASSUME NEW inner \in SUBSET Docs, NEW n \in Nat, NEW spaced, \A v \in inner : Reads(v, n, spaced),
           NEW w \in Objects(inner)
    PROVE  w \in Docs /\ Reads(w, n + 1, spaced)
<1>1. \A x \in Pairs(inner) : x \in Docs /\ \E name \in Strings, v \in inner : x = Pair(name, v) /\ x.spaced = v.spaced
  BY PairIs DEF Pairs
<1>2. PICK ps \in UpTo(Items, Pairs(inner)) :
        \E open, close, ch : /\ open = "{" /\ close = "}" /\ ch = ","
                             /\ w = Bracketed(open, "OBJECT_BEGIN", Chain(ps, <<ch>>), close, "OBJECT_END")
  BY DEF Objects
<1>3. PICK open, close, ch : /\ open = "{" /\ close = "}" /\ ch = ","
                             /\ w = Bracketed(open, "OBJECT_BEGIN", Chain(ps, <<ch>>), close, "OBJECT_END")
  BY <1>2
<1>4. /\ open \in Chars /\ close \in Chars /\ ch \in Chars
      /\ "OBJECT_BEGIN" \in Toks /\ "OBJECT_END" \in Toks
  BY <1>3, CharsAre, Zenon DEF Toks
<1>5. w = Bracketed(open, "OBJECT_BEGIN", Chain(ps, <<ch>>), close, "OBJECT_END")
  BY <1>3
<1>6. ps \in Seq(Docs) /\ \A p \in 1..Len(ps) : ps[p] \in Pairs(inner)
  <2>1. ps \in Seq(Pairs(inner)) /\ \A p \in 1..Len(ps) : ps[p] \in Pairs(inner)
    BY LevelsAssumption, UpToAre
  <2> QED
    BY <1>1, <2>1
<1> DEFINE v == Chain(ps, <<ch>>)
<1>7. v \in Docs /\ (v.spaced => \A p \in 1..Len(ps) : ps[p].spaced)
  <2> DEFINE sep == <<ch>>
  <2>1. sep \in Texts
    BY <1>4 DEF Texts
  <2> HIDE DEF sep
  <2>2. Chain(ps, sep) \in Docs /\ (Chain(ps, sep).spaced => \A p \in 1..Len(ps) : ps[p].spaced)
    BY <1>6, <2>1, ChainIsDoc
  <2> QED
    BY <2>2 DEF sep
<1>8. w \in Docs /\ w.spaced = v.spaced
  <2> HIDE DEF v
  <2>1. w = Bracketed(open, "OBJECT_BEGIN", v, close, "OBJECT_END")
    BY <1>5 DEF v
  <2> QED
    BY <1>4, <1>7, <2>1, BracketedIs DEF Bracketed
<1>9. ASSUME spaced => w.spaced, NEW s, Ready(s), Len(s) + (n + 1) <= Depth
      PROVE  Leads(w, At("start", s), Ended(s), spaced)
  <2>1. \A p \in 1..Len(ps) : spaced => ps[p].spaced
    BY <1>7, <1>8, <1>9
  <2> DEFINE first == At("object", s)
             comma == At("ocomma", s)
             after == At("member", s)
             from == At("start", s)
             to == Ended(s)
  <2>2. ASSUME NEW p \in 1..Len(ps)
        PROVE  Leads(ps[p], first, after, spaced) /\ Leads(ps[p], comma, after, spaced)
    <3> DEFINE x == ps[p]
    <3>1. PICK name \in Strings, y \in inner : x = Pair(name, y) /\ x.spaced = y.spaced
      BY <1>1, <1>6
    <3>2. Reads(y, n, spaced) /\ (spaced => y.spaced) /\ y \in Docs
      BY <2>1, <3>1
    <3>3. \A j \in {At("object", s), At("ocomma", s)} : Leads(Pair(name, y), j, At("member", s), spaced)
      <4> HIDE DEF x, first, comma, after
      <4> QED
        BY <1>9, <3>2, PairLeads
    <3>4. Leads(x, first, after, spaced) /\ Leads(x, comma, after, spaced)
      BY <3>1, <3>3
    <3> QED
      BY <3>4
  <2>3. Moves(from, open, first, "OBJECT_BEGIN") /\ Moves(first, close, to, "OBJECT_END") /\ Moves(after, close, to, "OBJECT_END")
    BY <1>3, <1>9, ContainersMove, Zenon
  <2>4. Moves(after, ch, comma, "OK")
    BY <1>3, <1>9, ContainersMove, Zenon
  <2>5. from.final = "OK" /\ first.final = "OK" /\ after.final = "OK"
    BY AtIs
  <2> HIDE DEF first, comma, after, from, to
  <2>6. Leads(w, from, to, spaced)
    BY <1>4, <1>5, <1>6, <2>2, <2>3, <2>4, <2>5, BracketedLeads
  <2> QED
    BY <2>6 DEF from, to
<1> QED
  BY <1>8, <1>9 DEF Reads

\* Of a value inside more containers than the stack holds, Reads says nothing.
LEMMA ContainersAre ==
    ASSUME NEW inner \in SUBSET Docs
    PROVE  Arrays(inner) \in SUBSET Docs /\ Objects(inner) \in SUBSET Docs
<1> DEFINE n == Depth + 1
<1>1. n \in Nat
  BY DepthAssumption
<1>2. \A v \in inner : Reads(v, n, FALSE)
  <2>1. \A s \in Stacks : ~(Len(s) + n <= Depth)
    BY DepthAssumption DEF Stacks
  <2> QED
    BY <2>1 DEF Reads
<1> HIDE DEF n
<1> QED
  BY <1>1, <1>2, ArraysRead, ObjectsRead

\* Every document of the grammar is read, whatever comes behind it.
LEMMA ValuesRead ==
    ASSUME NEW v \in Values, NEW spaced
    PROVE  v \in Docs /\ Reads(v, Levels, spaced)
<1> DEFINE Next1(x) == Scalars \cup Arrays(x) \cup Objects(x)
           Loop(f) == f = [m \in 0..Levels |-> IF m = 0 THEN Scalars ELSE Next1(f[m - 1])]
           f == CHOOSE f : Loop(f)
           all == SUBSET Docs
           step == [m \in 1..Levels |-> [x \in all |-> Next1(x)]]
<1>1. v \in f[Levels]
  BY DEF Values
<1>2. Levels \in Nat
  BY LevelsAssumption, DepthAssumption
<1>3. Scalars \in all
  <2>1. \A w \in Scalars : w \in Docs
    BY ScalarsRead
  <2> QED
    BY <2>1
<1>4. \A x \in all : Next1(x) \in all
  BY <1>3, ContainersAre
<1> HIDE DEF Next1, all
<1>5. step \in [1..Levels -> [all -> all]]
  BY <1>4
<1>6. PICK h : Builds(all, Scalars, step, Levels, h)
  <2> HIDE DEF step
  <2> QED
    BY <1>2, <1>3, <1>5, Built
<1>7. h \in [0..Levels -> all] /\ h[0] = Scalars /\ \A m \in 1..Levels : h[m] = Next1(h[m - 1])
  <2>1. h \in [0..Levels -> all] /\ h[0] = Scalars /\ \A m \in 1..Levels : h[m] = step[m][h[m - 1]]
    BY <1>6 DEF Builds
  <2>2. \A m \in 1..Levels : m - 1 \in 0..Levels
    BY <1>2
  <2> QED
    BY <2>1, <2>2
<1> HIDE DEF step
<1>8. Loop(h)
  BY <1>7
<1>9. Loop(f)
  BY <1>8
<1> HIDE DEF f
<1>10. f[0] = Scalars /\ \A m \in 1..Levels : f[m] = Next1(f[m - 1])
  <2>1. f = [m \in 0..Levels |-> IF m = 0 THEN Scalars ELSE Next1(f[m - 1])]
    BY <1>9
  <2>2. 0 \in 0..Levels /\ \A m \in 1..Levels : m \in 0..Levels /\ m # 0
    BY <1>2
  <2> HIDE DEF Loop
  <2> QED
    BY <2>1, <2>2
<1> HIDE DEF Loop
<1> DEFINE S == {m \in Nat : m <= Levels => \A w \in f[m] : w \in Docs /\ Reads(w, m, spaced)}
<1>11. 0 \in S
  BY <1>10, ScalarsRead
<1>12. ASSUME NEW m \in Nat, m \in S PROVE m + 1 \in S
  <2> SUFFICES ASSUME m + 1 <= Levels, NEW w \in f[m + 1] PROVE w \in Docs /\ Reads(w, m + 1, spaced)
    OBVIOUS
  <2> DEFINE inner == f[m]
  <2>1. inner \in SUBSET Docs /\ \A x \in inner : Reads(x, m, spaced)
    BY <1>2, <1>12
  <2>2. f[m + 1] = Next1(inner)
    <3>1. m + 1 \in 1..Levels /\ (m + 1) - 1 = m
      BY <1>2
    <3> QED
      BY <1>10, <3>1
  <2> HIDE DEF inner
  <2>3. w \in Scalars \/ w \in Arrays(inner) \/ w \in Objects(inner)
    BY <2>2 DEF Next1
  <2>4. CASE w \in Scalars
    BY <2>4, ScalarsRead
  <2>5. CASE w \in Arrays(inner)
    BY <2>1, <2>5, ArraysRead
  <2>6. CASE w \in Objects(inner)
    BY <2>1, <2>6, ObjectsRead
  <2> QED
    BY <2>3, <2>4, <2>5, <2>6
<1>13. \A m \in Nat : m \in S
  <2> HIDE DEF S
  <2> QED
    BY <1>11, <1>12, SetInduction
<1> QED
  BY <1>1, <1>2, <1>13-----------------------------------------------------------------------------
(* The grammar: every document is accepted *)

\* What is given for the document d.
Given(d) == d.text \o <<" ">>

LEMMA GivenIs ==
    ASSUME NEW d \in Docs
    PROVE  Given(d) \in Texts /\ Len(d.text) \in Nat /\ Len(Given(d)) = Len(d.text) + 1
<1>1. PICK c \in Chars : Given(d) = d.text \o <<c>>
  BY CharsAre DEF Given
<1>2. d.text \in Seq(Chars)
  BY DEF Docs, Texts
<1> QED
  BY <1>1, <1>2 DEF Texts

\* What is left after n characters.
LEMMA RestIs ==
    ASSUME NEW S, NEW s \in Seq(S), NEW n \in 0..Len(s)
    PROVE  /\ SubSeq(s, n + 1, Len(s)) \in Seq(S)
           /\ Len(SubSeq(s, n + 1, Len(s))) = Len(s) - n
           /\ n < Len(s) => SubSeq(s, n + 1, Len(s)) = <<s[n + 1]>> \o SubSeq(s, (n + 1) + 1, Len(s))
<1>1. Len(s) \in Nat
  OBVIOUS
<1>2. SubSeq(s, n + 1, Len(s)) \in Seq(S)
  BY <1>1
<1>3. Len(SubSeq(s, n + 1, Len(s))) = Len(s) - n
  BY <1>1
<1>4. ASSUME n < Len(s) PROVE SubSeq(s, n + 1, Len(s)) = <<s[n + 1]>> \o SubSeq(s, (n + 1) + 1, Len(s))
  <2> DEFINE a == SubSeq(s, n + 1, Len(s))
             tail == SubSeq(s, (n + 1) + 1, Len(s))
             b == <<s[n + 1]>> \o tail
  <2>1. a \in Seq(S) /\ Len(a) = Len(s) - n /\ \A i \in 1..Len(a) : a[i] = s[n + i]
    BY <1>1, <1>4
  <2>2. tail \in Seq(S) /\ Len(tail) = (Len(s) - n) - 1 /\ \A i \in 1..Len(tail) : tail[i] = s[(n + 1) + i]
    BY <1>1, <1>4
  <2>3. s[n + 1] \in S
    BY <1>1, <1>4
  <2> HIDE DEF a, tail
  <2>4. b \in Seq(S) /\ Len(b) = Len(s) - n /\ b[1] = s[n + 1] /\ \A i \in 2..Len(b) : b[i] = tail[i - 1]
    BY <1>1, <1>4, <2>2, <2>3
  <2>5. \A i \in 1..Len(a) : a[i] = b[i]
    <3> SUFFICES ASSUME NEW i \in 1..Len(a) PROVE a[i] = b[i]
      OBVIOUS
    <3>1. CASE i = 1
      BY <2>1, <2>4, <3>1
    <3>2. CASE i # 1
      <4> DEFINE m == i - 1
      <4>1. i \in 2..Len(b) /\ m \in 1..Len(tail) /\ (n + 1) + m = n + i
        BY <1>1, <1>4, <2>1, <2>2, <2>4, <3>2
      <4>2. b[i] = tail[m]
        BY <2>4, <4>1
      <4> HIDE DEF m
      <4>3. tail[m] = s[n + i]
        BY <2>2, <4>1
      <4> QED
        BY <2>1, <4>2, <4>3
    <3> QED
      BY <3>1, <3>2
  <2> HIDE DEF b
  <2>6. a = b
    BY <2>1, <2>4, <2>5, SeqEqual
  <2> QED
    BY <2>6 DEF a, b, tail
<1> QED
  BY <1>2, <1>3, <1>4

LEMMA PlainIs ==
    /\ Plain(jsn).final = "OK" => jsn.final = "OK"
    /\ Plain(jsn) = Complete => jsn.final = "DONE"
<1>1. Complete.final = "DONE"
  BY DEF Complete
<1> QED
  BY <1>1 DEF Plain

\* Of the tokens toks, those before more, done, were returned as now, but for the
\* ends that numbers without a space passed over.
Matches(toks, done, more, now, spaced) ==
    /\ done \in Tokenses /\ toks = done \o more
    /\ now \in Seq(Returned) /\ NoEnds(now) = NoEnds(done)
    /\ spaced => NoDone(now) = done

Done(done, more) ==
    /\ Matches(doc.toks, done, more, out, doc.spaced)
    /\ Good(Plain(jsn), SubSeq(Given(doc), pos + 1, Len(Given(doc))), more, doc.spaced)

DocInv ==
    /\ doc = Anything => pos = 0
    /\ doc # Anything => doc \in Docs /\ pos \in 0..Len(Given(doc)) /\ \E done, more : Done(done, more)

LEMMA WithoutNone == \A drop : Without(<<>>, drop) = <<>>
<1> SUFFICES ASSUME NEW drop PROVE Without(<<>>, drop) = <<>>
  OBVIOUS
<1> DEFINE none == <<>>
<1>1. none \in Seq(Returned) /\ Len(none) = 0
  OBVIOUS
<1> HIDE DEF none
<1>2. PICK f : KeptOf(none, drop, f) /\ Without(none, drop) = f[Len(none)]
  BY <1>1, WithoutIs
<1>3. f[0] = <<>>
  BY <1>2 DEF KeptOf
<1> QED
  BY <1>1, <1>2, <1>3 DEF none

\* Behind the document there is a space.
LEMMA SpaceEnds ==
    ASSUME NEW spaced
    PROVE  Good(Complete, <<" ">>, <<>>, spaced)
<1>1. PICK c \in Chars : c = " "
  BY CharsAre
<1>2. Moves(Complete, c, Complete, "DONE")
  <2>1. <<>> \in Stacks /\ Ended(<<>>) = Complete
    BY DEF Stacks, Ended
  <2>2. Behind(<<>>, c, Complete, "DONE")
    BY <1>1 DEF Behind
  <2>3. ContainerMoves(<<>>, Complete, c, Complete, "DONE")
    BY <2>1, <2>2 DEF ContainerMoves
  <2> QED
    BY <2>1, <2>3, MoveIs
<1> DEFINE rest == <<>>
           more == <<>>
<1>3. rest = <<>> /\ more \in Tokenses /\ Tells("DONE", more, more, spaced)
  BY DEF Tokenses, Tells
<1>4. Good(Complete, rest, more, spaced)
  BY GoodAtEnd
<1>5. <<c>> \o rest = <<c>>
  OBVIOUS
<1> HIDE DEF rest, more
<1>6. Good(Complete, <<c>> \o rest, more, spaced)
  BY <1>2, <1>3, <1>4, GoodBefore
<1> QED
  BY <1>1, <1>5, <1>6, Zenon DEF more

LEMMA DocInvInit == DocsInit => DocInv
<1> SUFFICES ASSUME DocsInit, doc # Anything PROVE DocInv
  BY DEF DocsInit, DocInv
<1>1. doc \in Values /\ pos = 0 /\ out = <<>> /\ jsn = Fresh
  BY DEF DocsInit, Init
<1>2. doc \in Docs /\ Reads(doc, Levels, doc.spaced)
  BY <1>1, ValuesRead
<1> DEFINE none == <<>>
           space == <<" ">>
           spaced == doc.spaced
           start == At("start", none)
<1>3. none \in Stacks /\ Len(none) = 0 /\ Ready(none) /\ none \in Tokenses /\ none \in Seq(Returned) /\ none = <<>>
  BY DEF Stacks, Ready, Tokenses
<1>4. Len(none) + Levels <= Depth
  BY <1>3, LevelsAssumption, DepthAssumption
<1>5. Ended(none) = Complete
  BY DEF Ended
<1> HIDE DEF none, spaced, start
<1>6. Leads(doc, start, Complete, spaced)
  BY <1>2, <1>3, <1>4, <1>5 DEF Reads, spaced, start
<1>7. Good(Complete, space, none, spaced) /\ space # <<>>
  BY SpaceEnds DEF none
<1> HIDE DEF space
<1>8. Good(start, doc.text \o space, doc.toks \o none, spaced)
  BY <1>6, <1>7 DEF Leads
<1>9. Plain(jsn) = start
  BY <1>1 DEF Plain, Fresh, start, At, none
<1>10. Given(doc) = doc.text \o space
  BY DEF Given, space
<1> DEFINE all == Given(doc)
<1>11. all \in Seq(Chars) /\ Len(all) \in Nat
  BY <1>2, GivenIs DEF Texts
<1> HIDE DEF all
<1>12. SubSeq(all, 0 + 1, Len(all)) = all /\ 0 \in 0..Len(all)
  BY <1>11
<1>13. doc.toks \o none = doc.toks /\ none \o doc.toks = doc.toks
  BY <1>2 DEF Docs, Tokenses, none
<1>14. Done(none, doc.toks)
  <2>1. Good(Plain(jsn), SubSeq(all, pos + 1, Len(all)), doc.toks, spaced)
    BY <1>1, <1>8, <1>9, <1>10, <1>12, <1>13 DEF all
  <2>2. NoEnds(out) = NoEnds(none) /\ NoDone(out) = none
    BY <1>1, <1>3, WithoutNone DEF NoDone
  <2> QED
    BY <1>1, <1>3, <1>13, <2>1, <2>2 DEF Done, Matches, all, spaced
<1> QED
  BY <1>1, <1>2, <1>12, <1>14 DEF DocInv, all
\* What a character's token does to the tokens returned.
Out(t, before) == IF t = "OK" THEN before ELSE Append(before, t)

LEMMA OutMoves ==
    ASSUME NEW toks, NEW done, NEW more, NEW before, NEW spaced, Matches(toks, done, more, before, spaced),
           NEW t \in Toks \cup {"OK", "DONE"}, NEW after \in Tokenses, more \in Tokenses, Tells(t, more, after, spaced)
    PROVE  \E next : Matches(toks, next, after, Out(t, before), spaced)
<1> DEFINE now == Out(t, before)
<1> HIDE DEF now
<1>0. /\ done \in Tokenses /\ toks = done \o more /\ before \in Seq(Returned) /\ NoEnds(before) = NoEnds(done)
      /\ spaced => NoDone(before) = done
      /\ now = IF t = "OK" THEN before ELSE Append(before, t)
  BY DEF Matches, Out, now
<1> SUFFICES \E next : Matches(toks, next, after, now, spaced)
  BY DEF now
<1>1. done \in Seq(Toks) /\ done \in Seq(Returned) /\ more \in Seq(Toks) /\ after \in Seq(Toks)
  BY <1>0 DEF Tokenses, Returned
<1>2. ASSUME NEW r \in Seq(Returned), NEW u \in Returned
      PROVE  /\ Append(r, u) \in Seq(Returned)
             /\ NoEnds(Append(r, u)) = IF u \in Ends \cup {"DONE"} THEN NoEnds(r) ELSE Append(NoEnds(r), u)
             /\ NoDone(Append(r, u)) = IF u = "DONE" THEN NoDone(r) ELSE Append(NoDone(r), u)
  <2>1. Append(r, u) \in Seq(Returned)
    OBVIOUS
  <2>2. {"ARRAY_END", "OBJECT_END", "DONE"} = Ends \cup {"DONE"}
    BY DEF Ends
  <2>3. NoEnds(Append(r, u)) = IF u \in Ends \cup {"DONE"} THEN NoEnds(r) ELSE Append(NoEnds(r), u)
    BY <2>2, WithoutMore DEF NoEnds
  <2>4. NoDone(Append(r, u)) = IF u = "DONE" THEN NoDone(r) ELSE Append(NoDone(r), u)
    BY WithoutMore DEF NoDone
  <2> QED
    BY <2>1, <2>3, <2>4
<1>3. CASE t = "OK"
  <2>1. after = more
    BY <1>3 DEF Tells, Toks
  <2> QED
    BY <1>0, <1>3, <2>1 DEF Matches
<1>4. CASE t = "DONE"
  <2>1. after = more /\ t \in Returned
    BY <1>4 DEF Tells, Toks, Returned
  <2>2. now \in Seq(Returned) /\ NoEnds(now) = NoEnds(before) /\ NoDone(now) = NoDone(before)
    BY <1>0, <1>2, <1>4, <2>1
  <2>3. toks = done \o after
    BY <1>0, <2>1
  <2> QED
    BY <1>0, <2>2, <2>3 DEF Matches
<1>5. CASE t \in Toks /\ more = <<t>> \o after
  <2> DEFINE next == Append(done, t)
  <2>1. t \notin {"OK", "DONE"} /\ t \in Returned
    BY <1>5 DEF Toks, Returned
  <2>2. next \in Seq(Toks) /\ toks = next \o after
    BY <1>0, <1>1, <1>5
  <2>3. /\ now \in Seq(Returned)
        /\ NoEnds(now) = IF t \in Ends THEN NoEnds(before) ELSE Append(NoEnds(before), t)
        /\ NoDone(now) = Append(NoDone(before), t)
    BY <1>0, <1>2, <2>1
  <2>4. NoEnds(next) = IF t \in Ends THEN NoEnds(done) ELSE Append(NoEnds(done), t)
    BY <1>1, <1>2, <2>1
  <2>5. NoEnds(now) = NoEnds(next) /\ (spaced => NoDone(now) = next)
    <3>1. NoEnds(now) = NoEnds(next)
      BY <1>0, <2>3, <2>4
    <3>2. ASSUME spaced PROVE NoDone(now) = next
      BY <1>0, <2>3, <3>2
    <3> QED
      BY <3>1, <3>2
  <2> HIDE DEF next
  <2> QED
    BY <2>2, <2>3, <2>5 DEF Tokenses, Matches
<1>6. CASE ~spaced /\ t = "NUMBER" /\ \E u \in Ends : more = <<t>> \o (<<u>> \o after)
  <2>1. PICK u \in Ends : more = <<t>> \o (<<u>> \o after)
    BY <1>6
  <2> DEFINE one == Append(done, t)
             next == Append(one, u)
  <2>2. t \notin {"OK", "DONE"} /\ t \in Returned /\ t \in Toks /\ t \notin Ends /\ u \in Toks /\ u \in Returned
    BY <1>6 DEF Toks, Returned, Ends
  <2>3. one \in Seq(Toks) /\ one \in Seq(Returned)
    BY <1>1, <2>2
  <2>4. toks = next \o after
    <3> DEFINE tail == <<u>> \o after
    <3>1. tail \in Seq(Toks)
      BY <1>1, <2>2
    <3>2. done \o (<<t>> \o tail) = one \o tail
      <4> HIDE DEF tail
      <4>1. one = done \o <<t>>
        BY <1>1, <2>2
      <4> DEFINE mid == <<t>>
      <4>2. mid \in Seq(Toks)
        BY <2>2
      <4> HIDE DEF mid, one
      <4>3. (done \o mid) \o tail = done \o (mid \o tail)
        BY <1>1, <3>1, <4>2
      <4> QED
        BY <4>1, <4>3 DEF mid
    <3> HIDE DEF one
    <3>3. one \o tail = next \o after
      <4>1. next = one \o <<u>>
        BY <2>2, <2>3
      <4> DEFINE mid == <<u>>
      <4>2. mid \in Seq(Toks)
        BY <2>2
      <4> HIDE DEF mid, next
      <4>3. one \in Seq(Toks) /\ after \in Seq(Toks)
        BY <1>1, <2>3
      <4>4. (one \o mid) \o after = one \o (mid \o after)
        BY <4>2, <4>3
      <4> QED
        BY <4>1, <4>4 DEF mid
    <3> QED
      BY <1>0, <2>1, <3>2, <3>3
  <2>5. now \in Seq(Returned) /\ NoEnds(now) = Append(NoEnds(before), t)
    BY <1>0, <1>2, <2>2
  <2>6. NoEnds(one) = Append(NoEnds(done), t)
    BY <1>1, <1>2, <2>2
  <2> HIDE DEF one
  <2>7. NoEnds(next) = NoEnds(one) /\ next \in Seq(Toks)
    BY <1>2, <2>2, <2>3
  <2> HIDE DEF next
  <2> QED
    BY <1>0, <1>6, <2>4, <2>5, <2>6, <2>7 DEF Tokenses, Matches
<1> QED
  BY <1>3, <1>4, <1>5, <1>6 DEF Tells

LEMMA DocInvGive == DocInv /\ Give => DocInv'
<1> SUFFICES ASSUME DocInv, Give PROVE DocInv'
  OBVIOUS
<1> DEFINE all == Given(doc)
           char == all[pos + 1]
           spaced == doc.spaced
<1>1. /\ doc # Anything /\ doc' = doc /\ pos <= Len(doc.text) /\ Parse(char) /\ pos' = pos + 1
      /\ out' = IF tok' = "OK" THEN out ELSE Append(out, tok')
  BY DEF Give, Given
<1>2. doc \in Docs /\ pos \in 0..Len(all) /\ \E done, more : Done(done, more)
  BY <1>1 DEF DocInv
<1>3. PICK done, more : Done(done, more)
  BY <1>2
<1>4. all \in Seq(Chars) /\ Len(all) \in Nat /\ pos < Len(all) /\ pos \in Nat
  BY <1>1, <1>2, GivenIs DEF Texts
<1> DEFINE rest == SubSeq(all, pos + 1, Len(all))
           tail == SubSeq(all, (pos + 1) + 1, Len(all))
           plain == Plain(jsn)
<1>5. Good(plain, rest, more, spaced) /\ more \in Tokenses
  BY <1>3, GoodTypes DEF Done
<1> HIDE DEF all, spaced, plain
<1>6. rest = <<char>> \o tail /\ tail \in Seq(Chars) /\ rest # <<>> /\ char \in Chars
  <2>1. SubSeq(all, pos + 1, Len(all)) = <<all[pos + 1]>> \o SubSeq(all, (pos + 1) + 1, Len(all))
    BY <1>2, <1>4, RestIs
  <2>2. tail \in Seq(Chars) /\ char \in Chars
    BY <1>4
  <2>3. rest = <<char>> \o tail
    BY <2>1
  <2> HIDE DEF rest, tail, char
  <2> QED
    BY <2>2, <2>3
<1> HIDE DEF rest, tail, char
<1>7. \E c \in Chars, t \in Toks \cup {"OK", "DONE"} : \E k, r, after :
        /\ rest = <<c>> \o r /\ Moves(plain, c, k, t) /\ Tells(t, more, after, spaced) /\ Good(k, r, after, spaced)
  BY <1>5, <1>6, GoodAfter
<1>8. PICK c \in Chars, t \in Toks \cup {"OK", "DONE"} : \E k, r, after :
        /\ rest = <<c>> \o r /\ Moves(plain, c, k, t) /\ Tells(t, more, after, spaced) /\ Good(k, r, after, spaced)
  BY <1>7
<1>9. PICK k, r, after :
        /\ rest = <<c>> \o r /\ Moves(plain, c, k, t) /\ Tells(t, more, after, spaced) /\ Good(k, r, after, spaced)
  BY <1>8
<1>10. r \in Seq(Chars) /\ after \in Tokenses
  BY <1>9, GoodTypes DEF Texts
<1>11. c = char /\ r = tail
  <2>1. <<c>> \o r = <<char>> \o tail
    BY <1>6, <1>9
  <2>2. (<<c>> \o r)[1] = c /\ Tail(<<c>> \o r) = r
    BY <1>10
  <2>3. (<<char>> \o tail)[1] = char /\ Tail(<<char>> \o tail) = tail
    BY <1>6
  <2> QED
    BY <2>1, <2>2, <2>3
<1>12. Plain(jsn') = k /\ tok' = t
  BY <1>1, <1>6, <1>9, <1>11, MovesHappen DEF plain
<1>13. PICK next : Matches(doc.toks, next, after, Out(t, out), spaced)
  <2> DEFINE toks == doc.toks
  <2>1. Matches(toks, done, more, out, spaced)
    BY <1>3 DEF Done, spaced
  <2> HIDE DEF toks
  <2>2. \E next : Matches(toks, next, after, Out(t, out), spaced)
    BY <1>5, <1>9, <1>10, <2>1, OutMoves
  <2> QED
    BY <2>2 DEF toks
<1>14. out' = Out(t, out)
  BY <1>1, <1>12 DEF Out
<1>15. Good(Plain(jsn'), SubSeq(all, pos' + 1, Len(all)), after, spaced)
  BY <1>1, <1>9, <1>11, <1>12 DEF tail
<1>16. Done(next, after)'
  BY <1>1, <1>13, <1>14, <1>15 DEF Done, Matches, all, spaced, NoEnds, NoDone
<1>17. pos' \in 0..Len(all)
  BY <1>1, <1>2, <1>4
<1> QED
  BY <1>1, <1>2, <1>16, <1>17 DEF DocInv, all

LEMMA DocInvNext == DocInv /\ [Give \/ GiveAnything]_<<vars, docVars>> => DocInv'
<1> SUFFICES ASSUME DocInv, [Give \/ GiveAnything]_<<vars, docVars>> PROVE DocInv'
  OBVIOUS
<1>1. CASE Give
  BY <1>1, DocInvGive
<1>2. CASE GiveAnything
  BY <1>2 DEF DocInv, GiveAnything, docVars
<1>3. CASE UNCHANGED <<vars, docVars>>
  BY <1>3 DEF DocInv, Done, Matches, vars, docVars
<1> QED
  BY <1>1, <1>2, <1>3

LEMMA DocInvAccepts == DocInv => GrammarAccepted
<1> SUFFICES ASSUME DocInv PROVE GrammarAccepted
  OBVIOUS
<1>1. CASE doc = Anything
  BY <1>1 DEF DocInv, GrammarAccepted, Anything
<1>2. CASE doc # Anything
  <2> DEFINE all == Given(doc)
             n == Len(doc.text)
             spaced == doc.spaced
             plain == Plain(jsn)
             rest == SubSeq(all, pos + 1, Len(all))
  <2>1. doc \in Docs /\ pos \in 0..Len(all) /\ \E done, more : Done(done, more)
    BY <1>2 DEF DocInv
  <2>2. PICK done, more : Done(done, more)
    BY <2>1
  <2>3. all \in Seq(Chars) /\ n \in Nat /\ Len(all) = n + 1
    BY <2>1, GivenIs DEF Texts
  <2>4. Good(plain, rest, more, spaced)
    BY <2>2 DEF Done
  <2> HIDE DEF all
  <2>5. rest \in Seq(Chars) /\ Len(rest) = Len(all) - pos
    BY <2>1, <2>3, RestIs
  <2> HIDE DEF n, spaced, plain, rest
  <2>6. ASSUME pos < n PROVE jsn.final = "OK"
    <3>1. rest # <<>> /\ Len(rest) \in Nat /\ Len(rest) # 1
      BY <2>1, <2>3, <2>5, <2>6
    <3>2. \E c \in Chars, t \in Toks \cup {"OK", "DONE"} : \E k, r, after :
            /\ rest = <<c>> \o r /\ Moves(plain, c, k, t) /\ Tells(t, more, after, spaced)
            /\ Good(k, r, after, spaced) /\ (r # <<>> => plain.final = "OK")
      BY <2>4, <3>1, GoodAfter
    <3>3. PICK c, k, r, after : rest = <<c>> \o r /\ Good(k, r, after, spaced) /\ (r # <<>> => plain.final = "OK")
      BY <3>2
    <3>4. r # <<>>
      <4> SUFFICES ASSUME r = <<>> PROVE FALSE
        OBVIOUS
      <4>1. Len(rest) = 1
        BY <3>3
      <4> QED
        BY <3>1, <4>1
    <3> QED
      BY <3>3, <3>4, PlainIs DEF plain
  <2>7. ASSUME pos > n PROVE plain = Complete /\ more = <<>>
    <3>1. Len(rest) = 0
      BY <2>1, <2>3, <2>5, <2>7
    <3>2. rest = <<>>
      BY <2>5, <3>1, EmptySeq
    <3> QED
      BY <2>4, <3>2, GoodTypes
  <2>8. ASSUME pos > n PROVE jsn.final = "DONE" /\ NoEnds(out) = NoEnds(doc.toks) /\ (spaced => NoDone(out) = doc.toks)
    <3>1. done \in Seq(Toks) /\ doc.toks = done \o more /\ NoEnds(out) = NoEnds(done) /\ (spaced => NoDone(out) = done)
      BY <2>2 DEF Done, Matches, Tokenses, spaced
    <3>2. doc.toks = done
      BY <2>7, <2>8, <3>1
    <3> QED
      BY <2>7, <2>8, <3>1, <3>2, PlainIs DEF plain
  <2> QED
    BY <2>6, <2>8 DEF GrammarAccepted, n, spaced
<1> QED
  BY <1>1, <1>2

\* Every document of the grammar is accepted by json_parse, its tokens come in
\* order, and it is not taken for complete before its end.
THEOREM GrammarIsAccepted == DocsSpec => []GrammarAccepted
<1>1. DocsInit => DocInv
  BY DocInvInit
<1>2. DocInv /\ [Give \/ GiveAnything]_<<vars, docVars>> => DocInv'
  BY DocInvNext
<1>3. DocInv => GrammarAccepted
  BY DocInvAccepts
<1> QED
  BY <1>1, <1>2, <1>3, PTL DEF DocsSpec

\* What is given of a document are calls of json_parse with a character.
LEMMA GiveCalls == DocInv /\ [Give \/ GiveAnything]_<<vars, docVars>> => [Next]_vars
<1> SUFFICES ASSUME DocInv, [Give \/ GiveAnything]_<<vars, docVars>> PROVE [Next]_vars
  OBVIOUS
<1>1. CASE Give
  <2> DEFINE all == Given(doc)
             char == all[pos + 1]
  <2>1. doc \in Docs /\ pos \in 0..Len(all) /\ pos <= Len(doc.text) /\ Parse(char)
    BY <1>1 DEF DocInv, Give, Given
  <2>2. all \in Seq(Chars) /\ Len(all) \in Nat /\ pos < Len(all)
    BY <2>1, GivenIs DEF Texts
  <2> HIDE DEF all
  <2>3. char \in Chars
    BY <2>1, <2>2
  <2> QED
    BY <2>1, <2>3 DEF Next
<1>2. CASE GiveAnything
  BY <1>2 DEF GiveAnything
<1>3. CASE UNCHANGED <<vars, docVars>>
  BY <1>3
<1> QED
  BY <1>1, <1>2, <1>3

\* The runs with documents are runs of json_parse as its callers may call it: what
\* holds for any characters holds for them.
THEOREM DocumentsAreCalls == DocsSpec => Spec
<1>1. DocsInit => Init
  BY DEF DocsInit
<1>2. DocsInit => DocInv
  BY DocInvInit
<1>3. DocInv /\ [Give \/ GiveAnything]_<<vars, docVars>> => DocInv'
  BY DocInvNext
<1>4. DocInv /\ [Give \/ GiveAnything]_<<vars, docVars>> => [Next]_vars
  BY GiveCalls
<1> QED
  BY <1>1, <1>2, <1>3, <1>4, PTL DEF DocsSpec, Spec
=============================================================================
