----------------------------- MODULE JsonTokens -----------------------------
(***************************************************************************)
(* What the consumers of util/json.c build on (the UJSON macros of         *)
(* util/json.h): the tokens json_parse returns, JSON_OK left out, nest     *)
(* like the values they describe; a key is followed by its name and then   *)
(* its value; nothing follows the document; an error is for good.          *)
(*                                                                         *)
(* json_parse does not report the end of a container that directly follows *)
(* a number, which this specification allows (NumberAndEnd).               *)
(***************************************************************************)
EXTENDS Naturals, Sequences

CONSTANT Depth   \* containers that may enclose a value

VARIABLES
    tok,    \* the token returned last
    nest,   \* the open containers, innermost last
    want    \* what the innermost one goes on with

vars == <<tok, nest, want>>

Outer(n) == SubSeq(n, 1, Len(n) - 1)

\* What containers n go on with when a value or a container inside ended.
After(n) ==
    CASE n = <<>>                           -> "done"
      [] n # <<>> /\ n[Len(n)] = "array"    -> "value"
      [] n # <<>> /\ n[Len(n)] = "object"   -> "key"

Init == tok = "OK" /\ nest = <<>> /\ want = "value"

GoOn(n, w) == nest' = n /\ want' = w

\* The parser may also have failed right behind the token: a number ends with the
\* character behind it, and the name of a key may find the stack full.
MayGoOn(n, w) == nest' = n /\ want' \in {w, "error"}

Silent == want \notin {"done", "error"} /\ tok' = "OK" /\ UNCHANGED <<nest, want>>

Scalar ==
    /\ want = "value" /\ Len(nest) <= Depth
    /\ \/ tok' \in {"BOOL", "NULL", "STRING"} /\ GoOn(nest, After(nest))
       \/ tok' = "NUMBER" /\ MayGoOn(nest, After(nest))

Begin ==
    /\ want = "value" /\ Len(nest) <= Depth
    /\ \/ tok' = "ARRAY_BEGIN"  /\ GoOn(Append(nest, "array"), "value")
       \/ tok' = "OBJECT_BEGIN" /\ GoOn(Append(nest, "object"), "key")

End ==
    /\ nest # <<>>
    /\ \/ nest[Len(nest)] = "array"  /\ want = "value" /\ tok' = "ARRAY_END"
       \/ nest[Len(nest)] = "object" /\ want = "key"   /\ tok' = "OBJECT_END"
    /\ GoOn(Outer(nest), After(Outer(nest)))

Key   == want = "key"    /\ tok' = "OBJECT_KEY"   /\ MayGoOn(nest, "name")
Name  == want = "name"   /\ tok' = "STRING"       /\ GoOn(nest, "colon")
Colon == want = "colon"  /\ tok' = "OBJECT_VALUE" /\ GoOn(nest, "value")

\* The number is reported, the end of its container is not.
NumberAndEnd ==
    /\ want = "value" /\ nest # <<>> /\ Len(nest) <= Depth
    /\ tok' = "NUMBER"
    /\ GoOn(Outer(nest), After(Outer(nest)))

\* The next document.
Restart == tok' = "OK" /\ nest' = <<>> /\ want' = "value"

Done == want = "done" /\ tok' = "DONE" /\ UNCHANGED <<nest, want>>
Fail == want # "done" /\ tok' = "ERROR" /\ want' = "error" /\ UNCHANGED nest

Next == Restart \/ Silent \/ Scalar \/ Begin \/ End \/ Key \/ Name \/ Colon
        \/ NumberAndEnd \/ Done \/ Fail

Spec == Init /\ [][Next]_vars
=============================================================================
