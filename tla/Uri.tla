-------------------------------- MODULE Uri --------------------------------
(***************************************************************************)
(* util/uri.c: uri_parse.  A component that may be missing is a sequence   *)
(* of at most one text; those the code only leaves empty are a text.       *)
(***************************************************************************)
EXTENDS Str

CONSTANT U32   \* the number of values of an unsigned int

ASSUME UriAssumption == U32 \in Nat \ {0} /\ U32 % 2 = 0 /\ U32 < U64

NoUri == [scheme |-> <<>>, authority |-> <<>>, user |-> <<>>, pass |-> <<>>, host |-> <<>>, port |-> -1,
          path |-> <<>>, query |-> <<>>, fragment |-> <<>>]

\* "[user[:pass]@]host[:port]", the host in brackets or not.
Authority(text) ==
    LET part   == CSpan(text, {"@"})
        at     == Accept(part.rest, <<"@">>)
        user   == CSpan(part.got, {":"})
        pass   == Accept(user.rest, <<":">>)
        open   == Accept(IF at.ok THEN at.rest ELSE part.got, <<"[">>)
        host   == CSpan(open.rest, IF open.ok THEN {"]"} ELSE {":"})
        behind == IF open.ok THEN Accept(host.rest, <<"]">>).rest ELSE host.rest
        colon  == Accept(behind, <<":">>)
        port   == ReadU(colon.rest, 10, U32 - 1)
    IN  [user |-> IF at.ok THEN user.got ELSE <<>>,
         pass |-> IF at.ok /\ pass.ok THEN pass.rest ELSE <<>>,
         host |-> host.got,
         port |-> IF colon.ok /\ port.ok THEN Signed(port.value, U32) ELSE -1]

\* Faulty variant: the text before a missing colon is not given back.
BehindSkipped(text) ==
    LET part == CSpan(text, {":", "/", "?", "#"}) IN Accept(part.rest, <<":">>).rest

\* What follows the scheme.
BehindScheme(text) ==
    LET part  == CSpan(text, {":", "/", "?", "#"})
        colon == Accept(part.rest, <<":">>)
    IN  IF colon.ok THEN colon.rest ELSE text

UriParse(text) ==
    LET part     == CSpan(text, {":", "/", "?", "#"})
        slashes  == Accept(BehindScheme(text), <<"/", "/">>)
        auth     == IF slashes.ok THEN CSpan(slashes.rest, {"/"}) ELSE Split(slashes.rest, 0)
        path     == CSpan(auth.rest, {"?", "#"})
        question == Accept(path.rest, <<"?">>)
        query    == IF question.ok THEN CSpan(question.rest, {"#"}) ELSE Split(path.rest, 0)
        hash     == Accept(query.rest, <<"#">>)
        login    == IF slashes.ok THEN Authority(auth.got) ELSE NoUri
    IN  [scheme    |-> IF Accept(part.rest, <<":">>).ok THEN <<part.got>> ELSE <<>>,
         authority |-> IF slashes.ok THEN <<auth.got>> ELSE <<>>,
         user |-> login.user, pass |-> login.pass, host |-> login.host, port |-> login.port,
         path      |-> path.got,
         query     |-> IF question.ok THEN <<query.got>> ELSE <<>>,
         fragment  |-> IF hash.ok THEN <<hash.rest>> ELSE <<>>]
=============================================================================
