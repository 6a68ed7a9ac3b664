------------------------------ MODULE Terminal ------------------------------
(***************************************************************************)
(* phy/terminal.c: a line discipline between a program and a character     *)
(* device: newline conversion, echo, line editing, hidden input.           *)
(*                                                                         *)
(* Keys are typed ahead into the device, at any time; a call that reads    *)
(* takes one of them per step.  "seen" is what the call read so far, the   *)
(* conversions done, and "sent" what the last step put on the device.      *)
(***************************************************************************)
EXTENDS Integers, SequencesExt

CONSTANTS
    Printable,  \* printable characters
    Mask,       \* the character shown for a hidden one
    MaxTyped,   \* bound: keys waiting in the device or read by the call in progress
    MaxLen      \* bound: characters a call has room for

ASSUME TerminalAssumption ==
    /\ {"BS", "CR", "NL", "CTL", "none"} \cap Printable = {} /\ Mask \notin Printable
    /\ MaxTyped \in Nat /\ MaxLen \in Nat

\* chr_bs, chr_cr, chr_nl, the printable characters and "CTL", any other byte.
Key == Printable \cup {"BS", "CR", "NL", "CTL"}

VARIABLES
    mode,    \* "msdos", "unix" or "mac": add_cr, ign_cr and crlf
    echo,    \* echo
    wanted,  \* the echo that the program set
    typed,   \* keys waiting in the device
    call,    \* the call in progress
    seen, sent

terminalVars == <<mode, echo, wanted, typed, call, seen, sent>>

AddCr == mode = "msdos"
IgnCr == mode \in {"msdos", "unix"}
CrLf  == mode = "mac"

\* A call: the room in its buffer and what is there, the echo it found, and how
\* the keys are shown: "none" hidden, hidden and "off", or behind a "mask".
NoCall == [kind |-> "none", len |-> 0, hide |-> "none", echo |-> FALSE, buf |-> <<>>]

TerminalInit ==
    /\ mode = "msdos" /\ echo = FALSE /\ wanted = FALSE
    /\ typed = <<>> /\ seen = <<>> /\ sent = <<>>
    /\ call = NoCall

InCall == call.kind # "none"

-----------------------------------------------------------------------------
\* terminal_putc: what a character becomes on the device.
Put(ch) ==
    IF ch # "NL" THEN <<ch>>
    ELSE (IF AddCr THEN <<"CR">> ELSE <<>>) \o <<IF CrLf THEN "CR" ELSE "NL">>

\* terminal_write, terminal_puts and terminal_printf.
PutAll(text) == FlattenSeq([n \in DOMAIN text |-> Put(text[n])])

\* terminal_getc: a carriage return may be skipped or become a newline; in the
\* faulty variant it stays one.
Skipped(key)      == key = "CR" /\ IgnCr
ConvertedNot(key) == key
Converted(key)    == IF key = "CR" /\ CrLf THEN "NL" ELSE key

\* Faulty variant: backspace in an empty line waits for a character to take.
EditedKeep(buf, ch) ==
    IF ch # "BS" THEN Append(buf, ch) ELSE IF buf = <<>> THEN <<ch>> ELSE Front(buf)

\* Backspace takes the last character away, another one is added.
Edited(buf, ch) ==
    IF ch # "BS" THEN Append(buf, ch) ELSE IF buf = <<>> THEN buf ELSE Front(buf)

\* "terminal_putc(t, isprint(ch)? hide: ch)": any other byte is put out as it is.
Masked(ch) == Put(IF ch \in Printable THEN Mask ELSE ch)

\* The bytes that reading ch puts on the device: echo, then the mask.
Shown(ch) ==
    (IF echo THEN Put(ch) ELSE <<>>) \o
    (IF call.kind = "input" /\ call.hide = "mask" THEN Masked(ch) ELSE <<>>)
-----------------------------------------------------------------------------

\* The device and the program around the terminal.
Type(key) ==
    /\ Len(typed) + Len(seen) < MaxTyped
    /\ typed' = Append(typed, key)
    /\ sent' = <<>>
    /\ UNCHANGED <<mode, echo, wanted, call, seen>>

SetMode(m) ==
    /\ ~InCall
    /\ mode' = m /\ sent' = <<>>
    /\ UNCHANGED <<echo, wanted, typed, call, seen>>

SetEcho(on) ==
    /\ ~InCall
    /\ echo' = on /\ wanted' = on /\ sent' = <<>>
    /\ UNCHANGED <<mode, typed, call, seen>>

\* A text is put out: one newline after one character.
WriteText ==
    /\ ~InCall
    /\ \E ch \in Printable : sent' = PutAll(<<ch, "NL">>)
    /\ UNCHANGED <<mode, echo, wanted, typed, call, seen>>

Begin(kind, len, hide) ==
    /\ ~InCall
    /\ call' = [kind |-> kind, len |-> len, hide |-> hide, echo |-> echo, buf |-> <<>>]
    /\ seen' = <<>>

\* terminal_read (terminal_getc is a read of one) and terminal_gets.
Read(len) == Begin("read", len, "none") /\ sent' = <<>> /\ UNCHANGED <<mode, echo, wanted, typed>>
TerminalGets(len) == Begin("gets", len, "none") /\ sent' = <<>> /\ UNCHANGED <<mode, echo, wanted, typed>>

\* Faulty variant: hidden input is echoed when the terminal echoes.
EchoAlways(hide) == echo \/ hide = "none"
\* "t->echo = hide < 0".
EchoDuring(hide) == hide = "none"

\* terminal_input shows the prompt, here of one printable character, or none.
Input(len, hide) ==
    /\ Begin("input", len, hide)
    /\ echo' = EchoDuring(hide)
    /\ sent' \in {<<>>} \cup {PutAll(<<ch>>) : ch \in Printable}
    /\ UNCHANGED <<mode, wanted, typed>>

-----------------------------------------------------------------------------
\* "t->echo = echo".
EchoAfter == IF call.kind = "input" THEN call.echo ELSE echo

Return == call' = NoCall /\ echo' = EchoAfter /\ seen' = <<>>

\* "n < len".
Room == Len(call.buf) < call.len

\* The buffer is full before the next key is asked for.
Full ==
    /\ InCall /\ ~Room
    /\ Return /\ sent' = <<>>
    /\ UNCHANGED <<mode, wanted, typed>>

\* Nothing is typed: terminal_read returns, the others ask again.
ReadNothing ==
    /\ call.kind = "read" /\ Room /\ typed = <<>>
    /\ Return /\ sent' = <<>>
    /\ UNCHANGED <<mode, wanted, typed>>

Take ==
    /\ InCall /\ Room /\ typed # <<>>
    /\ typed' = Tail(typed)
    /\ UNCHANGED <<mode, wanted>>

Skip ==
    /\ Take /\ Skipped(Head(typed))
    /\ sent' = <<>>
    /\ UNCHANGED <<echo, call, seen>>

GetChar(ch) ==
    /\ Take /\ ~Skipped(Head(typed)) /\ ch = Converted(Head(typed))
    /\ sent' = Shown(ch)

Raw ==
    \E ch \in Key :
        /\ call.kind = "read"
        /\ GetChar(ch)
        /\ call' = [call EXCEPT !.buf = Append(@, ch)]
        /\ seen' = Append(seen, ch)
        /\ UNCHANGED echo

Edit ==
    \E ch \in Key \ {"NL"} :
        /\ call.kind \in {"gets", "input"}
        /\ GetChar(ch)
        /\ call' = [call EXCEPT !.buf = Edited(@, ch)]
        /\ seen' = Append(seen, ch)
        /\ UNCHANGED echo

EndOfLine ==
    /\ call.kind \in {"gets", "input"}
    /\ GetChar("NL")
    /\ Return

TerminalNext ==
    \/ \E key \in Key : Type(key)
    \/ \E m \in {"msdos", "unix", "mac"} : SetMode(m)
    \/ \E on \in BOOLEAN : SetEcho(on)
    \/ WriteText
    \/ \E len \in 0 .. MaxLen : Read(len) \/ TerminalGets(len)
    \/ \E len \in 0 .. MaxLen, hide \in {"none", "off", "mask"} : Input(len, hide)
    \/ Full \/ ReadNothing \/ Skip \/ Raw \/ Edit \/ EndOfLine

\* A call goes on as long as it finds keys.
TerminalSpec == TerminalInit /\ [][TerminalNext]_terminalVars /\ WF_terminalVars(Full \/ ReadNothing \/ Skip \/ Raw \/ Edit \/ EndOfLine)

-----------------------------------------------------------------------------

\* The variables hold what they are meant to hold; a call never has more
\* characters than its buffer has room for.
TerminalTypeOK ==
    /\ mode \in {"msdos", "unix", "mac"}
    /\ echo \in BOOLEAN /\ wanted \in BOOLEAN
    /\ typed \in Seq(Key) /\ seen \in Seq(Key) /\ sent \in Seq(Key \cup {Mask})
    /\ call.kind \in {"none", "read", "gets", "input"} /\ Len(call.buf) <= call.len

\* The level of a line at each place of its text: characters less backspaces.
Level(text) ==
    LET level[m \in 0 .. Len(text)] ==
            IF m = 0 THEN 0 ELSE IF text[m] = "BS" THEN level[m - 1] - 1 ELSE level[m - 1] + 1
    IN  level

\* The characters of a text that no later backspace takes away: the level never falls
\* below the one they raised it to.
Kept(text) ==
    {n \in DOMAIN text :
        text[n] # "BS" /\ \A m \in n .. Len(text) : Level(text)[m] >= Level(text)[n]}

\* A line holds the characters of a text that are kept, in the order of the text.
Remains(line, text) ==
    \E place \in [DOMAIN line -> Kept(text)] :
        /\ Kept(text) = {place[p] : p \in DOMAIN line}
        /\ \A p, q \in DOMAIN line : p < q => place[p] < place[q]
        /\ \A p \in DOMAIN line : line[p] = text[place[p]]

\* terminal_gets and terminal_input leave in the buffer what the backspaces among
\* the keys leave of them, backspaces at the start of the line included, and no
\* more than it has room for.
LineIsEdited ==
    /\ call.kind \in {"gets", "input"} => Remains(call.buf, seen)
    /\ Len(call.buf) <= call.len

\* From the prompt to the return of a hidden input no printable key appears on the
\* device, whatever echo the program had set before, and input of any kind leaves
\* that echo as it found it.  Keys that are not printable are put out as they are
\* behind a mask: the property says nothing of them.
HiddenIsHidden ==
    [][/\ call.hide # "none" => \A n \in DOMAIN sent' : sent'[n] \notin Printable
       /\ ~InCall' => echo' = wanted']_terminalVars

\* A call that reads a line returns once the end of a line was typed, as the
\* mode's newline or, where the mode says so, as a carriage return.
LineReturns ==
    /\ call.kind \in {"gets", "input"} /\ (Contains(typed, "NL") \/ (CrLf /\ Contains(typed, "CR")))
    ~> ~InCall

=============================================================================
