----------------------------- MODULE LedControl -----------------------------
(***************************************************************************)
(* phy/ledcontrol.c: LEDs driven by the alarm interrupt of a timer while   *)
(* the program attaches and detaches the pins they hang on.                *)
(*                                                                         *)
(* A call is the sequence of the writes it makes to the pins, the timer    *)
(* and the channel table, one of them per step: the interrupt may come     *)
(* between any two.  Which core it runs on is that of the caller of        *)
(* ledcontrol_init; on the program's own core it holds the program up.     *)
(* The pins and the timer are the hardware's, through ESP-IDF's drivers.   *)
(***************************************************************************)
EXTENDS Integers, Sequences

CONSTANTS
    Num,       \* LEDCONTROL_NUM
    Pin,       \* the GPIOs attached to
    NoPin,     \* -1 in gpio[]
    Width,     \* bits of a pattern, 8 * sizeof(u32)
    Patterns   \* patterns the program sets: the bits, numbered from 0

ASSUME LedAssumption ==
    /\ Num \in Nat /\ Width \in Nat \ {0} /\ NoPin \notin Pin
    /\ Patterns \subseteq [0 .. Width - 1 -> {0, 1}]

Channel == 0 .. Num - 1

VARIABLES
    gpio,      \* gpio[]: the pin of a channel, or NoPin
    link,      \* whether link[] holds a signal to shadow (only tested for < 0)
    pattern,   \* pattern[]: the bits, as a function of the bit's number
    count,     \* the bit shown by the next interrupt
    dir, route, level,   \* per pin: "off" or "out"; "gpio" or "link"; the level set
    timer,     \* "null", "init", "enabled" or "run"
    todo,      \* the writes the call in progress has still to make
    alarm,     \* the channels the interrupt has still to look at, its bit, a pin read
    sameCore   \* whether the interrupt runs on the program's core

pins     == <<dir, route, level>>
table    == <<gpio, link>>
ledVars  == <<table, pattern, count, pins, timer, todo, alarm, sameCore>>

Idle    == todo = <<>>
InAlarm == alarm.next < Num
\* The program's steps: held up by an interrupt on its own core.
Free    == ~(sameCore /\ InAlarm)

\* ledcontrol_init; gptimer_new_timer may fail and leave the timer NULL.
Fresh ==
    /\ gpio'  = [c \in Channel |-> NoPin]
    /\ link'  = [c \in Channel |-> FALSE]
    /\ pattern' = [c \in Channel |-> [b \in 0 .. Width - 1 |-> 0]]
    /\ count' = 0
    /\ timer' \in {"null", "init"}
    /\ sameCore' \in BOOLEAN

LedInit ==
    /\ gpio  = [c \in Channel |-> NoPin]
    /\ link  = [c \in Channel |-> FALSE]
    /\ pattern = [c \in Channel |-> [b \in 0 .. Width - 1 |-> 0]]
    /\ count = 0
    /\ timer \in {"null", "init"}
    /\ sameCore \in BOOLEAN
    /\ dir = [p \in Pin |-> "off"] /\ route = [p \in Pin |-> "gpio"] /\ level = [p \in Pin |-> 0]
    /\ todo = <<>>
    /\ alarm = [next |-> Num, bit |-> 0, read |-> NoPin]

-----------------------------------------------------------------------------
\* The writes of each function, in its order.

Write(op, c, p, lnk) == [op |-> op, ch |-> c, pin |-> p, link |-> lnk]
OnTimer(op)          == Write(op, 0, NoPin, FALSE)
OnPin(ops, c, p)     == [n \in DOMAIN ops |-> Write(ops[n], c, p, FALSE)]

\* Faulty variant: nothing is done about the pin a channel has.
DetachNone(c) == <<>>

Detach(c) ==
    IF gpio[c] = NoPin THEN <<>> ELSE OnPin(<<"reset", "gpio", "unlist">>, c, gpio[c])

\* A call of ledcontrol_detach, which tests the pin once its turn has come.
DetachCall(c) == Write("detach", c, NoPin, FALSE)

\* Faulty variant: the channel is entered into the table first.
AttachEarly(c, p, lnk) ==
    <<DetachCall(c)>> \o
    IF p = NoPin THEN <<>>
    ELSE <<Write("list", c, p, lnk)>> \o OnPin(<<"reset", "gpio", "out", "low">>, c, p)

Attach(c, p, lnk) ==
    <<DetachCall(c)>> \o
    IF p = NoPin THEN <<>>
    ELSE OnPin(<<"reset", "gpio", "out", "low">>, c, p) \o <<Write("list", c, p, lnk)>>

Stop  == IF timer = "null" THEN <<>> ELSE <<OnTimer("stop"), OnTimer("disable")>>
Start == IF timer = "null" THEN <<>> ELSE <<OnTimer("enable"), OnTimer("start")>>

Del == [n \in 1 .. Num |-> DetachCall(n - 1)] \o Stop \o <<OnTimer("delete")>>

\* The calls of the program; a pin hangs on one channel at a time, and after
\* ledcontrol_del only ledcontrol_init is called.
AttachCalls ==
    UNION {{Attach(c, p, lnk) : p \in {NoPin} \cup (Pin \ {gpio[d] : d \in Channel \ {c}}),
                                lnk \in BOOLEAN} : c \in Channel}
ShadowCalls ==
    UNION {{<<Write("gpio", c, gpio[c], FALSE)>>, <<Write("link", c, gpio[c], FALSE)>>}
           : c \in {d \in Channel : link[d]}}
Calls == AttachCalls \cup {<<DetachCall(c)>> : c \in Channel} \cup {Start, Stop, Del} \cup ShadowCalls

Call ==
    /\ Idle /\ Free /\ timer # "deleted"
    /\ todo' \in Calls
    /\ UNCHANGED <<table, pattern, count, pins, timer, alarm, sameCore>>

SetPattern ==
    /\ Idle /\ Free
    /\ \E c \in Channel, bits \in Patterns : pattern' = [pattern EXCEPT ![c] = bits]
    /\ UNCHANGED <<table, count, pins, timer, todo, alarm, sameCore>>

InitAgain ==
    /\ Idle /\ ~InAlarm /\ timer = "deleted"
    /\ Fresh
    /\ UNCHANGED <<pins, todo, alarm>>

-----------------------------------------------------------------------------
\* One write of the program.

\* The drivers refuse a call in the wrong state; gptimer_enable's refusal ends
\* ledcontrol_start, and a timer that cannot be deleted is lost.
TimerStep(op) ==
    CASE op = "enable"  /\ timer = "init"    -> "enabled"
      [] op = "start"   /\ timer = "enabled" -> "run"
      [] op = "stop"    /\ timer = "run"     -> "enabled"
      [] op = "disable" /\ timer = "enabled" -> "init"
      [] op = "delete"  -> IF timer \in {"null", "init"} THEN "deleted" ELSE "lost"
      [] OTHER -> timer

Step ==
    /\ ~Idle /\ Free
    /\ LET w == Head(todo) IN
       /\ todo' = CASE w.op = "enable" /\ timer # "init" -> <<>>
                    [] w.op = "detach" -> Detach(w.ch) \o Tail(todo)
                    [] OTHER           -> Tail(todo)
       /\ timer' = TimerStep(w.op)
       /\ gpio' = CASE w.op = "list"   -> [gpio EXCEPT ![w.ch] = w.pin]
                    [] w.op = "unlist" -> [gpio EXCEPT ![w.ch] = NoPin]
                    [] OTHER           -> gpio
       /\ link' = IF w.op \in {"list", "unlist"} THEN [link EXCEPT ![w.ch] = w.link] ELSE link
       /\ dir' = CASE w.op = "reset" -> [dir EXCEPT ![w.pin] = "off"]
                   [] w.op = "out"   -> [dir EXCEPT ![w.pin] = "out"]
                   [] OTHER          -> dir
       /\ route' = IF w.op \in {"gpio", "link"} THEN [route EXCEPT ![w.pin] = w.op] ELSE route
       /\ level' = IF w.op = "low" THEN [level EXCEPT ![w.pin] = 0] ELSE level
    /\ UNCHANGED <<pattern, count, alarm, sameCore>>

-----------------------------------------------------------------------------
\* The alarm interrupt: "callback".

\* Faulty variant: the counter wraps one bit early.
NextBitEarly(n) == IF n + 2 >= Width THEN 0 ELSE n + 1
NextBit(n)      == (n + 1) % Width

Alarm ==
    /\ timer = "run" /\ ~InAlarm
    /\ alarm' = [next |-> 0, bit |-> count, read |-> NoPin]
    /\ count' = NextBit(count)
    /\ UNCHANGED <<table, pattern, pins, timer, todo, sameCore>>

\* "if (l->p.gpio[i] >= 0)".
Look ==
    /\ InAlarm /\ alarm.read = NoPin
    /\ alarm' = IF gpio[alarm.next] = NoPin THEN [alarm EXCEPT !.next = @ + 1]
                ELSE [alarm EXCEPT !.read = gpio[alarm.next]]
    /\ UNCHANGED <<table, pattern, count, pins, timer, todo, sameCore>>

\* gpio[i] is used after it was tested: the pin that was read, or what another
\* core has written there meanwhile; the driver refuses pin -1.
Light ==
    /\ InAlarm /\ alarm.read # NoPin
    /\ \E p \in {alarm.read, gpio[alarm.next]} :
         level' = IF p = NoPin THEN level ELSE [level EXCEPT ![p] = pattern[alarm.next][alarm.bit]]
    /\ alarm' = [alarm EXCEPT !.next = @ + 1, !.read = NoPin]
    /\ UNCHANGED <<table, pattern, count, dir, route, timer, todo, sameCore>>

Interrupt == Alarm \/ Look \/ Light

LedNext == Call \/ SetPattern \/ InitAgain \/ Step \/ Interrupt

\* The timer reloads itself, so that the alarm always comes again.
LedSpec == LedInit /\ [][LedNext]_ledVars /\ WF_ledVars(Interrupt)

-----------------------------------------------------------------------------

\* The variables hold what they are meant to hold.
LedTypeOK ==
    /\ gpio \in [Channel -> Pin \cup {NoPin}] /\ link \in [Channel -> BOOLEAN]
    /\ pattern \in [Channel -> [0 .. Width - 1 -> {0, 1}]] /\ count \in 0 .. Width - 1
    /\ dir \in [Pin -> {"off", "out"}] /\ route \in [Pin -> {"gpio", "link"}]
    /\ level \in [Pin -> {0, 1}]
    /\ timer \in {"null", "init", "enabled", "run", "deleted", "lost"}
    /\ alarm \in [next : 0 .. Num, bit : 0 .. Width - 1, read : Pin \cup {NoPin}]
    /\ sameCore \in BOOLEAN

Listed(p) == \E c \in Channel : gpio[c] = p

\* Between two calls a pin that no channel has is back in its reset state and not
\* routed to a signal: moving a channel to another pin, detaching while the link
\* is shadowed and ledcontrol_del give every pin back.  Nor does ledcontrol_del meet
\* a timer that cannot be deleted, whatever starts and stops came before it.
ReleasedIsReset ==
    /\ Idle => \A p \in Pin : ~Listed(p) => dir[p] = "off" /\ route[p] = "gpio"
    /\ timer # "lost"

\* The interrupt finds a pin in the table only when it is an output, from before
\* ledcontrol_attach enters it until ledcontrol_detach starts to take it out.
ListedIsOutput ==
    \A c \in Channel :
        gpio[c] # NoPin /\ dir[gpio[c]] = "off" =>
            \E n \in 1 .. Len(todo) : todo[n].op = "unlist" /\ todo[n].pin = gpio[c]

\* While the timer runs and a pin stays attached, every bit of its channel's
\* pattern is shown on it again and again, calls for other channels or not.
PatternShows ==
    \A c \in Channel, p \in Pin, b \in 0 .. Width - 1, v \in {0, 1} :
        <>[](gpio[c] = p /\ timer = "run" /\ pattern[c][b] = v) => []<>(level[p] = v)

=============================================================================
