--------------------------- MODULE SerialAutobaud ---------------------------
(***************************************************************************)
(* phy/serialport.c: automatic baud rate detection.  The RMT peripheral    *)
(* (external) captures a window of line transitions into p.buffer; its     *)
(* interrupt handler, autobaud_callback, copies the window to p.samples,   *)
(* raises autobaud.ready and starts the next capture.  The task measures   *)
(* the samples the next time it polls serialport_read, and starts or stops *)
(* the whole with serialport_autobaud.  They share plain variables, with   *)
(* neither a lock nor a critical section, and may run on two cores; an     *)
(* interrupt on the task's own core is the case where it runs to its end   *)
(* between two steps of the task.                                          *)
(***************************************************************************)
EXTENDS Naturals, Sequences

CONSTANTS
    Rates,      \* the standard baud rates a window can be measured as
    Words       \* bound: words per window (SERIAL_AUTOBAUD_SAMPLES, 8 in the code)

ASSUME WordsAssumption == Words \in Nat \ {0}

\* A window with too few transitions to be measured; an all-zero buffer is one.
Short   == "short"
Windows == Rates \cup {Short}

VARIABLES
    pc, want,           \* task: next step, argument of serialport_autobaud
    ready, running,     \* autobaud.ready, autobaud.running
    buffer, samples,    \* p.buffer, p.samples: which window each word is of
    seen,               \* the samples autobaud_calculate has read so far
    baudrate, uart,     \* p->baudrate; the rate the UART really runs at
    isr, copied,        \* interrupt: next step or "none", words copied so far
    enabled, armed,     \* RMT channel: enabled, receiving
    fresh, torn,        \* history: samples written since the last measurement
                        \* began; the last measurement mixed two windows
    cancelled,          \* history: serialport_autobaud dropped a ready window
    raced, failed       \* history: a window ended inside a call of
                        \* serialport_autobaud; rmt_receive failed

vars == <<pc, want, ready, running, buffer, samples, seen, baudrate, uart, isr, copied,
          enabled, armed, fresh, torn, cancelled, raced, failed>>

Switching == pc \in {"clear", "switch", "arm", "mark"}

Init ==
    /\ pc = "idle" /\ want = FALSE /\ ready = FALSE /\ running = FALSE
    /\ buffer = Short /\ samples = [i \in 1..Words |-> Short] /\ seen = <<>>
    /\ baudrate \in Rates /\ uart = baudrate
    /\ isr = "none" /\ copied = 0 /\ enabled = FALSE /\ armed = FALSE
    /\ fresh = FALSE /\ torn = FALSE /\ cancelled = FALSE
    /\ raced = FALSE /\ failed = FALSE

\* rmt_receive, after the memset of p.buffer: needs a channel that is enabled and
\* not receiving, and can fail for reasons of its own.
Receive(next, otherwise) ==
    /\ buffer' = Short
    /\ \/ enabled /\ ~armed /\ armed' = TRUE /\ next /\ UNCHANGED failed
       \/ otherwise /\ failed' = TRUE /\ UNCHANGED armed

-----------------------------------------------------------------------------
(* serialport_autobaud *)

SwitchVars == <<buffer, samples, seen, baudrate, uart, isr, copied, fresh, torn>>

Race == raced' = (raced \/ isr # "none")

\* "if (running == enabled) return true".
AutobaudCheck(e) ==
    /\ pc = "idle"
    /\ IF running = e THEN UNCHANGED <<pc, want>> ELSE pc' = "clear" /\ want' = e
    /\ Race
    /\ UNCHANGED <<SwitchVars, ready, running, enabled, armed, cancelled, failed>>

AutobaudClear ==
    /\ pc = "clear"
    /\ ready' = FALSE /\ running' = FALSE /\ pc' = "switch"
    /\ cancelled' = (cancelled \/ fresh)
    /\ Race
    /\ UNCHANGED <<SwitchVars, want, enabled, armed, failed>>

\* rmt_enable (an error on an enabled channel is ignored), or rmt_disable.
AutobaudSwitch ==
    /\ pc = "switch"
    /\ enabled' = want /\ armed' = (want /\ armed)
    /\ pc' = IF want THEN "arm" ELSE "idle"
    /\ Race
    /\ UNCHANGED <<SwitchVars, want, ready, running, cancelled, failed>>

\* autobaud_activate, from the task: rmt_receive, then running.
AutobaudArm ==
    /\ pc = "arm"
    /\ Receive(pc' = "mark", pc' = "idle")
    /\ Race
    /\ UNCHANGED <<samples, seen, baudrate, uart, isr, copied, fresh, torn, want, ready,
                   running, enabled, cancelled>>

AutobaudMark ==
    /\ pc = "mark"
    /\ running' = TRUE /\ pc' = "idle"
    /\ Race
    /\ UNCHANGED <<SwitchVars, want, ready, enabled, armed, cancelled, failed>>

-----------------------------------------------------------------------------
(* serialport_read and autobaud_calculate *)

MeasureVars == <<want, running, buffer, samples, isr, copied, enabled, armed,
                 raced, failed>>

\* "if (ready) autobaud_calculate": a test, then the reset of ready.
ReadPoll ==
    /\ pc = "idle" /\ ready
    /\ pc' = "begin"
    /\ UNCHANGED <<MeasureVars, ready, seen, baudrate, uart, fresh, torn, cancelled>>

MeasureBegin ==
    /\ pc = "begin"
    /\ ready' = FALSE /\ seen' = <<>> /\ pc' = "measure"
    /\ fresh' = FALSE /\ torn' = FALSE /\ cancelled' = FALSE
    /\ UNCHANGED <<MeasureVars, baudrate, uart>>

\* The loops over p.samples, one word at a time.
MeasureWord ==
    /\ pc = "measure" /\ Len(seen) < Words
    /\ seen' = Append(seen, samples[Len(seen) + 1])
    /\ UNCHANGED <<MeasureVars, pc, ready, baudrate, uart, fresh, torn, cancelled>>

\* Words of one window: its rate, or too few transitions.  Words of two windows:
\* any standard rate, or too few transitions.
Measured ==
    IF \A i \in 1..Words : seen[i] = seen[1] THEN {seen[1]} ELSE Windows

\* Faulty variant: the result of uart_set_baudrate is not looked at.
AdoptAnyway(rate) == uart' \in {uart, rate} /\ baudrate' = rate

\* uart_set_baudrate may fail.
Adopt(rate) == \/ uart' = rate /\ baudrate' = rate
               \/ UNCHANGED <<uart, baudrate>>

\* Faulty variant: ready is reset once more when the measurement is over.
MeasureEndResetting ==
    /\ pc = "measure" /\ Len(seen) = Words
    /\ \E m \in Measured :
          IF m \in {Short, baudrate} THEN UNCHANGED <<uart, baudrate>> ELSE Adopt(m)
    /\ torn' = fresh /\ ready' = FALSE
    /\ pc' = "idle" /\ seen' = <<>>
    /\ UNCHANGED <<MeasureVars, fresh, cancelled>>

\* With too few transitions nothing is changed, nor at the rate the port has.
MeasureEnd ==
    /\ pc = "measure" /\ Len(seen) = Words
    /\ \E m \in Measured :
          IF m \in {Short, baudrate} THEN UNCHANGED <<uart, baudrate>> ELSE Adopt(m)
    /\ torn' = fresh
    /\ pc' = "idle" /\ seen' = <<>>
    /\ UNCHANGED <<MeasureVars, ready, fresh, cancelled>>

-----------------------------------------------------------------------------
(* autobaud_callback, and the capture that triggers it *)

IsrVars == <<pc, want, seen, baudrate, uart, cancelled, enabled>>

RaceIsr == raced' = (raced \/ Switching)

Capture ==
    /\ enabled /\ armed /\ isr = "none"
    /\ buffer' \in Windows
    /\ armed' = FALSE /\ isr' = "copy" /\ copied' = 0
    /\ RaceIsr
    /\ UNCHANGED <<IsrVars, ready, running, samples, fresh, torn, failed>>

\* memcpy, one word at a time.
IsrCopy ==
    /\ isr = "copy"
    /\ samples' = [samples EXCEPT ![copied + 1] = buffer]
    /\ fresh' = TRUE
    /\ copied' = copied + 1
    /\ isr' = IF copied' = Words THEN "flags" ELSE "copy"
    /\ RaceIsr
    /\ UNCHANGED <<IsrVars, ready, running, buffer, armed, torn, failed>>

IsrFlags ==
    /\ isr = "flags"
    /\ ready' = TRUE /\ running' = FALSE /\ isr' = "arm"
    /\ RaceIsr
    /\ UNCHANGED <<IsrVars, copied, buffer, samples, armed, fresh, torn, failed>>

\* autobaud_activate, from the interrupt.
IsrArm ==
    /\ isr = "arm"
    /\ Receive(isr' = "mark", isr' = "none")
    /\ RaceIsr
    /\ UNCHANGED <<IsrVars, copied, ready, running, samples, fresh, torn>>

IsrMark ==
    /\ isr = "mark"
    /\ running' = TRUE /\ isr' = "none"
    /\ RaceIsr
    /\ UNCHANGED <<IsrVars, copied, ready, buffer, samples, armed, fresh, torn, failed>>

-----------------------------------------------------------------------------

Autobaud == AutobaudClear \/ AutobaudSwitch \/ AutobaudArm \/ AutobaudMark
Measure  == MeasureBegin \/ MeasureWord \/ MeasureEnd
Isr      == IsrCopy \/ IsrFlags \/ IsrArm \/ IsrMark

Next == (\E e \in BOOLEAN : AutobaudCheck(e)) \/ Autobaud \/ ReadPoll \/ Measure \/ Capture \/ Isr

\* The task runs and polls serialport_read; an interrupt that started ends.
Fairness == WF_vars(Autobaud) /\ WF_vars(Measure) /\ WF_vars(Isr) /\ WF_vars(ReadPoll)

Spec == Init /\ [][Next]_vars /\ Fairness

-----------------------------------------------------------------------------
(* Properties *)

TypeOK ==
    /\ pc \in {"idle", "clear", "switch", "arm", "mark", "begin", "measure"}
    /\ {want, ready, running, enabled, armed} \subseteq BOOLEAN
    /\ {fresh, torn, cancelled, raced, failed} \subseteq BOOLEAN
    /\ buffer \in Windows /\ samples \in [1..Words -> Windows]
    /\ seen \in Seq(Windows) /\ Len(seen) <= Words
    /\ {baudrate, uart} \subseteq Rates
    /\ isr \in {"none", "copy", "flags", "arm", "mark"} /\ copied \in 0..Words

\* When the line falls silent, the port settles on an undivided measurement.
SettlesWhenQuiet ==
    <>[][~Capture]_vars => <>[](torn => cancelled)
=============================================================================
