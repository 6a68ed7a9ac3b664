----------------------------- MODULE SerialPort -----------------------------
(***************************************************************************)
(* phy/serialport.c: the life of a port.  It is created, configured from   *)
(* the public fields of its structure, which the program stores to as it   *)
(* likes, and deleted again, with SerialAutobaud's interrupt and           *)
(* measurement in between.  The drivers of the UART and of the RMT         *)
(* (external) may refuse what they are asked for.                          *)
(***************************************************************************)
EXTENDS SerialAutobaud

CONSTANTS
    Default,      \* the rate of a new port, 115200
    OutOfRange    \* a rate that serialport_configure refuses

ASSUME RatesAssumption == Default \in Rates /\ OutOfRange \notin Windows

VARIABLES
    phase,     \* "new", "open", "deleting", "closing" or "deleted"
    rmt,       \* the port has a channel of the RMT
    framed,    \* p->databits, parity and stopbits are a frame that the UART has
    dirty      \* history: a field was stored since the UART was last configured

portVars == <<phase, rmt, framed, dirty>>

PortInit == Init /\ phase = "new" /\ rmt = FALSE /\ framed = TRUE /\ dirty = FALSE

Open == phase = "open" /\ pc = "idle"

\* uart_param_config succeeds.
Configured == uart' = baudrate' /\ dirty' = FALSE

-----------------------------------------------------------------------------

\* serialport_init.  Without a pin, or when rmt_new_rx_channel fails, p.rmt is
\* NULL.  The channel of a port deleted before may have been left behind; here it
\* must at least not be receiving any more.
PortOpen ==
    /\ phase \in {"new", "deleted"} /\ ~armed /\ isr = "none"
    /\ phase' = "open" /\ rmt' \in BOOLEAN /\ enabled' = FALSE
    /\ ready' = FALSE /\ running' = FALSE
    /\ baudrate' = Default /\ framed' = TRUE
    /\ Configured \/ (dirty' = TRUE /\ UNCHANGED uart)
    /\ fresh' = FALSE /\ torn' = FALSE /\ cancelled' = FALSE
    /\ raced' = FALSE /\ failed' = FALSE
    /\ UNCHANGED <<pc, want, buffer, samples, seen, isr, copied, armed>>

FieldVars == <<phase, rmt, MeasureVars, pc, ready, seen, fresh, torn, cancelled>>

\* The program stores a field.
StoreField ==
    /\ Open /\ dirty' = TRUE
    /\ \/ baudrate' \in Rates \cup {OutOfRange} /\ UNCHANGED framed
       \/ framed' \in BOOLEAN /\ UNCHANGED baudrate
    /\ UNCHANGED <<FieldVars, uart>>

\* The range of the rate, then the three switches over the frame.
Acceptable == baudrate # OutOfRange /\ framed

\* serialport_configure; also serialport_set_config, which does not store what it
\* has parsed and configures the fields as they were.
Configure ==
    /\ Open /\ Acceptable
    /\ UNCHANGED <<FieldVars, framed, baudrate>>
    /\ Configured \/ UNCHANGED <<uart, dirty>>

\* serialport_autobaud, which returns at once on a port without a channel.
PortAutobaud == Open /\ rmt /\ (\E e \in BOOLEAN : AutobaudCheck(e)) /\ UNCHANGED portVars

PortRead == Open /\ ReadPoll /\ UNCHANGED portVars

-----------------------------------------------------------------------------
(* serialport_del *)

DelBegin ==
    /\ Open /\ phase' = IF rmt THEN "deleting" ELSE "closing"
    /\ UNCHANGED <<vars, rmt, framed, dirty>>

\* Faulty variant: the detection is left as it is.
DelAutobaudNot ==
    /\ phase = "deleting" /\ phase' = "closing"
    /\ UNCHANGED <<vars, rmt, framed, dirty>>

DelAutobaud ==
    /\ phase = "deleting" /\ phase' = "closing"
    /\ AutobaudCheck(FALSE)
    /\ UNCHANGED <<rmt, framed, dirty>>

\* uart_driver_delete and rmt_del_channel, which refuses an enabled channel.
DelEnd ==
    /\ phase = "closing" /\ pc = "idle" /\ phase' = "deleted"
    /\ rmt' = (rmt /\ enabled)
    /\ cancelled' = (cancelled \/ fresh)
    /\ UNCHANGED <<framed, dirty, MeasureVars, pc, ready, seen, baudrate, uart, fresh, torn>>

-----------------------------------------------------------------------------

\* A call or an interrupt that has begun goes on.
PortAutobaudStep == Autobaud /\ UNCHANGED portVars
PortMeasure      == Measure /\ UNCHANGED portVars
PortIsr          == Isr /\ UNCHANGED portVars
PortDel          == DelAutobaud \/ DelEnd
PortCapture      == Capture /\ UNCHANGED portVars

PortNext == \/ PortOpen \/ StoreField \/ Configure \/ PortAutobaud \/ PortRead \/ DelBegin
            \/ PortAutobaudStep \/ PortMeasure \/ PortIsr \/ PortDel \/ PortCapture

allVars == <<vars, portVars>>

\* As in SerialAutobaud; a deletion that has begun ends.
PortFairness == /\ WF_allVars(PortAutobaudStep) /\ WF_allVars(PortMeasure)
                /\ WF_allVars(PortIsr) /\ WF_allVars(PortRead) /\ WF_allVars(PortDel)

PortSpec == PortInit /\ [][PortNext]_allVars /\ PortFairness

-----------------------------------------------------------------------------
(* Properties *)

\* What serialport_get_config reports is what the UART does, through every
\* measurement, unless the program stored a field and did not, or could not,
\* configure the port after it.
RateIsTrue == phase # "new" /\ ~dirty => uart = baudrate

\* A deleted port leaves no channel and no interrupt behind that would write to
\* its structure, as long as no window ended during a call of serialport_autobaud
\* and rmt_receive never failed: deletion, too, goes by autobaud.running.
DeletedIsQuiet ==
    phase = "deleted" /\ ~raced /\ ~failed => ~rmt /\ ~armed /\ isr = "none"
=============================================================================
