----------------------------- MODULE PhyProofs -----------------------------
(***************************************************************************)
(* phy/serialport.c: the rate that a port reports is the one it runs at,   *)
(* and a deleted port is left alone by the interrupt, for all rates and    *)
(* any number of words in a window.  phy/ledcontrol.c: a pin in the table  *)
(* is an output, and one that is given up is reset, for all channels and   *)
(* pins.                                                                   *)
(***************************************************************************)
EXTENDS SerialPort, LedControl, SequenceTheorems, TLAPS

-----------------------------------------------------------------------------
(* The serial port *)

\* Where the task can be in each phase of the port.
Control ==
    /\ pc \in {"idle", "clear", "switch", "arm", "mark", "begin", "measure"}
    /\ isr \in {"none", "copy", "flags", "arm", "mark"}
    /\ phase \in {"new", "open", "deleting", "closing", "deleted"}
    /\ {want, running, enabled, armed, rmt, raced, failed} \subseteq BOOLEAN
    /\ phase \in {"new", "deleting", "deleted"} => pc = "idle"
    /\ phase = "closing" => pc = "idle" \/ (pc \in {"clear", "switch"} /\ ~want)

\* What autobaud.running says of the channel while no window ended during a call of
\* serialport_autobaud and rmt_receive never failed.
Detection ==
    /\ armed \/ isr # "none" => enabled
    /\ Switching => isr = "none"
    /\ ~Switching => (enabled <=> running \/ isr \in {"arm", "mark"})
    /\ pc = "clear" => (want <=> ~running) /\ (enabled <=> running)
    /\ pc \in {"switch", "arm", "mark"} => ~running
    /\ pc = "switch" /\ want => ~enabled
    /\ pc \in {"arm", "mark"} => enabled /\ want
    /\ enabled \/ Switching => rmt
    /\ phase \in {"new", "deleted"} => ~enabled
    /\ phase = "deleted" => ~rmt
    /\ phase = "closing" /\ pc = "idle" => ~enabled

PortInv == Control /\ (~raced /\ ~failed => Detection)

\* The steps of serialport_autobaud.
LEMMA SwitchStep ==
    ASSUME PortInv, UNCHANGED portVars, Autobaud
    PROVE  PortInv'
<1> USE DEF PortInv, Control, Detection, Switching, SwitchVars, portVars, Race
<1>1. CASE AutobaudClear
  BY <1>1 DEF AutobaudClear
<1>2. CASE AutobaudSwitch
  <2>1. CASE want = TRUE
    BY <1>2, <2>1 DEF AutobaudSwitch
  <2>2. CASE want = FALSE
    BY <1>2, <2>2 DEF AutobaudSwitch
  <2> QED
    BY <2>1, <2>2
<1>3. CASE AutobaudArm
  BY <1>3 DEF AutobaudArm, Receive
<1>4. CASE AutobaudMark
  BY <1>4 DEF AutobaudMark
<1> QED
  BY <1>1, <1>2, <1>3, <1>4 DEF Autobaud

\* Reading and measuring leave channel and flag alone.
LEMMA MeasureStep ==
    ASSUME PortInv, UNCHANGED portVars, Measure \/ (Open /\ ReadPoll)
    PROVE  PortInv'
<1> USE DEF PortInv, Control, Detection, Switching, MeasureVars, portVars
<1>1. CASE MeasureBegin
  BY <1>1 DEF MeasureBegin
<1>2. CASE MeasureWord
  BY <1>2 DEF MeasureWord
<1>3. CASE MeasureEnd
  <2>1. pc = "measure" /\ pc' = "idle" /\ UNCHANGED MeasureVars
    BY <1>3 DEF MeasureEnd
  <2> QED
    BY <2>1
<1>4. CASE Open /\ ReadPoll
  BY <1>4 DEF Open, ReadPoll
<1> QED
  BY <1>1, <1>2, <1>3, <1>4 DEF Measure

\* The interrupt and the capture before it.
LEMMA IsrStep ==
    ASSUME PortInv, UNCHANGED portVars, Isr \/ Capture
    PROVE  PortInv'
<1> USE DEF PortInv, Control, Detection, Switching, IsrVars, portVars, RaceIsr
<1>1. CASE IsrCopy
  BY <1>1 DEF IsrCopy
<1>2. CASE IsrFlags
  BY <1>2 DEF IsrFlags
<1>3. CASE IsrArm
  BY <1>3 DEF IsrArm, Receive
<1>4. CASE IsrMark
  BY <1>4 DEF IsrMark
<1>5. CASE Capture
  BY <1>5 DEF Capture
<1> QED
  BY <1>1, <1>2, <1>3, <1>4, <1>5 DEF Isr

\* serialport_del, which goes by the flag.
LEMMA DelStep ==
    ASSUME PortInv, DelBegin \/ DelAutobaud \/ DelEnd
    PROVE  PortInv'
<1> USE DEF PortInv, Control, Detection, Switching
<1>1. CASE DelBegin
  BY <1>1 DEF DelBegin, Open, vars
<1>2. CASE DelAutobaud
  BY <1>2 DEF DelAutobaud, AutobaudCheck, SwitchVars, Race
<1>3. CASE DelEnd
  BY <1>3 DEF DelEnd, MeasureVars
<1> QED
  BY <1>1, <1>2, <1>3

LEMMA ChannelNext == PortInv /\ [PortNext]_allVars => PortInv'
<1> SUFFICES ASSUME PortInv, [PortNext]_allVars PROVE PortInv'
  OBVIOUS
<1>1. CASE PortOpen
  BY <1>1 DEF PortOpen, PortInv, Control, Detection, Switching
<1>2. CASE StoreField \/ Configure
  <2>1. UNCHANGED FieldVars
    BY <1>2 DEF StoreField, Configure
  <2> QED
    BY <2>1 DEF FieldVars, MeasureVars, PortInv, Control, Detection, Switching
<1>3. CASE PortAutobaud
  BY <1>3 DEF PortAutobaud, Open, AutobaudCheck, SwitchVars, Race, portVars,
              PortInv, Control, Detection, Switching
<1>4. CASE PortRead \/ PortMeasure
  BY <1>4, MeasureStep DEF PortRead, PortMeasure
<1>5. CASE DelBegin \/ PortDel
  BY <1>5, DelStep DEF PortDel
<1>6. CASE PortAutobaudStep
  BY <1>6, SwitchStep DEF PortAutobaudStep
<1>7. CASE PortIsr \/ PortCapture
  BY <1>7, IsrStep DEF PortIsr, PortCapture
<1>8. CASE UNCHANGED allVars
  BY <1>8 DEF allVars, vars, portVars, PortInv, Control, Detection, Switching
<1> QED
  BY <1>1, <1>2, <1>3, <1>4, <1>5, <1>6, <1>7, <1>8 DEF PortNext

LEMMA ChannelInit == PortInit => PortInv
BY DEF PortInit, Init, PortInv, Control, Detection, Switching

\* Behind serialport_del there is no channel, no capture and no interrupt that would
\* write to the port, unless a window ended during a call or a capture failed.
THEOREM DeletionIsQuiet == PortSpec => []DeletedIsQuiet
<1>1. PortInv => DeletedIsQuiet
  BY DEF PortInv, Detection, DeletedIsQuiet
<1> QED
  BY <1>1, ChannelInit, ChannelNext, PTL DEF PortSpec

-----------------------------------------------------------------------------
\* The UART is told of a rate before the port reports it.
LEMMA RateStep == RateIsTrue /\ [PortNext]_allVars => RateIsTrue'
<1> SUFFICES ASSUME RateIsTrue, [PortNext]_allVars PROVE RateIsTrue'
  OBVIOUS
<1>1. ASSUME UNCHANGED <<phase, dirty, uart, baudrate>> \/ dirty' \/ uart' = baudrate' PROVE RateIsTrue'
  BY <1>1 DEF RateIsTrue
<1>2. CASE PortOpen
  BY <1>1, <1>2 DEF PortOpen, Configured
<1>3. CASE StoreField
  BY <1>1, <1>3 DEF StoreField
<1>4. CASE Configure
  BY <1>1, <1>4 DEF Configure, Configured, FieldVars
<1>5. CASE PortAutobaud
  BY <1>1, <1>5 DEF PortAutobaud, AutobaudCheck, SwitchVars, portVars
<1>6. CASE PortRead
  BY <1>1, <1>6 DEF PortRead, ReadPoll, portVars
<1>7. CASE DelBegin
  BY <1>7 DEF DelBegin, Open, vars, RateIsTrue
<1>8. CASE PortAutobaudStep
  BY <1>1, <1>8 DEF PortAutobaudStep, Autobaud, AutobaudClear, AutobaudSwitch, AutobaudArm, AutobaudMark,
                    SwitchVars, portVars
<1>9. CASE PortMeasure
  <2>1. CASE MeasureBegin \/ MeasureWord
    BY <1>1, <1>9, <2>1 DEF PortMeasure, MeasureBegin, MeasureWord, portVars
  <2>2. CASE MeasureEnd
    <3>1. UNCHANGED <<uart, baudrate>> \/ uart' = baudrate'
      BY <2>2 DEF MeasureEnd, Adopt
    <3> QED
      BY <1>1, <1>9, <3>1 DEF PortMeasure, portVars
  <2> QED
    BY <1>9, <2>1, <2>2 DEF PortMeasure, Measure
<1>10. CASE PortIsr \/ PortCapture
  BY <1>1, <1>10 DEF PortIsr, PortCapture, Isr, Capture, IsrCopy, IsrFlags, IsrArm, IsrMark, IsrVars, portVars
<1>11. CASE DelAutobaud
  BY <1>11 DEF DelAutobaud, AutobaudCheck, SwitchVars, RateIsTrue
<1>12. CASE DelEnd
  BY <1>12 DEF DelEnd, RateIsTrue
<1>13. CASE UNCHANGED allVars
  BY <1>1, <1>13 DEF allVars, vars, portVars
<1> QED
  BY <1>2, <1>3, <1>4, <1>5, <1>6, <1>7, <1>8, <1>9, <1>10, <1>11, <1>12, <1>13 DEF PortNext, PortDel

\* What serialport_get_config reports is what the UART does, through every
\* measurement and configuration, for all rates.
THEOREM RateIsReal == PortSpec => []RateIsTrue
<1>1. PortInit => RateIsTrue
  BY DEF PortInit, RateIsTrue
<1> QED
  BY <1>1, RateStep, PTL DEF PortSpec
-----------------------------------------------------------------------------
(* The LEDs *)

\* The writes that a call has still to make, counted from its last one: the next
\* to come is Left[Count].
Count == Len(todo)
Left  == [r \in 1 .. Len(todo) |-> todo[Len(todo) - r + 1]]

LastIs(op) == Count > 0 /\ Left[1].op = op

\* Channel c has no pin, or loses it before the last write.
Leaving(c) ==
    gpio[c] = NoPin \/ \E s \in 2 .. Count : Left[s].op \in {"detach", "unlist"} /\ Left[s].ch = c

OnPins   == {"reset", "gpio", "out", "low", "link"}
OnTimers == {"stop", "disable", "delete", "enable", "start"}

Writes == [op : OnPins \cup OnTimers \cup {"detach", "unlist", "list"},
           ch : Nat, pin : Pin \cup {NoPin}, link : BOOLEAN]

LedTypes ==
    /\ gpio \in [Channel -> Pin \cup {NoPin}] /\ link \in [Channel -> BOOLEAN]
    /\ dir \in [Pin -> {"off", "out"}] /\ route \in [Pin -> {"gpio", "link"}]
    /\ timer \in {"null", "init", "enabled", "run", "deleted"}
    /\ Count \in Nat /\ Left \in [1 .. Count -> Writes]
    /\ \A r \in 1 .. Count :
         /\ Left[r].op \in {"detach", "list", "unlist"} => Left[r].ch \in Channel
         /\ Left[r].op \in OnPins \cup {"list", "unlist"} => Left[r].pin \in Pin

\* A pin hangs on one channel.
OneEach ==
    /\ \A c, d \in Channel : gpio[c] = gpio[d] /\ gpio[c] # NoPin => c = d
    /\ \A c \in Channel : link[c] => gpio[c] # NoPin

LastOnes == \A r \in 1 .. Count : Left[r].op \in {"list", "delete", "start"} => r = 1

\* A pin is reset and routed back before it leaves the table.
Unlisting ==
    \A r \in 1 .. Count : Left[r].op = "unlist" =>
        /\ gpio[Left[r].ch] = Left[r].pin /\ ~Left[r].link
        /\ \A s \in r + 1 .. Count : Left[s].op \in {"reset", "gpio"} /\ Left[s].pin = Left[r].pin
        /\ dir[Left[r].pin] = "off" \/ \E s \in r + 1 .. Count : Left[s].op = "reset"
        /\ route[Left[r].pin] = "gpio" \/ \E s \in r + 1 .. Count : Left[s].op = "gpio"

\* The pin that enters the table is in none of its channels then, and an output.
Listing ==
    LastIs("list") =>
        /\ \A c \in Channel : gpio[c] = Left[1].pin => c = Left[1].ch
        /\ Leaving(Left[1].ch)
        /\ \/ dir[Left[1].pin] = "out" /\ \A s \in 2 .. Count : Left[s].op \notin {"reset", "detach"}
           \/ \E s \in 2 .. Count :
                /\ Left[s].op = "out" /\ Left[s].pin = Left[1].pin
                /\ \A k \in 2 .. s - 1 : Left[k].op \notin {"reset", "detach"}

\* A pin that is reset leaves the table afterwards, or has left it by then.
Resetting ==
    \A s \in 1 .. Count : Left[s].op = "reset" =>
        \/ \E r \in 1 .. s - 1 : Left[r].op = "unlist" /\ Left[r].pin = Left[s].pin
        \/ /\ LastIs("list") /\ Left[1].pin = Left[s].pin
           /\ \A c \in Channel : gpio[c] = Left[s].pin =>
                \E k \in s + 1 .. Count : Left[k].op \in {"detach", "unlist"} /\ Left[k].ch = c

\* A pin is driven that is about to enter the table, and shadows a signal that is in it.
Driving ==
    \A s \in 1 .. Count :
        /\ Left[s].op = "out" => LastIs("list") /\ Left[1].pin = Left[s].pin
        /\ Left[s].op = "link" => Count = 1 /\ Listed(Left[s].pin)

Released ==
    \A p \in Pin :
        Listed(p) \/ (dir[p] = "off" /\ route[p] = "gpio") \/ (LastIs("list") /\ Left[1].pin = p)

Driven ==
    \A c \in Channel :
        gpio[c] # NoPin /\ dir[gpio[c]] = "off" =>
            \E r \in 1 .. Count : Left[r].op = "unlist" /\ Left[r].pin = gpio[c]

\* Between calls the timer runs or not; in one it is enabled where the next write
\* starts or disables it.
Timing ==
    /\ LastIs("start") => (Count = 1 /\ timer = "enabled") \/ (Count = 2 /\ Left[2].op = "enable")
    /\ \A r \in 1 .. Count :
         /\ Left[r].op = "enable" => r = 2 /\ Count = 2 /\ LastIs("start")
         /\ Left[r].op = "stop" => r > 1 /\ Left[r - 1].op = "disable"
         /\ Left[r].op = "disable" => (r = Count /\ timer # "run") \/ (r < Count /\ Left[r + 1].op = "stop")
         /\ Left[r].op \in {"stop", "disable"} => timer \in {"init", "enabled", "run"}
    /\ timer = "enabled" => Count > 0 /\ (Left[Count].op = "disable" \/ (Count = 1 /\ LastIs("start")))

Deleting ==
    /\ LastIs("delete") =>
         /\ timer \in {"null", "init"} \/ \E s \in 2 .. Count : Left[s].op = "disable"
         /\ \A c \in Channel : Leaving(c)
    /\ timer = "deleted" => Count = 0 /\ \A c \in Channel : gpio[c] = NoPin

LedInv ==
    /\ LedTypes /\ OneEach /\ LastOnes /\ Unlisting /\ Listing /\ Resetting
    /\ Driving /\ Released /\ Driven /\ Timing /\ Deleting

\* The next write is made; a test that finds no pin changes nothing.
Taken ==
    LET w == Left[Count] IN
    /\ Count > 0 /\ Count' = Count - 1
    /\ Left' \in [1 .. Count - 1 -> Writes] /\ \A r \in 1 .. Count - 1 : Left'[r] = Left[r]
    /\ w.op = "detach" => gpio[w.ch] = NoPin
    /\ w.op = "enable" => timer = "init"
    /\ gpio' = IF w.op = "list" THEN [gpio EXCEPT ![w.ch] = w.pin]
               ELSE IF w.op = "unlist" THEN [gpio EXCEPT ![w.ch] = NoPin] ELSE gpio
    /\ link' = IF w.op \in {"list", "unlist"} THEN [link EXCEPT ![w.ch] = w.link] ELSE link
    /\ dir' = IF w.op = "reset" THEN [dir EXCEPT ![w.pin] = "off"]
              ELSE IF w.op = "out" THEN [dir EXCEPT ![w.pin] = "out"] ELSE dir
    /\ route' = IF w.op \in {"gpio", "link"} THEN [route EXCEPT ![w.pin] = w.op] ELSE route
    /\ timer' = TimerStep(w.op)

LEMMA TakenTypes == ASSUME LedInv, Taken PROVE LedTypes' 
<1> DEFINE w == Left[Count]
<1>1. w \in Writes /\ Count \in Nat \ {0}
  BY DEF LedInv, LedTypes, Taken
<1>2. /\ w.op \in {"list", "unlist"} => w.ch \in Channel
      /\ w.op \in OnPins \cup {"list", "unlist"} => w.pin \in Pin
  BY <1>1 DEF LedInv, LedTypes
<1>3. gpio' \in [Channel -> Pin \cup {NoPin}] /\ link' \in [Channel -> BOOLEAN]
  BY <1>1, <1>2 DEF LedInv, LedTypes, Taken, Writes
<1>4. dir' \in [Pin -> {"off", "out"}] /\ route' \in [Pin -> {"gpio", "link"}]
  BY <1>1, <1>2 DEF LedInv, LedTypes, Taken, OnPins
<1>5. timer' \in {"null", "init", "enabled", "run", "deleted"}
  <2>1. w.op = "delete" => timer \in {"null", "init"}
    BY <1>1 DEF LedInv, LastOnes, Deleting, LastIs
  <2> QED
    BY <2>1 DEF LedInv, LedTypes, Taken, TimerStep
<1>6. Count' \in Nat /\ Left' \in [1 .. Count' -> Writes]
  BY <1>1 DEF Taken
<1>7. ASSUME NEW r \in 1 .. Count'
      PROVE  /\ Left'[r].op \in {"detach", "list", "unlist"} => Left'[r].ch \in Channel
             /\ Left'[r].op \in OnPins \cup {"list", "unlist"} => Left'[r].pin \in Pin
  <2>1. Left'[r] = Left[r] /\ r \in 1 .. Count
    BY <1>1, <1>7 DEF Taken
  <2> QED
    BY <2>1 DEF LedInv, LedTypes
<1> QED
  BY <1>3, <1>4, <1>5, <1>6, <1>7 DEF LedTypes

LEMMA TakenOnes == ASSUME LedInv, Taken PROVE OneEach' /\ LastOnes'
<1> DEFINE w == Left[Count]
<1>1. w \in Writes /\ Count \in Nat \ {0}
  BY DEF LedInv, LedTypes, Taken
<1>2. LastOnes'
  BY <1>1 DEF LedInv, LastOnes, Taken
<1>3. CASE w.op = "list"
  <2>1. Count = 1 /\ w.ch \in Channel /\ w.pin \in Pin
    BY <1>1, <1>3 DEF LedInv, LastOnes, LedTypes
  <2>2. /\ \A c \in Channel : gpio[c] = w.pin => c = w.ch
    BY <1>3, <2>1 DEF LedInv, Listing, LastIs
  <2>3. gpio' = [gpio EXCEPT ![w.ch] = w.pin] /\ link' = [link EXCEPT ![w.ch] = w.link]
    BY <1>3 DEF Taken
  <2>4. OneEach'
    BY <2>1, <2>2, <2>3, LedAssumption DEF LedInv, LedTypes, OneEach
  <2> QED
    BY <1>2, <2>4
<1>4. CASE w.op = "unlist"
  <2>1. w.ch \in Channel /\ w.link = FALSE
    BY <1>1, <1>4 DEF LedInv, LedTypes, Unlisting, Writes
  <2>2. gpio' = [gpio EXCEPT ![w.ch] = NoPin] /\ link' = [link EXCEPT ![w.ch] = FALSE]
    BY <1>4, <2>1 DEF Taken
  <2>3. OneEach'
    BY <2>1, <2>2 DEF LedInv, LedTypes, OneEach
  <2> QED
    BY <1>2, <2>3
<1>5. CASE w.op \notin {"list", "unlist"}
  BY <1>2, <1>5 DEF LedInv, OneEach, Taken
<1> QED
  BY <1>3, <1>4, <1>5

\* What is left behind the write that is made, and what it is.
LEMMA TakenPop ==
    ASSUME LedInv, Taken
    PROVE  /\ Count \in Nat \ {0} /\ Count' = Count - 1 /\ Left[Count] \in Writes
           /\ \A r \in 1 .. Count' : r \in 1 .. Count /\ r # Count /\ Left'[r] = Left[r] /\ Left[r] \in Writes
           /\ \A op : LastIs(op)' => LastIs(op) /\ Left'[1] = Left[1]
           /\ Left[Count].op \in {"list", "unlist", "detach"} => Left[Count].ch \in Channel
           /\ Left[Count].op \in OnPins \cup {"list", "unlist"} => Left[Count].pin \in Pin
BY DEF LedInv, LedTypes, Taken, LastIs

LEMMA TakenUnlisting == ASSUME LedInv, Taken PROVE Unlisting'
<1> DEFINE w == Left[Count]
<1> SUFFICES ASSUME NEW r \in 1 .. Count', Left'[r].op = "unlist"
             PROVE  /\ gpio'[Left'[r].ch] = Left'[r].pin /\ ~Left'[r].link
                    /\ \A s \in r + 1 .. Count' : Left'[s].op \in {"reset", "gpio"} /\ Left'[s].pin = Left'[r].pin
                    /\ dir'[Left'[r].pin] = "off" \/ \E s \in r + 1 .. Count' : Left'[s].op = "reset"
                    /\ route'[Left'[r].pin] = "gpio" \/ \E s \in r + 1 .. Count' : Left'[s].op = "gpio"
  BY DEF Unlisting
<1>1. r \in 1 .. Count /\ r # Count /\ Left'[r] = Left[r] /\ Count \in Nat \ {0} /\ Count' = Count - 1
  BY TakenPop
<1>2. /\ gpio[Left[r].ch] = Left[r].pin /\ ~Left[r].link
      /\ \A s \in r + 1 .. Count : Left[s].op \in {"reset", "gpio"} /\ Left[s].pin = Left[r].pin
      /\ dir[Left[r].pin] = "off" \/ \E s \in r + 1 .. Count : Left[s].op = "reset"
      /\ route[Left[r].pin] = "gpio" \/ \E s \in r + 1 .. Count : Left[s].op = "gpio"
  BY <1>1 DEF LedInv, Unlisting
<1>3. w.op \in {"reset", "gpio"} /\ w.pin = Left[r].pin /\ w.pin \in Pin /\ w.op \in OnPins
  BY <1>1, <1>2, TakenPop DEF OnPins
<1>4. \A s \in r + 1 .. Count' : s \in r + 1 .. Count /\ Left'[s] = Left[s]
  BY <1>1, TakenPop
<1>5. gpio' = gpio
  BY <1>3 DEF Taken
<1>6. dir'[Left[r].pin] = "off" \/ \E s \in r + 1 .. Count' : Left'[s].op = "reset"
  <2>1. CASE w.op = "reset"
    BY <1>3, <2>1 DEF Taken, LedInv, LedTypes
  <2>2. CASE w.op # "reset"
    <3>1. dir' = dir
      BY <1>3, <2>2 DEF Taken
    <3>2. CASE \E s \in r + 1 .. Count : Left[s].op = "reset"
      <4>1. PICK s \in r + 1 .. Count : Left[s].op = "reset"
        BY <3>2
      <4>2. s \in r + 1 .. Count' /\ Left'[s] = Left[s]
        BY <1>1, <1>4, <2>2, <4>1
      <4> QED
        BY <4>1, <4>2
    <3> QED
      BY <1>2, <3>1, <3>2
  <2> QED
    BY <2>1, <2>2
<1>7. route'[Left[r].pin] = "gpio" \/ \E s \in r + 1 .. Count' : Left'[s].op = "gpio"
  <2>1. CASE w.op = "gpio"
    BY <1>3, <2>1 DEF Taken, LedInv, LedTypes
  <2>2. CASE w.op # "gpio"
    <3>1. route' = route
      BY <1>3, <2>2 DEF Taken
    <3>2. CASE \E s \in r + 1 .. Count : Left[s].op = "gpio"
      <4>1. PICK s \in r + 1 .. Count : Left[s].op = "gpio"
        BY <3>2
      <4>2. s \in r + 1 .. Count' /\ Left'[s] = Left[s]
        BY <1>1, <1>4, <2>2, <4>1
      <4> QED
        BY <4>1, <4>2
    <3> QED
      BY <1>2, <3>1, <3>2
  <2> QED
    BY <2>1, <2>2
<1> QED
  BY <1>1, <1>2, <1>4, <1>5, <1>6, <1>7

\* A channel that is about to lose its pin does, or has lost it.
LEMMA TakenLeaving ==
    ASSUME LedInv, Taken, Count' > 0, Left[1].op # "list" \/ Count # 1, NEW c \in Channel, Leaving(c)
    PROVE  Leaving(c)'
<1> DEFINE w == Left[Count]
<1>1. Count \in Nat \ {0} /\ Count' = Count - 1 /\ w.op # "list"
  BY TakenPop DEF LedInv, LastOnes, Taken
<1>2. gpio[c] = NoPin => gpio'[c] = NoPin
  BY <1>1, TakenPop DEF Taken, LedInv, LedTypes
<1>3. CASE \E s \in 2 .. Count : Left[s].op \in {"detach", "unlist"} /\ Left[s].ch = c
  <2>1. PICK s \in 2 .. Count : Left[s].op \in {"detach", "unlist"} /\ Left[s].ch = c
    BY <1>3
  <2>2. CASE s = Count
    <3>1. w.op = "detach" => gpio'[c] = NoPin
      BY <1>2, <2>1, <2>2 DEF Taken
    <3>2. w.op = "unlist" => gpio'[c] = NoPin
      BY <2>1, <2>2 DEF Taken, LedInv, LedTypes
    <3> QED
      BY <2>1, <2>2, <3>1, <3>2 DEF Leaving
  <2>3. CASE s # Count
    <3>1. s \in 2 .. Count' /\ Left'[s] = Left[s]
      BY <1>1, <2>3, TakenPop
    <3> QED
      BY <2>1, <3>1 DEF Leaving
  <2> QED
    BY <2>2, <2>3
<1> QED
  BY <1>2, <1>3 DEF Leaving

LEMMA TakenListing == ASSUME LedInv, Taken PROVE Listing'
<1> DEFINE w == Left[Count]
<1> SUFFICES ASSUME LastIs("list")' PROVE Listing'
  BY DEF Listing
<1>1. /\ Count \in Nat \ {0} /\ Count' = Count - 1 /\ Count' > 0 /\ LastIs("list") /\ Left'[1] = Left[1]
      /\ 1 \in 1 .. Count /\ Left[1].op = "list"
  BY TakenPop DEF LastIs
<1>2. Left[1].ch \in Channel /\ Left[1].pin \in Pin /\ w.op # "list"
  BY <1>1 DEF LedInv, LedTypes, LastOnes
<1>3. ASSUME NEW c \in Channel, gpio'[c] = Left[1].pin PROVE c = Left[1].ch
  <2>1. gpio[c] = Left[1].pin
    BY <1>2, <1>3, TakenPop, LedAssumption DEF Taken, LedInv, LedTypes
  <2> QED
    BY <1>1, <2>1 DEF LedInv, Listing
<1>4. Leaving(Left[1].ch)
  BY <1>1 DEF LedInv, Listing
<1>5. \/ gpio'[Left'[1].ch] = NoPin
      \/ \E s \in 2 .. Count' : Left'[s].op \in {"detach", "unlist"} /\ Left'[s].ch = Left'[1].ch
  <2> DEFINE c == Left[1].ch
  <2>1. c \in Channel /\ Leaving(c) /\ c = Left'[1].ch
    BY <1>1, <1>2, <1>4
  <2>2. Leaving(c)'
    BY <1>1, <1>4, <2>1, TakenLeaving
  <2> QED
    BY <2>1, <2>2 DEF Leaving
<1>6. \/ dir'[Left[1].pin] = "out" /\ \A s \in 2 .. Count' : Left'[s].op \notin {"reset", "detach"}
      \/ \E s \in 2 .. Count' :
           /\ Left'[s].op = "out" /\ Left'[s].pin = Left[1].pin
           /\ \A k \in 2 .. s - 1 : Left'[k].op \notin {"reset", "detach"}
  <2>1. CASE dir[Left[1].pin] = "out" /\ \A s \in 2 .. Count : Left[s].op \notin {"reset", "detach"}
    <3>1. dir'[Left[1].pin] = "out"
      BY <1>1, <1>2, <2>1, TakenPop DEF Taken, LedInv, LedTypes
    <3> QED
      BY <1>1, <2>1, <3>1, TakenPop
  <2>2. ASSUME NEW s \in 2 .. Count,
               Left[s].op = "out" /\ Left[s].pin = Left[1].pin
                 /\ \A k \in 2 .. s - 1 : Left[k].op \notin {"reset", "detach"}
        PROVE  <1>6!1 \/ <1>6!2
    <3>1. CASE s = Count
      <4>1. dir'[Left[1].pin] = "out"
        BY <1>2, <2>2, <3>1 DEF Taken, LedInv, LedTypes
      <4>2. ASSUME NEW k \in 2 .. Count' PROVE Left'[k].op \notin {"reset", "detach"}
        BY <1>1, <2>2, <3>1, TakenPop
      <4> QED
        BY <4>1, <4>2
    <3>2. CASE s # Count
      <4>1. s \in 2 .. Count' /\ Left'[s] = Left[s]
        BY <1>1, <3>2, TakenPop
      <4>2. ASSUME NEW k \in 2 .. s - 1 PROVE Left'[k].op \notin {"reset", "detach"}
        <5>1. k \in 1 .. Count' /\ Left'[k] = Left[k]
          BY <1>1, <4>1, TakenPop
        <5> QED
          BY <2>2, <5>1
      <4> QED
        BY <2>2, <4>1, <4>2
    <3> QED
      BY <3>1, <3>2
  <2> QED
    BY <1>1, <2>1, <2>2 DEF LedInv, Listing
<1> QED
  BY <1>1, <1>3, <1>5, <1>6 DEF Listing, Leaving

LEMMA TakenResetting == ASSUME LedInv, Taken PROVE Resetting'
<1> DEFINE w == Left[Count]
<1> SUFFICES ASSUME NEW s \in 1 .. Count', Left'[s].op = "reset"
             PROVE  \/ \E r \in 1 .. s - 1 : Left'[r].op = "unlist" /\ Left'[r].pin = Left'[s].pin
                    \/ /\ LastIs("list")' /\ Left'[1].pin = Left'[s].pin
                       /\ \A c \in Channel : gpio'[c] = Left'[s].pin =>
                            \E k \in s + 1 .. Count' : Left'[k].op \in {"detach", "unlist"} /\ Left'[k].ch = c
  BY DEF Resetting
<1>1. /\ s \in 1 .. Count /\ s # Count /\ Left'[s] = Left[s] /\ Count \in Nat \ {0} /\ Count' = Count - 1
      /\ 1 \in 1 .. Count' /\ Left'[1] = Left[1]
  BY TakenPop
<1>2. CASE \E r \in 1 .. s - 1 : Left[r].op = "unlist" /\ Left[r].pin = Left[s].pin
  <2>1. PICK r \in 1 .. s - 1 : Left[r].op = "unlist" /\ Left[r].pin = Left[s].pin
    BY <1>2
  <2>2. r \in 1 .. Count' /\ Left'[r] = Left[r]
    BY <1>1, TakenPop
  <2> QED
    BY <1>1, <2>1, <2>2
<1>3. CASE /\ LastIs("list") /\ Left[1].pin = Left[s].pin
           /\ \A c \in Channel : gpio[c] = Left[s].pin =>
                \E k \in s + 1 .. Count : Left[k].op \in {"detach", "unlist"} /\ Left[k].ch = c
  <2>1. LastIs("list")' /\ w.op # "list" /\ Left[s].pin \in Pin
    BY <1>1, <1>3 DEF LastIs, LedInv, LastOnes, LedTypes, OnPins
  <2>2. ASSUME NEW c \in Channel, gpio'[c] = Left[s].pin
        PROVE  \E k \in s + 1 .. Count' : Left'[k].op \in {"detach", "unlist"} /\ Left'[k].ch = c
    <3>1. gpio[c] = Left[s].pin /\ ~(w.op = "unlist" /\ w.ch = c) /\ gpio[c] # NoPin
      BY <2>1, <2>2, TakenPop, LedAssumption DEF Taken, LedInv, LedTypes
    <3>2. PICK k \in s + 1 .. Count : Left[k].op \in {"detach", "unlist"} /\ Left[k].ch = c
      BY <1>3, <3>1
    <3>3. k # Count
      BY <3>1, <3>2 DEF Taken
    <3>4. k \in s + 1 .. Count' /\ Left'[k] = Left[k]
      BY <1>1, <3>3, TakenPop
    <3> QED
      BY <3>2, <3>4
  <2> QED
    BY <1>1, <1>3, <2>1, <2>2
<1> QED
  BY <1>1, <1>2, <1>3 DEF LedInv, Resetting

LEMMA TakenDriving == ASSUME LedInv, Taken PROVE Driving'
<1> SUFFICES ASSUME NEW s \in 1 .. Count'
             PROVE  /\ Left'[s].op = "out" => LastIs("list")' /\ Left'[1].pin = Left'[s].pin
                    /\ Left'[s].op = "link" => Count' = 1 /\ \E c \in Channel : gpio'[c] = Left'[s].pin
  BY DEF Driving, Listed
<1>1. /\ s \in 1 .. Count /\ s # Count /\ Left'[s] = Left[s] /\ Count \in Nat \ {0} /\ Count' = Count - 1
      /\ Left'[1] = Left[1]
  BY TakenPop
<1> QED
  BY <1>1 DEF LedInv, Driving, LastIs

\* A pin stays in the table until it is taken out.
LEMMA TakenListed ==
    ASSUME LedInv, Taken, NEW p \in Pin, Listed(p)
    PROVE  (\E c \in Channel : gpio'[c] = p) \/ (Left[Count].op = "unlist" /\ Left[Count].pin = p)
<1> DEFINE w == Left[Count]
<1>1. PICK c \in Channel : gpio[c] = p /\ p # NoPin
  BY LedAssumption DEF Listed
<1>2. Count \in Nat \ {0} /\ Count \in 1 .. Count
  BY TakenPop
<1>3. CASE w.op = "list"
  <2>1. w.ch \in Channel /\ Leaving(w.ch) /\ Count = 1
    BY <1>2, <1>3 DEF LedInv, LedTypes, Listing, LastIs, LastOnes
  <2>2. gpio[w.ch] = NoPin
    BY <2>1 DEF Leaving
  <2>3. c # w.ch /\ gpio' = [gpio EXCEPT ![w.ch] = w.pin]
    BY <1>1, <1>3, <2>2 DEF Taken
  <2>4. gpio'[c] = p
    BY <1>1, <2>1, <2>3 DEF LedInv, LedTypes
  <2> QED
    BY <2>4
<1>4. CASE w.op = "unlist"
  <2>1. w.ch \in Channel /\ gpio[w.ch] = w.pin /\ gpio' = [gpio EXCEPT ![w.ch] = NoPin]
    BY <1>2, <1>4 DEF LedInv, LedTypes, Unlisting, Taken
  <2>2. c = w.ch => w.pin = p
    BY <1>1, <2>1
  <2>3. c # w.ch => gpio'[c] = p
    BY <1>1, <2>1 DEF LedInv, LedTypes
  <2> QED
    BY <1>4, <2>2, <2>3
<1>5. CASE w.op \notin {"list", "unlist"}
  BY <1>1, <1>5 DEF Taken
<1> QED
  BY <1>3, <1>4, <1>5

LEMMA TakenReleased == ASSUME LedInv, Taken PROVE Released'
<1> DEFINE w == Left[Count]
<1> SUFFICES ASSUME NEW p \in Pin
             PROVE  \/ \E c \in Channel : gpio'[c] = p
                    \/ dir'[p] = "off" /\ route'[p] = "gpio"
                    \/ LastIs("list")' /\ Left'[1].pin = p
  BY DEF Released, Listed
<1>1. Count \in Nat \ {0} /\ Count' = Count - 1 /\ Count \in 1 .. Count
  BY TakenPop
<1>2. CASE Listed(p)
  <2>1. CASE w.op = "unlist" /\ w.pin = p
    <3>1. dir[p] = "off" /\ route[p] = "gpio"
      BY <1>1, <2>1 DEF LedInv, Unlisting
    <3>2. dir' = dir /\ route' = route
      BY <2>1 DEF Taken
    <3> QED
      BY <3>1, <3>2
  <2> QED
    BY <1>2, <2>1, TakenListed
<1>3. CASE LastIs("list") /\ Left[1].pin = p
  <2>1. CASE Count = 1
    <3>1. w.op = "list" /\ w.pin = p /\ w.ch \in Channel
      BY <1>1, <1>3, <2>1 DEF LastIs, LedInv, LedTypes
    <3>2. gpio'[w.ch] = p
      BY <3>1 DEF Taken, LedInv, LedTypes
    <3> QED
      BY <3>1, <3>2
  <2>2. CASE Count # 1
    <3>1. 1 \in 1 .. Count' /\ Left'[1] = Left[1]
      BY <1>1, <2>2, TakenPop
    <3> QED
      BY <1>1, <1>3, <2>2, <3>1 DEF LastIs
  <2> QED
    BY <2>1, <2>2
<1>4. CASE ~Listed(p) /\ ~(LastIs("list") /\ Left[1].pin = p)
  <2>1. dir[p] = "off" /\ route[p] = "gpio"
    BY <1>4 DEF LedInv, Released
  <2>2. ~(w.op = "out" /\ w.pin = p) /\ ~(w.op = "link" /\ w.pin = p)
    BY <1>1, <1>4 DEF LedInv, Driving
  <2>3. w.op \in OnPins => w.pin \in Pin
    BY TakenPop
  <2>4. dir'[p] = "off"
    BY <2>1, <2>2, <2>3 DEF Taken, LedInv, LedTypes, OnPins
  <2>5. route'[p] = "gpio"
    BY <2>1, <2>2, <2>3 DEF Taken, LedInv, LedTypes, OnPins
  <2> QED
    BY <2>4, <2>5
<1> QED
  BY <1>2, <1>3, <1>4

LEMMA TakenDriven == ASSUME LedInv, Taken PROVE Driven'
<1> DEFINE w == Left[Count]
<1> SUFFICES ASSUME NEW c \in Channel, gpio'[c] # NoPin, dir'[gpio'[c]] = "off"
             PROVE  \E r \in 1 .. Count' : Left'[r].op = "unlist" /\ Left'[r].pin = gpio'[c]
  BY DEF Driven
<1>1. Count \in Nat \ {0} /\ Count' = Count - 1 /\ Count \in 1 .. Count
  BY TakenPop
<1>2. CASE w.op = "list" /\ w.ch = c
  <2>1. Count = 1 /\ LastIs("list") /\ w.pin \in Pin
    BY <1>1, <1>2 DEF LedInv, LastOnes, LastIs, LedTypes
  <2>2. dir[w.pin] = "out"
    BY <1>2, <2>1 DEF LedInv, Listing
  <2>3. gpio'[c] = w.pin /\ dir' = dir
    BY <1>2 DEF Taken, LedInv, LedTypes
  <2> QED
    BY <2>2, <2>3
<1>3. CASE ~(w.op = "list" /\ w.ch = c)
  <2>1. gpio'[c] = gpio[c] /\ gpio[c] \in Pin
    BY <1>3, TakenPop DEF Taken, LedInv, LedTypes
  <2>2. CASE w.op = "reset" /\ w.pin = gpio[c]
    <3>1. CASE \E r \in 1 .. Count - 1 : Left[r].op = "unlist" /\ Left[r].pin = gpio[c]
      BY <1>1, <2>1, <3>1, TakenPop
    <3>2. CASE \E k \in Count + 1 .. Count : TRUE
      BY <1>1, <3>2
    <3> QED
      BY <1>1, <2>2, <3>1, <3>2 DEF LedInv, Resetting
  <2>3. CASE ~(w.op = "reset" /\ w.pin = gpio[c])
    <3>1. dir[gpio[c]] = "off"
      BY <2>1, <2>3, TakenPop DEF Taken, LedInv, LedTypes
    <3>2. PICK r \in 1 .. Count : Left[r].op = "unlist" /\ Left[r].pin = gpio[c]
      BY <2>1, <3>1, LedAssumption DEF LedInv, Driven
    <3>3. r # Count
      <4>1. SUFFICES ASSUME r = Count PROVE FALSE
        OBVIOUS
      <4>2. w.op = "unlist" /\ w.ch \in Channel /\ gpio[w.ch] = gpio[c] /\ gpio[c] # NoPin
        BY <1>1, <2>1, <3>2, <4>1, LedAssumption DEF LedInv, LedTypes, Unlisting
      <4>3. w.ch = c
        BY <4>2 DEF LedInv, OneEach
      <4>4. gpio'[c] = NoPin
        BY <4>2, <4>3 DEF Taken, LedInv, LedTypes
      <4> QED
        BY <4>4
    <3> QED
      BY <1>1, <2>1, <3>2, <3>3, TakenPop
  <2> QED
    BY <2>2, <2>3
<1> QED
  BY <1>2, <1>3

LEMMA TakenTiming == ASSUME LedInv, Taken PROVE Timing' /\ Deleting'
<1> DEFINE w == Left[Count]
<1>1. /\ Count \in Nat \ {0} /\ Count' = Count - 1 /\ Count \in 1 .. Count /\ w.op \in OnPins \cup OnTimers \cup {"detach", "unlist", "list"}
      /\ \A r \in 1 .. Count' : r \in 1 .. Count /\ r # Count /\ Left'[r] = Left[r]
      /\ \A op : LastIs(op)' => LastIs(op) /\ Left'[1] = Left[1] /\ Count # 1
  BY TakenPop DEF Writes, LastIs
<1>2. timer' = TimerStep(w.op) /\ timer \in {"null", "init", "enabled", "run"}
  BY <1>1 DEF Taken, LedInv, LedTypes, Deleting
<1>3. /\ LastIs("start") => (Count = 1 /\ timer = "enabled") \/ (Count = 2 /\ Left[2].op = "enable")
      /\ \A r \in 1 .. Count :
           /\ Left[r].op = "enable" => r = 2 /\ Count = 2 /\ LastIs("start")
           /\ Left[r].op = "stop" => r > 1 /\ Left[r - 1].op = "disable"
           /\ Left[r].op = "disable" => (r = Count /\ timer # "run") \/ (r < Count /\ Left[r + 1].op = "stop")
           /\ Left[r].op \in {"stop", "disable"} => timer \in {"init", "enabled", "run"}
      /\ timer = "enabled" => w.op = "disable" \/ (Count = 1 /\ LastIs("start"))
  BY DEF LedInv, Timing
<1>4. w.op \in {"start", "delete"} => Count = 1
  BY <1>1 DEF LedInv, LastOnes
<1>5. /\ w.op = "enable" => timer = "init" /\ timer' = "enabled" /\ Count = 2 /\ LastIs("start")
      /\ w.op = "start" => timer = "enabled" /\ timer' = "run" /\ Count = 1
      /\ w.op = "stop" => timer' \in {"init", "enabled"} /\ Count > 1 /\ Left[Count - 1].op = "disable"
      /\ w.op = "disable" => timer' = "init"
      /\ w.op = "delete" => timer' = "deleted" /\ Count = 1
      /\ w.op \notin OnTimers => timer' = timer /\ timer # "enabled"
  <2>1. w.op = "enable" => timer = "init" /\ timer' = "enabled" /\ Count = 2 /\ LastIs("start")
    BY <1>1, <1>2, <1>3 DEF Taken, TimerStep
  <2>2. w.op = "start" => timer = "enabled" /\ timer' = "run" /\ Count = 1
    BY <1>1, <1>2, <1>3, <1>4 DEF LastIs, TimerStep
  <2>3. w.op = "stop" => timer' \in {"init", "enabled"} /\ Count > 1 /\ Left[Count - 1].op = "disable"
    BY <1>1, <1>2, <1>3 DEF LastIs, TimerStep
  <2>4. w.op = "disable" => timer' = "init"
    BY <1>1, <1>2, <1>3 DEF TimerStep
  <2>5. w.op = "delete" => timer' = "deleted" /\ Count = 1
    <3>1. w.op = "delete" => timer \in {"null", "init"}
      BY <1>1, <1>4 DEF LedInv, Deleting, LastIs
    <3> QED
      BY <1>2, <1>4, <3>1 DEF TimerStep
  <2>6. w.op \notin OnTimers => timer' = timer /\ timer # "enabled"
    BY <1>1, <1>2, <1>3 DEF LastIs, TimerStep, OnTimers
  <2> QED
    BY <2>1, <2>2, <2>3, <2>4, <2>5, <2>6
<1>6. LastIs("start")' => (Count' = 1 /\ timer' = "enabled") \/ (Count' = 2 /\ Left'[2].op = "enable")
  <2>1. SUFFICES ASSUME LastIs("start")' PROVE Count' = 1 /\ timer' = "enabled"
    OBVIOUS
  <2>2. Count = 2 /\ w.op = "enable"
    BY <1>1, <1>3, <2>1
  <2> QED
    BY <1>1, <1>5, <2>2
<1>7. ASSUME NEW r \in 1 .. Count'
      PROVE  /\ Left'[r].op = "enable" => r = 2 /\ Count' = 2 /\ LastIs("start")'
             /\ Left'[r].op = "stop" => r > 1 /\ Left'[r - 1].op = "disable"
             /\ Left'[r].op = "disable" => (r = Count' /\ timer' # "run") \/ (r < Count' /\ Left'[r + 1].op = "stop")
             /\ Left'[r].op \in {"stop", "disable"} => timer' \in {"init", "enabled", "run"}
  <2>1. r \in 1 .. Count /\ r # Count /\ Left'[r] = Left[r]
    BY <1>1
  <2>2. Left[r].op # "enable"
    BY <1>1, <1>3, <2>1
  <2>3. Left[r].op = "stop" => r > 1 /\ Left'[r - 1].op = "disable"
    BY <1>1, <1>3, <2>1
  <2>4. Left[r].op = "disable" => (r = Count' /\ timer' # "run") \/ (r < Count' /\ Left'[r + 1].op = "stop")
    <3>1. SUFFICES ASSUME Left[r].op = "disable", r + 1 = Count PROVE timer' # "run"
      BY <1>1, <1>3, <2>1
    <3>2. w.op = "stop"
      BY <1>3, <2>1, <3>1
    <3> QED
      BY <1>5, <3>2
  <2>5. Left[r].op \in {"stop", "disable"} => timer' \in {"init", "enabled", "run"}
    <3>1. SUFFICES ASSUME Left[r].op \in {"stop", "disable"} PROVE timer' \in {"init", "enabled", "run"}
      OBVIOUS
    <3>2. timer \in {"init", "enabled", "run"} /\ Count # 1
      BY <1>1, <1>3, <2>1, <3>1
    <3> QED
      BY <1>1, <1>2, <1>5, <3>2 DEF OnTimers
  <2> QED
    BY <2>1, <2>2, <2>3, <2>4, <2>5
<1>8. timer' = "enabled" => Count' > 0 /\ (Left'[Count'].op = "disable" \/ (Count' = 1 /\ LastIs("start")'))
  <2>1. SUFFICES ASSUME timer' = "enabled" PROVE Count' > 0 /\ (Left'[Count'].op = "disable" \/ (Count' = 1 /\ LastIs("start")'))
    OBVIOUS
  <2>2. w.op \in {"enable", "stop"}
    BY <1>1, <1>5, <2>1 DEF OnTimers
  <2>3. CASE w.op = "enable"
    BY <1>1, <1>5, <2>3 DEF LastIs
  <2>4. CASE w.op = "stop"
    BY <1>1, <1>5, <2>4
  <2> QED
    BY <2>2, <2>3, <2>4
<1>9. Timing'
  BY <1>6, <1>7, <1>8 DEF Timing
<1>10. LastIs("delete")' => /\ timer' \in {"null", "init"} \/ \E s \in 2 .. Count' : Left'[s].op = "disable"
                            /\ \A c \in Channel : Leaving(c)'
  <2>1. SUFFICES ASSUME LastIs("delete")'
                 PROVE  /\ timer' \in {"null", "init"} \/ \E s \in 2 .. Count' : Left'[s].op = "disable"
                        /\ \A c \in Channel : Leaving(c)'
    OBVIOUS
  <2>2. LastIs("delete") /\ Count # 1 /\ Left[1].op = "delete" /\ Count' > 0
    BY <1>1, <2>1 DEF LastIs
  <2>3. \A c \in Channel : Leaving(c)'
    BY <2>2, TakenLeaving DEF LedInv, Deleting
  <2>4. w.op \notin {"enable", "start", "delete"}
    BY <1>1, <1>4, <1>5, <2>2 DEF LastIs
  <2>5. timer' \in {"null", "init"} \/ \E s \in 2 .. Count' : Left'[s].op = "disable"
    <3>1. CASE w.op = "disable"
      BY <1>5, <3>1
    <3>2. CASE \E s \in 2 .. Count : Left[s].op = "disable" /\ s # Count
      <4>1. PICK s \in 2 .. Count : Left[s].op = "disable" /\ s # Count
        BY <3>2
      <4>2. s \in 2 .. Count' /\ Left'[s] = Left[s]
        BY <1>1, <4>1
      <4> QED
        BY <4>1, <4>2
    <3>3. CASE timer \in {"null", "init"} /\ w.op # "disable"
      <4>1. timer' = timer
        BY <1>2, <2>4, <3>3 DEF TimerStep
      <4> QED
        BY <3>3, <4>1
    <3> QED
      BY <1>1, <2>2, <3>1, <3>2, <3>3 DEF LedInv, Deleting
  <2> QED
    BY <2>3, <2>5
<1>11. timer' = "deleted" => Count' = 0 /\ \A c \in Channel : gpio'[c] = NoPin
  <2>1. SUFFICES ASSUME timer' = "deleted" PROVE Count' = 0 /\ \A c \in Channel : gpio'[c] = NoPin
    OBVIOUS
  <2>2. w.op = "delete" /\ Count = 1
    BY <1>1, <1>2, <1>5, <2>1 DEF OnTimers
  <2>3. \A c \in Channel : gpio[c] = NoPin
    BY <1>1, <2>2 DEF LedInv, Deleting, LastIs, Leaving
  <2>4. gpio' = gpio
    BY <2>2 DEF Taken
  <2> QED
    BY <1>1, <2>2, <2>3, <2>4
<1> QED
  BY <1>9, <1>10, <1>11 DEF Deleting

LEMMA TakenKeeps == ASSUME LedInv, Taken PROVE LedInv'
BY TakenTypes, TakenOnes, TakenUnlisting, TakenListing, TakenResetting, TakenDriving,
   TakenReleased, TakenDriven, TakenTiming DEF LedInv

\* ledcontrol_detach finds a pin: the writes it makes come first.
Expanded ==
    LET w == Left[Count] IN
    /\ Count > 0 /\ w.op = "detach" /\ gpio[w.ch] # NoPin
    /\ Count' = Count + 2 /\ Left' \in [1 .. Count + 2 -> Writes]
    /\ \A r \in 1 .. Count - 1 : Left'[r] = Left[r]
    /\ Left'[Count + 2] = Write("reset", w.ch, gpio[w.ch], FALSE)
    /\ Left'[Count + 1] = Write("gpio", w.ch, gpio[w.ch], FALSE)
    /\ Left'[Count] = Write("unlist", w.ch, gpio[w.ch], FALSE)
    /\ UNCHANGED <<gpio, link, dir, route, timer>>

LEMMA ExpandedKeeps == ASSUME LedInv, Expanded PROVE LedInv'
<1> DEFINE w == Left[Count]
           q == gpio[w.ch]
<1>1. /\ Count \in Nat \ {0} /\ Count' = Count + 2 /\ Count \in 1 .. Count
      /\ w.op = "detach" /\ w.ch \in Channel /\ w.ch \in Nat /\ q \in Pin /\ q # NoPin
  BY DEF Expanded, LedInv, LedTypes, Writes
<1>2. /\ UNCHANGED <<gpio, link, dir, route, timer>> /\ Left' \in [1 .. Count' -> Writes]
      /\ \A r \in 1 .. Count - 1 : Left'[r] = Left[r]
  BY <1>1 DEF Expanded
<1>3. /\ Left'[Count + 2].op = "reset" /\ Left'[Count + 2].pin = q
      /\ Left'[Count + 1].op = "gpio" /\ Left'[Count + 1].pin = q
      /\ Left'[Count].op = "unlist" /\ Left'[Count].pin = q /\ Left'[Count].ch = w.ch /\ Left'[Count].link = FALSE
  BY DEF Expanded, Write
<1>4. ASSUME NEW r \in 1 .. Count'
      PROVE  \/ r \in 1 .. Count - 1 /\ Left'[r] = Left[r]
             \/ r = Count \/ r = Count + 1 \/ r = Count + 2
  BY <1>1, <1>2
<1>5. ASSUME NEW op \in {"list", "delete", "start"}
      PROVE  /\ LastIs(op)' <=> Count # 1 /\ LastIs(op)
             /\ LastIs(op)' => Left'[1] = Left[1]
  <2>1. Count = 1 => Left'[1].op = "unlist" /\ w.op = Left[1].op
    BY <1>3
  <2>2. Count # 1 => Left'[1] = Left[1]
    BY <1>1, <1>2
  <2> QED
    BY <1>1, <2>1, <2>2 DEF LastIs
<1> HIDE DEF w, q
<1>6. LedTypes'
  <2>1. ASSUME NEW r \in 1 .. Count'
        PROVE  /\ Left'[r].op \in {"detach", "list", "unlist"} => Left'[r].ch \in Channel
               /\ Left'[r].op \in OnPins \cup {"list", "unlist"} => Left'[r].pin \in Pin
    <3>1. CASE r \in 1 .. Count - 1
      BY <1>1, <1>2, <3>1 DEF LedInv, LedTypes
    <3> QED
      BY <1>1, <1>3, <1>4, <3>1
  <2> QED
    BY <1>1, <1>2, <2>1 DEF LedInv, LedTypes
<1>7. OneEach' /\ LastOnes'
  <2>1. ASSUME NEW r \in 1 .. Count', Left'[r].op \in {"list", "delete", "start"} PROVE r = 1
    BY <1>1, <1>3, <1>4, <2>1 DEF LedInv, LastOnes
  <2> QED
    BY <1>2, <2>1 DEF LedInv, OneEach, LastOnes
<1>8. ASSUME NEW r \in 1 .. Count - 1 PROVE Left[r].op \notin {"unlist"}
  BY <1>1, <1>8 DEF LedInv, Unlisting, w
<1>9. Unlisting'
  <2> SUFFICES ASSUME NEW r \in 1 .. Count', Left'[r].op = "unlist"
               PROVE  /\ gpio'[Left'[r].ch] = Left'[r].pin /\ ~Left'[r].link
                      /\ \A s \in r + 1 .. Count' : Left'[s].op \in {"reset", "gpio"} /\ Left'[s].pin = Left'[r].pin
                      /\ dir'[Left'[r].pin] = "off" \/ \E s \in r + 1 .. Count' : Left'[s].op = "reset"
                      /\ route'[Left'[r].pin] = "gpio" \/ \E s \in r + 1 .. Count' : Left'[s].op = "gpio"
    BY DEF Unlisting
  <2>1. r = Count
    BY <1>3, <1>4, <1>8
  <2>2. Count + 1 \in r + 1 .. Count' /\ Count + 2 \in r + 1 .. Count'
    BY <1>1, <2>1
  <2>3. \A s \in r + 1 .. Count' : s = Count + 1 \/ s = Count + 2
    BY <1>1, <2>1
  <2> QED
    BY <1>2, <1>3, <2>1, <2>2, <2>3 DEF q
<1>10. ASSUME NEW c \in Channel, Leaving(c), Count # 1 PROVE Leaving(c)'
  <2>1. CASE gpio[c] = NoPin
    BY <1>2, <2>1 DEF Leaving
  <2>2. CASE \E s \in 2 .. Count : Left[s].op \in {"detach", "unlist"} /\ Left[s].ch = c
    <3>1. PICK s \in 2 .. Count : Left[s].op \in {"detach", "unlist"} /\ Left[s].ch = c
      BY <2>2
    <3>2. s \in 2 .. Count'
      BY <1>1
    <3>3. CASE s = Count
      BY <1>3, <3>1, <3>2, <3>3 DEF Leaving, w
    <3>4. CASE s # Count
      <4>1. Left'[s] = Left[s]
        BY <1>1, <1>2, <3>4
      <4> QED
        BY <3>1, <3>2, <4>1 DEF Leaving
    <3> QED
      BY <3>3, <3>4
  <2> QED
    BY <1>10, <2>1, <2>2 DEF Leaving
<1>11. Listing'
  <2> SUFFICES ASSUME LastIs("list")' PROVE Listing'
    BY DEF Listing
  <2>1. Count # 1 /\ LastIs("list") /\ Left'[1] = Left[1] /\ Left[1].ch \in Channel
    BY <1>1, <1>5 DEF LedInv, LedTypes, LastIs
  <2>2. /\ \A c \in Channel : gpio[c] = Left[1].pin => c = Left[1].ch
        /\ Leaving(Left[1].ch)
        /\ \E s \in 2 .. Count :
             /\ Left[s].op = "out" /\ Left[s].pin = Left[1].pin
             /\ \A k \in 2 .. s - 1 : Left[k].op \notin {"reset", "detach"}
    <3>1. Count \in 2 .. Count /\ Left[Count].op = "detach"
      BY <1>1, <2>1 DEF w
    <3> QED
      BY <2>1, <3>1 DEF LedInv, Listing
  <2>3. PICK s \in 2 .. Count :
             /\ Left[s].op = "out" /\ Left[s].pin = Left[1].pin
             /\ \A k \in 2 .. s - 1 : Left[k].op \notin {"reset", "detach"}
    BY <2>2
  <2>4. s # Count
    BY <1>1, <2>3 DEF w
  <2>5. s \in 2 .. Count' /\ Left'[s] = Left[s] /\ \A k \in 2 .. s - 1 : Left'[k] = Left[k]
    BY <1>1, <1>2, <2>4
  <2>6. ASSUME NEW c, c = Left[1].ch PROVE Leaving(c)'
    BY <1>10, <2>1, <2>2, <2>6
  <2>7. \/ gpio'[Left'[1].ch] = NoPin
        \/ \E k \in 2 .. Count' : Left'[k].op \in {"detach", "unlist"} /\ Left'[k].ch = Left'[1].ch
    BY <2>1, <2>6 DEF Leaving
  <2> QED
    BY <1>2, <2>1, <2>2, <2>3, <2>5, <2>7 DEF Listing, Leaving
<1>12. Resetting'
  <2> SUFFICES ASSUME NEW s \in 1 .. Count', Left'[s].op = "reset"
               PROVE  \/ \E r \in 1 .. s - 1 : Left'[r].op = "unlist" /\ Left'[r].pin = Left'[s].pin
                      \/ /\ LastIs("list")' /\ Left'[1].pin = Left'[s].pin
                         /\ \A c \in Channel : gpio'[c] = Left'[s].pin =>
                              \E k \in s + 1 .. Count' : Left'[k].op \in {"detach", "unlist"} /\ Left'[k].ch = c
    BY DEF Resetting
  <2>1. CASE s = Count + 2
    BY <1>1, <1>3, <2>1
  <2>2. CASE s \in 1 .. Count - 1
    <3>1. Left'[s] = Left[s] /\ \A r \in 1 .. s - 1 : r \in 1 .. Count - 1
      BY <1>1, <1>2, <2>2
    <3>2. /\ LastIs("list") /\ Left[1].pin = Left[s].pin /\ Count # 1
          /\ \A c \in Channel : gpio[c] = Left[s].pin =>
               \E k \in s + 1 .. Count : Left[k].op \in {"detach", "unlist"} /\ Left[k].ch = c
      BY <1>1, <1>8, <2>2, <3>1 DEF LedInv, Resetting
    <3>3. ASSUME NEW c \in Channel, gpio'[c] = Left[s].pin
          PROVE  \E k \in s + 1 .. Count' : Left'[k].op \in {"detach", "unlist"} /\ Left'[k].ch = c
      <4>1. PICK k \in s + 1 .. Count : Left[k].op \in {"detach", "unlist"} /\ Left[k].ch = c
        BY <1>2, <3>2, <3>3
      <4>2. k \in s + 1 .. Count'
        BY <1>1, <2>2
      <4>3. CASE k = Count
        BY <1>3, <4>1, <4>2, <4>3 DEF w
      <4>4. CASE k # Count
        <5>1. Left'[k] = Left[k]
          BY <1>1, <1>2, <2>2, <4>4
        <5> QED
          BY <4>1, <4>2, <5>1
      <4> QED
        BY <4>3, <4>4
    <3> QED
      BY <1>5, <3>1, <3>2, <3>3
  <2> QED
    BY <1>3, <1>4, <2>1, <2>2
<1>13. Driving'
  <2> SUFFICES ASSUME NEW s \in 1 .. Count'
               PROVE  /\ Left'[s].op = "out" => LastIs("list")' /\ Left'[1].pin = Left'[s].pin
                      /\ Left'[s].op # "link"
    BY DEF Driving
  <2>1. CASE s \in 1 .. Count - 1
    <3>1. Left'[s] = Left[s] /\ s \in 1 .. Count /\ Count # 1
      BY <1>1, <1>2, <2>1
    <3> QED
      BY <1>5, <3>1 DEF LedInv, Driving
  <2> QED
    BY <1>3, <1>4, <2>1
<1>14. Released'
  <2>1. ASSUME NEW p \in Pin, LastIs("list"), Left[1].pin = p PROVE LastIs("list")' /\ Left'[1].pin = p
    <3>1. Count # 1
      BY <1>1, <2>1 DEF LastIs, w
    <3> QED
      BY <1>5, <2>1, <3>1
  <2>2. ASSUME NEW p \in Pin
        PROVE  \/ \E c \in Channel : gpio'[c] = p
               \/ dir'[p] = "off" /\ route'[p] = "gpio"
               \/ LastIs("list")' /\ Left'[1].pin = p
    BY <1>2, <2>1 DEF LedInv, Released, Listed
  <2> QED
    BY <2>2 DEF Released, Listed
<1>15. Driven'
  <2> SUFFICES ASSUME NEW c \in Channel, gpio'[c] # NoPin, dir'[gpio'[c]] = "off"
               PROVE  \E r \in 1 .. Count' : Left'[r].op = "unlist" /\ Left'[r].pin = gpio'[c]
    BY DEF Driven
  <2>1. PICK r \in 1 .. Count : Left[r].op = "unlist" /\ Left[r].pin = gpio[c]
    BY <1>2 DEF LedInv, Driven
  <2> QED
    BY <1>1, <1>8, <2>1 DEF w
<1>16. Timing' /\ Deleting'
  <2>1. timer # "enabled" /\ timer # "deleted" /\ timer' = timer
    BY <1>1, <1>2 DEF LedInv, Timing, Deleting, LastIs, w
  <2>2. ~LastIs("start") /\ \A r \in 1 .. Count : Left[r].op # "enable"
    BY <1>1 DEF LedInv, Timing, LastIs, w
  <2>3. ASSUME NEW r \in 1 .. Count'
        PROVE  /\ Left'[r].op # "enable"
               /\ Left'[r].op = "stop" => r > 1 /\ Left'[r - 1].op = "disable"
               /\ Left'[r].op = "disable" => r < Count' /\ Left'[r + 1].op = "stop"
               /\ Left'[r].op \in {"stop", "disable"} => timer \in {"init", "enabled", "run"}
    <3>1. CASE r \in 1 .. Count - 1
      <4>1. Left'[r] = Left[r] /\ r \in 1 .. Count /\ r # Count /\ (r > 1 => r - 1 \in 1 .. Count - 1)
        BY <1>1, <1>2, <3>1
      <4>2. Left[r].op = "disable" => r < Count /\ Left[r + 1].op = "stop" /\ r + 1 # Count /\ r + 1 \in 1 .. Count - 1
        BY <1>1, <4>1 DEF LedInv, Timing, w
      <4>3. Left[r].op = "disable" => r < Count' /\ Left'[r + 1].op = "stop"
        BY <1>1, <1>2, <4>1, <4>2
      <4> QED
        BY <1>2, <2>2, <4>1, <4>3 DEF LedInv, Timing
    <3> QED
      BY <1>3, <1>4, <3>1
  <2>4. Timing'
    BY <1>5, <2>1, <2>2, <2>3 DEF Timing
  <2>5. LastIs("delete")' => /\ timer \in {"null", "init"} \/ \E s \in 2 .. Count' : Left'[s].op = "disable"
                             /\ \A c \in Channel : Leaving(c)'
    <3> SUFFICES ASSUME LastIs("delete")'
                 PROVE  /\ timer \in {"null", "init"} \/ \E s \in 2 .. Count' : Left'[s].op = "disable"
                        /\ \A c \in Channel : Leaving(c)'
      OBVIOUS
    <3>1. LastIs("delete") /\ Count # 1
      BY <1>5
    <3>2. \A c \in Channel : Leaving(c)'
      BY <1>10, <3>1 DEF LedInv, Deleting
    <3>3. CASE \E s \in 2 .. Count : Left[s].op = "disable"
      <4>1. PICK s \in 2 .. Count : Left[s].op = "disable"
        BY <3>3
      <4>2. s # Count
        BY <1>1, <4>1 DEF w
      <4>3. s \in 2 .. Count' /\ Left'[s] = Left[s]
        BY <1>1, <1>2, <4>2
      <4> QED
        BY <3>2, <4>1, <4>3
    <3> QED
      BY <3>1, <3>2, <3>3 DEF LedInv, Deleting
  <2> QED
    BY <2>1, <2>4, <2>5 DEF Deleting
<1> QED
  BY <1>6, <1>7, <1>9, <1>11, <1>12, <1>13, <1>14, <1>15, <1>16 DEF LedInv

-----------------------------------------------------------------------------
\* The writes as the model keeps them, in their order.
LEMMA LeftIs ==
    ASSUME todo \in Seq(Writes)
    PROVE  /\ Count \in Nat /\ Left \in [1 .. Count -> Writes]
           /\ \A r \in 1 .. Count : Left[r] = todo[Count - r + 1]
           /\ todo # <<>> => Count > 0 /\ Head(todo) = Left[Count] /\ Left[Count] \in Writes
<1>1. Count \in Nat /\ todo \in [1 .. Count -> Writes]
  BY DEF Count
<1>2. \A r \in 1 .. Count : Left[r] = todo[Count - r + 1]
  BY DEF Count, Left
<1>3. Left \in [1 .. Count -> Writes]
  BY <1>1 DEF Count, Left
<1>4. todo # <<>> => Count > 0 /\ Head(todo) = todo[1]
  BY DEF Count
<1> QED
  BY <1>1, <1>2, <1>3, <1>4

LEMMA LeftNext ==
    ASSUME todo' \in Seq(Writes), NEW n \in Nat, Len(todo') = n
    PROVE  Count' = n /\ Left' \in [1 .. n -> Writes] /\ \A r \in 1 .. n : Left'[r] = todo'[n - r + 1]
<1>1. Count' = n /\ Left' = [r \in 1 .. n |-> todo'[n - r + 1]]
  BY DEF Count, Left
<1>2. \A r \in 1 .. n : todo'[n - r + 1] \in Writes
  OBVIOUS
<1> QED
  BY <1>1, <1>2

LEMMA TailLeft ==
    ASSUME todo \in Seq(Writes), todo # <<>>, todo' = Tail(todo)
    PROVE  /\ todo' \in Seq(Writes) /\ Count' = Count - 1
           /\ Left' \in [1 .. Count - 1 -> Writes] /\ \A r \in 1 .. Count - 1 : Left'[r] = Left[r]
<1>1. todo' \in Seq(Writes) /\ Len(todo') = Count - 1 /\ \A n \in 1 .. Count - 1 : todo'[n] = todo[n + 1]
  BY HeadTailProperties DEF Count
<1>2. Count \in Nat \ {0} /\ \A r \in 1 .. Count : Left[r] = todo[Count - r + 1]
  BY LeftIs
<1>3. /\ Count - 1 \in Nat /\ Count' = Count - 1 /\ Left' \in [1 .. Count - 1 -> Writes]
      /\ \A r \in 1 .. Count - 1 : Left'[r] = todo'[Count - 1 - r + 1]
  BY <1>1, <1>2, LeftNext
<1>4. ASSUME NEW r \in 1 .. Count - 1 PROVE Left'[r] = Left[r]
  <2>1. Count - 1 - r + 1 = Count - r /\ Count - r \in 1 .. Count - 1 /\ r \in 1 .. Count
    BY <1>2
  <2>2. Left'[r] = todo'[Count - r]
    BY <1>3, <2>1
  <2>3. todo'[Count - r] = todo[Count - r + 1]
    BY <1>1, <2>1
  <2> QED
    BY <1>2, <2>1, <2>2, <2>3
<1> QED
  BY <1>1, <1>3, <1>4

LEMMA FunctionIsSeq ==
    ASSUME NEW n \in Nat, NEW S, NEW f \in [1 .. n -> S] PROVE f \in Seq(S) /\ Len(f) = n
OBVIOUS

\* The writes to a pin, in order.
LEMMA OnPinIs ==
    ASSUME NEW c \in Nat, NEW p \in Pin
    PROVE  /\ OnPin(<<"reset", "gpio", "unlist">>, c, p) \in Seq(Writes)
           /\ Len(OnPin(<<"reset", "gpio", "unlist">>, c, p)) = 3
           /\ OnPin(<<"reset", "gpio", "unlist">>, c, p)[1] = Write("reset", c, p, FALSE)
           /\ OnPin(<<"reset", "gpio", "unlist">>, c, p)[2] = Write("gpio", c, p, FALSE)
           /\ OnPin(<<"reset", "gpio", "unlist">>, c, p)[3] = Write("unlist", c, p, FALSE)
           /\ OnPin(<<"reset", "gpio", "out", "low">>, c, p) \in Seq(Writes)
           /\ Len(OnPin(<<"reset", "gpio", "out", "low">>, c, p)) = 4
           /\ OnPin(<<"reset", "gpio", "out", "low">>, c, p)[1] = Write("reset", c, p, FALSE)
           /\ OnPin(<<"reset", "gpio", "out", "low">>, c, p)[2] = Write("gpio", c, p, FALSE)
           /\ OnPin(<<"reset", "gpio", "out", "low">>, c, p)[3] = Write("out", c, p, FALSE)
           /\ OnPin(<<"reset", "gpio", "out", "low">>, c, p)[4] = Write("low", c, p, FALSE)
<1> DEFINE three == <<"reset", "gpio", "unlist">>
           four == <<"reset", "gpio", "out", "low">>
<1>1. DOMAIN three = 1 .. 3 /\ three[1] = "reset" /\ three[2] = "gpio" /\ three[3] = "unlist"
  OBVIOUS
<1>2. DOMAIN four = 1 .. 4 /\ four[1] = "reset" /\ four[2] = "gpio" /\ four[3] = "out" /\ four[4] = "low"
  OBVIOUS
<1> HIDE DEF three, four
<1>3. /\ OnPin(three, c, p) = [n \in 1 .. 3 |-> Write(three[n], c, p, FALSE)]
      /\ OnPin(four, c, p) = [n \in 1 .. 4 |-> Write(four[n], c, p, FALSE)]
  BY <1>1, <1>2 DEF OnPin
<1>4. /\ \A n \in 1 .. 3 : n = 1 \/ n = 2 \/ n = 3
      /\ \A n \in 1 .. 4 : n = 1 \/ n = 2 \/ n = 3 \/ n = 4
  OBVIOUS
<1>5. \A op \in {"reset", "gpio", "unlist", "out", "low"} : Write(op, c, p, FALSE) \in Writes
  BY DEF Write, Writes, OnPins
<1>6. /\ \A n \in 1 .. 3 : Write(three[n], c, p, FALSE) \in Writes
      /\ \A n \in 1 .. 4 : Write(four[n], c, p, FALSE) \in Writes
  BY <1>1, <1>2, <1>4, <1>5
<1>7. OnPin(three, c, p) \in [1 .. 3 -> Writes] /\ OnPin(four, c, p) \in [1 .. 4 -> Writes]
  BY <1>3, <1>6
<1>8. /\ OnPin(three, c, p) \in Seq(Writes) /\ Len(OnPin(three, c, p)) = 3
      /\ OnPin(four, c, p) \in Seq(Writes) /\ Len(OnPin(four, c, p)) = 4
  BY <1>7, FunctionIsSeq
<1>9. /\ \A n \in 1 .. 3 : OnPin(three, c, p)[n] = Write(three[n], c, p, FALSE)
       /\ \A m \in 1 .. 4 : OnPin(four, c, p)[m] = Write(four[m], c, p, FALSE)
  BY <1>3
<1>10. 1 \in 1 .. 3 /\ 2 \in 1 .. 3 /\ 3 \in 1 .. 3 /\ 1 \in 1 .. 4 /\ 2 \in 1 .. 4 /\ 3 \in 1 .. 4 /\ 4 \in 1 .. 4
  OBVIOUS
<1>11. /\ OnPin(three, c, p)[1] = Write("reset", c, p, FALSE) /\ OnPin(three, c, p)[2] = Write("gpio", c, p, FALSE)
      /\ OnPin(three, c, p)[3] = Write("unlist", c, p, FALSE)
  BY <1>1, <1>9, <1>10
<1>12. /\ OnPin(four, c, p)[1] = Write("reset", c, p, FALSE) /\ OnPin(four, c, p)[2] = Write("gpio", c, p, FALSE)
       /\ OnPin(four, c, p)[3] = Write("out", c, p, FALSE) /\ OnPin(four, c, p)[4] = Write("low", c, p, FALSE)
  BY <1>2, <1>9, <1>10
<1> QED
  BY <1>8, <1>11, <1>12 DEF three, four

\* A write of the program is one of these.
LEMMA StepIs ==
    ASSUME LedInv, todo \in Seq(Writes), Step
    PROVE  /\ todo' \in Seq(Writes)
           /\ \/ Taken \/ Expanded
              \/ /\ Left[Count].op = "enable" /\ timer # "init" /\ todo' = <<>> /\ Count > 0
                 /\ UNCHANGED <<gpio, link, dir, route, timer>>
<1> DEFINE w == Left[Count]
<1>1. todo # <<>> /\ Head(todo) = w /\ Count \in Nat \ {0} /\ w \in Writes /\ Count \in 1 .. Count
  BY LeftIs DEF Step, Idle
<1>2. /\ w.op \in {"detach", "list", "unlist"} => w.ch \in Channel
      /\ w.op \in OnPins \cup {"list", "unlist"} => w.pin \in Pin
  BY <1>1 DEF LedInv, LedTypes
<1>3. /\ todo' = CASE w.op = "enable" /\ timer # "init" -> <<>>
                   [] w.op = "detach" -> Detach(w.ch) \o Tail(todo)
                   [] OTHER           -> Tail(todo)
      /\ timer' = TimerStep(w.op)
      /\ gpio' = CASE w.op = "list"   -> [gpio EXCEPT ![w.ch] = w.pin]
                   [] w.op = "unlist" -> [gpio EXCEPT ![w.ch] = NoPin]
                   [] OTHER           -> gpio
      /\ link' = IF w.op \in {"list", "unlist"} THEN [link EXCEPT ![w.ch] = w.link] ELSE link
      /\ dir' = CASE w.op = "reset" -> [dir EXCEPT ![w.pin] = "off"]
                  [] w.op = "out"   -> [dir EXCEPT ![w.pin] = "out"]
                  [] OTHER          -> dir
      /\ route' = IF w.op \in {"gpio", "link"} THEN [route EXCEPT ![w.pin] = w.op] ELSE route
  BY <1>1 DEF Step
<1> HIDE DEF w
<1>4. /\ gpio' = IF w.op = "list" THEN [gpio EXCEPT ![w.ch] = w.pin]
                 ELSE IF w.op = "unlist" THEN [gpio EXCEPT ![w.ch] = NoPin] ELSE gpio
      /\ dir' = IF w.op = "reset" THEN [dir EXCEPT ![w.pin] = "off"]
                ELSE IF w.op = "out" THEN [dir EXCEPT ![w.pin] = "out"] ELSE dir
  BY <1>3
<1>5. CASE w.op = "enable" /\ timer # "init"
  <2>1. todo' = <<>> /\ UNCHANGED <<gpio, link, dir, route, timer>>
    BY <1>3, <1>4, <1>5 DEF TimerStep
  <2> QED
    BY <1>1, <1>5, <2>1 DEF w
<1>6. CASE w.op = "detach" /\ gpio[w.ch] # NoPin
  <2> DEFINE q == gpio[w.ch]
             d == OnPin(<<"reset", "gpio", "unlist">>, w.ch, q)
             t == Tail(todo)
  <2>1. todo' = d \o t
    BY <1>3, <1>6 DEF Detach
  <2>2. w.ch \in Nat /\ q \in Pin
    BY <1>1, <1>2, <1>6 DEF Writes, LedInv, LedTypes
  <2> HIDE DEF q
  <2>3. /\ d \in Seq(Writes) /\ Len(d) = 3 /\ d[1] = Write("reset", w.ch, q, FALSE)
        /\ d[2] = Write("gpio", w.ch, q, FALSE) /\ d[3] = Write("unlist", w.ch, q, FALSE)
    BY <2>2, OnPinIs
  <2> HIDE DEF d, t
  <2>4. t \in Seq(Writes) /\ Len(t) = Count - 1 /\ \A n \in 1 .. Count - 1 : t[n] = todo[n + 1]
    BY <1>1, HeadTailProperties DEF Count, t
  <2>5. /\ todo' \in Seq(Writes) /\ Len(todo') = Count + 2
        /\ \A n \in 1 .. Count + 2 : todo'[n] = IF n <= 3 THEN d[n] ELSE t[n - 3]
    <3>1. Len(d) + Len(t) = Count + 2
      BY <1>1, <2>3, <2>4
    <3>2. /\ d \o t \in Seq(Writes) /\ Len(d \o t) = Count + 2
          /\ \A n \in 1 .. Count + 2 : (d \o t)[n] = IF n <= 3 THEN d[n] ELSE t[n - 3]
      <4>1. /\ d \o t \in Seq(Writes) /\ Len(d \o t) = Len(d) + Len(t)
            /\ \A n \in 1 .. Len(d) + Len(t) : (d \o t)[n] = IF n <= Len(d) THEN d[n] ELSE t[n - Len(d)]
        BY <2>3, <2>4, ConcatProperties
      <4> QED
        BY <2>3, <3>1, <4>1
    <3> QED
      BY <2>1, <3>2
  <2>6. Count' = Count + 2 /\ Left' \in [1 .. Count + 2 -> Writes] /\ \A r \in 1 .. Count + 2 : Left'[r] = todo'[Count + 2 - r + 1]
    BY <1>1, <2>5, LeftNext
  <2>7. ASSUME NEW r \in 1 .. Count - 1 PROVE Left'[r] = Left[r]
    <3>1. Count + 2 - r + 1 \in 4 .. Count + 2 /\ Count + 2 - r + 1 - 3 = Count - r /\ Count - r \in 1 .. Count - 1 /\ r \in 1 .. Count + 2 /\ r \in 1 .. Count
      BY <1>1
    <3>2. Left'[r] = t[Count - r]
      <4>1. Left'[r] = todo'[Count + 2 - r + 1]
        BY <2>6, <3>1
      <4>2. ASSUME NEW n \in 1 .. Count + 2, n \in 4 .. Count + 2 PROVE todo'[n] = t[n - 3]
        <5>1. ~(n <= 3)
          BY <4>2
        <5> QED
          BY <2>5, <5>1
      <4>3. todo'[Count + 2 - r + 1] = t[Count + 2 - r + 1 - 3]
        BY <1>1, <3>1, <4>2
      <4> QED
        BY <3>1, <4>1, <4>3
    <3> QED
      BY <2>4, <3>1, <3>2, LeftIs
  <2>8. Left'[Count + 2] = d[1] /\ Left'[Count + 1] = d[2] /\ Left'[Count] = d[3]
    BY <1>1, <2>5, <2>6
  <2>9. UNCHANGED <<gpio, link, dir, route, timer>>
    BY <1>3, <1>4, <1>6 DEF TimerStep
  <2>10. Expanded
    BY <1>1, <1>6, <2>3, <2>6, <2>7, <2>8, <2>9 DEF Expanded, w, q
  <2> QED
    BY <2>5, <2>10
<1>7. CASE ~(w.op = "enable" /\ timer # "init") /\ ~(w.op = "detach" /\ gpio[w.ch] # NoPin)
  <2>1. todo' = Tail(todo)
    <3>1. CASE w.op = "detach"
      <4>1. todo' = <<>> \o Tail(todo)
        BY <1>3, <1>7, <3>1 DEF Detach
      <4>2. Tail(todo) \in Seq(Writes)
        BY <1>1, HeadTailProperties
      <4> QED
        BY <4>1, <4>2, ConcatEmptySeq
    <3>2. CASE w.op # "detach"
      BY <1>3, <1>7, <3>2
    <3> QED
      BY <3>1, <3>2
  <2>2. /\ todo' \in Seq(Writes) /\ Count' = Count - 1
        /\ Left' \in [1 .. Count - 1 -> Writes] /\ \A r \in 1 .. Count - 1 : Left'[r] = Left[r]
    BY <1>1, <2>1, TailLeft
  <2>3. Taken
    BY <1>1, <1>3, <1>4, <1>7, <2>2 DEF Taken, w
  <2> QED
    BY <2>2, <2>3
<1> QED
  BY <1>5, <1>6, <1>7

-----------------------------------------------------------------------------
\* Between two calls nothing is under way.
LEMMA IdleIs ==
    ASSUME LedInv, todo \in Seq(Writes), Idle, timer # "deleted"
    PROVE  /\ Count = 0 /\ timer \in {"null", "init", "run"}
           /\ \A p \in Pin : Listed(p) \/ (dir[p] = "off" /\ route[p] = "gpio")
           /\ \A c \in Channel : gpio[c] # NoPin => dir[gpio[c]] # "off"
<1>1. Count = 0
  BY DEF Idle, Count
<1> QED
  BY <1>1 DEF LedInv, LedTypes, Released, Driven, Timing, LastIs

\* A call begins with writes that fit the pins and the timer as they are.
LEMMA CallBegins ==
    ASSUME LedInv, todo \in Seq(Writes), Idle, timer # "deleted", UNCHANGED <<gpio, link, dir, route, timer>>,
           Count' \in Nat, Left' \in [1 .. Count' -> Writes],
           \A r \in 1 .. Count' :
              /\ Left'[r].op \in {"detach", "list"} => Left'[r].ch \in Channel
              /\ Left'[r].op \in OnPins \cup {"list"} => Left'[r].pin \in Pin
              /\ Left'[r].op # "unlist",
           LastOnes', Listing', Resetting', Driving', Timing', LastIs("delete")' => Deleting'
    PROVE  LedInv'
<1>1. LedTypes'
  BY DEF LedInv, LedTypes
<1>2. OneEach'
  BY DEF LedInv, OneEach
<1>3. Unlisting'
  BY DEF Unlisting
<1>4. Released' /\ Driven'
  <2>1. \A p \in Pin : (\E c \in Channel : gpio'[c] = p) \/ (dir'[p] = "off" /\ route'[p] = "gpio")
    BY IdleIs DEF Listed
  <2>2. \A c \in Channel : gpio'[c] # NoPin => dir'[gpio'[c]] # "off"
    BY IdleIs
  <2> QED
    BY <2>1, <2>2 DEF Released, Listed, Driven
<1>5. Deleting'
  BY DEF Deleting
<1> QED
  BY <1>1, <1>2, <1>3, <1>4, <1>5 DEF LedInv

LEMMA WriteIs ==
    ASSUME NEW op, NEW c \in Nat, NEW p \in Pin \cup {NoPin}, NEW l \in BOOLEAN,
           op \in OnPins \cup OnTimers \cup {"detach", "unlist", "list"}
    PROVE  /\ Write(op, c, p, l) \in Writes /\ Write(op, c, p, l).op = op /\ Write(op, c, p, l).ch = c
           /\ Write(op, c, p, l).pin = p /\ Write(op, c, p, l).link = l
BY DEF Write, Writes

LEMMA ChannelIsNat == Channel \subseteq Nat
BY LedAssumption DEF Channel

\* ledcontrol_attach with a pin that no other channel has.
LEMMA AttachBegins ==
    ASSUME LedInv, todo \in Seq(Writes), Idle, timer # "deleted", UNCHANGED <<gpio, link, dir, route, timer>>,
           NEW c \in Channel, NEW p \in Pin, NEW l \in BOOLEAN, \A d \in Channel \ {c} : gpio[d] # p,
           todo' = Attach(c, p, l)
    PROVE  todo' \in Seq(Writes) /\ LedInv'
<1> DEFINE first == <<DetachCall(c)>>
           mid == OnPin(<<"reset", "gpio", "out", "low">>, c, p)
           last == <<Write("list", c, p, l)>>
           rest == mid \o last
<1>1. p # NoPin /\ c \in Nat /\ DetachCall(c) = Write("detach", c, NoPin, FALSE)
  BY LedAssumption, ChannelIsNat DEF DetachCall
<1>2. todo' = first \o rest
  BY <1>1 DEF Attach
<1>3. DetachCall(c) \in Writes /\ Write("list", c, p, l) \in Writes
  BY <1>1 DEF Write, Writes
<1>4. /\ first \in Seq(Writes) /\ Len(first) = 1 /\ first[1] = DetachCall(c)
      /\ last \in Seq(Writes) /\ Len(last) = 1 /\ last[1] = Write("list", c, p, l)
  BY <1>3
<1>5. /\ mid \in Seq(Writes) /\ Len(mid) = 4 /\ mid[1] = Write("reset", c, p, FALSE) /\ mid[2] = Write("gpio", c, p, FALSE)
      /\ mid[3] = Write("out", c, p, FALSE) /\ mid[4] = Write("low", c, p, FALSE)
  BY <1>1, OnPinIs
<1> HIDE DEF first, mid, last
<1>6. /\ rest \in Seq(Writes) /\ Len(rest) = 5 /\ rest[1] = mid[1] /\ rest[2] = mid[2] /\ rest[3] = mid[3]
      /\ rest[4] = mid[4] /\ rest[5] = last[1]
  <2>1. /\ rest \in Seq(Writes) /\ Len(rest) = Len(mid) + Len(last)
        /\ \A n \in 1 .. Len(mid) + Len(last) : rest[n] = IF n <= Len(mid) THEN mid[n] ELSE last[n - Len(mid)]
    BY <1>4, <1>5, ConcatProperties
  <2>2. Len(rest) = 5 /\ \A n \in 1 .. 5 : rest[n] = IF n <= 4 THEN mid[n] ELSE last[n - 4]
    BY <1>4, <1>5, <2>1
  <2>3. rest[1] = mid[1] /\ rest[2] = mid[2] /\ rest[3] = mid[3] /\ rest[4] = mid[4] /\ rest[5] = last[1]
    BY <2>2
  <2> QED
    BY <2>1, <2>2, <2>3
<1> HIDE DEF rest
<1>7. /\ todo' \in Seq(Writes) /\ Len(todo') = 6 /\ todo'[1] = first[1] /\ todo'[2] = rest[1] /\ todo'[3] = rest[2]
      /\ todo'[4] = rest[3] /\ todo'[5] = rest[4] /\ todo'[6] = rest[5]
  <2>1. /\ first \o rest \in Seq(Writes) /\ Len(first \o rest) = Len(first) + Len(rest)
        /\ \A n \in 1 .. Len(first) + Len(rest) : (first \o rest)[n] = IF n <= Len(first) THEN first[n] ELSE rest[n - Len(first)]
    BY <1>4, <1>6, ConcatProperties
  <2>2. todo' \in Seq(Writes) /\ Len(todo') = 6 /\ \A n \in 1 .. 6 : todo'[n] = IF n <= 1 THEN first[n] ELSE rest[n - 1]
    <3>1. Len(first) = 1 /\ Len(rest) = 5 /\ 1 + 5 = 6
      BY <1>4, <1>6
    <3>2. /\ Len(first \o rest) = 6
          /\ \A n \in 1 .. 6 : (first \o rest)[n] = IF n <= 1 THEN first[n] ELSE rest[n - 1]
      BY <2>1, <3>1
    <3> QED
      BY <1>2, <2>1, <3>2
  <2> QED
    BY <2>2
<1>8. /\ Count' = 6 /\ Left' \in [1 .. 6 -> Writes] /\ Left'[6] = todo'[1] /\ Left'[5] = todo'[2]
      /\ Left'[4] = todo'[3] /\ Left'[3] = todo'[4] /\ Left'[2] = todo'[5] /\ Left'[1] = todo'[6]
  <2>1. Count' = 6 /\ Left' \in [1 .. 6 -> Writes] /\ \A r \in 1 .. 6 : Left'[r] = todo'[6 - r + 1]
    BY <1>7, LeftNext
  <2> QED
    BY <2>1
<1>9. /\ Left'[6].op = "detach" /\ Left'[6].ch = c
      /\ Left'[5].op = "reset" /\ Left'[5].pin = p /\ Left'[4].op = "gpio" /\ Left'[4].pin = p
      /\ Left'[3].op = "out" /\ Left'[3].pin = p /\ Left'[2].op = "low" /\ Left'[2].pin = p
      /\ Left'[1].op = "list" /\ Left'[1].pin = p /\ Left'[1].ch = c
  BY <1>1, <1>4, <1>5, <1>6, <1>7, <1>8 DEF Write
<1>10. \A r \in 1 .. 6 : r = 1 \/ r = 2 \/ r = 3 \/ r = 4 \/ r = 5 \/ r = 6
  OBVIOUS
<1>11. LastIs("list")' /\ ~LastIs("start")' /\ ~LastIs("delete")'
  BY <1>8, <1>9 DEF LastIs
<1>12. LastOnes' /\ Driving'
  BY <1>8, <1>9, <1>10, <1>11 DEF LastOnes, Driving
<1>13. \A d \in Channel : gpio'[d] = p => d = c
  OBVIOUS
<1>14. Listing'
  <2>1. Leaving(c)'
    BY <1>8, <1>9 DEF Leaving
  <2>2. \A k \in 2 .. 3 - 1 : k = 2
    OBVIOUS
  <2>3. \E s \in 2 .. 6 : Left'[s].op = "out" /\ Left'[s].pin = p
                           /\ \A k \in 2 .. s - 1 : Left'[k].op \notin {"reset", "detach"}
    BY <1>9, <2>2
  <2>4. gpio'[c] = NoPin \/ \E s \in 2 .. Count' : Left'[s].op \in {"detach", "unlist"} /\ Left'[s].ch = c
    BY <2>1 DEF Leaving
  <2> QED
    BY <1>8, <1>9, <1>13, <2>3, <2>4 DEF Listing, Leaving
<1>15. Resetting'
  <2> SUFFICES ASSUME NEW s \in 1 .. Count', Left'[s].op = "reset"
               PROVE  /\ LastIs("list")' /\ Left'[1].pin = Left'[s].pin
                      /\ \A d \in Channel : gpio'[d] = Left'[s].pin =>
                           \E k \in s + 1 .. Count' : Left'[k].op \in {"detach", "unlist"} /\ Left'[k].ch = d
    BY DEF Resetting
  <2>1. s = 5 /\ 6 \in s + 1 .. Count'
    BY <1>8, <1>9, <1>10
  <2> QED
    BY <1>9, <1>11, <1>13, <2>1
<1>16. Timing'
  BY <1>8, <1>9, <1>10, <1>11, IdleIs DEF Timing
<1>17. \A r \in 1 .. Count' :
              /\ Left'[r].op \in {"detach", "list"} => Left'[r].ch \in Channel
              /\ Left'[r].op \in OnPins \cup {"list"} => Left'[r].pin \in Pin
              /\ Left'[r].op # "unlist"
  BY <1>8, <1>9, <1>10 DEF OnPins
<1> QED
  BY <1>7, <1>8, <1>11, <1>12, <1>14, <1>15, <1>16, <1>17, CallBegins

\* A call of one write that changes neither table nor timer.
LEMMA OneBegins ==
    ASSUME LedInv, todo \in Seq(Writes), Idle, timer # "deleted", UNCHANGED <<gpio, link, dir, route, timer>>,
           NEW x \in Writes, todo' = <<x>>,
           \/ x.op = "detach" /\ x.ch \in Channel
           \/ x.op \in {"gpio", "link"} /\ x.pin \in Pin /\ Listed(x.pin)
    PROVE  todo' \in Seq(Writes) /\ LedInv'
<1>1. todo' \in Seq(Writes) /\ Len(todo') = 1 /\ todo'[1] = x
  OBVIOUS
<1>2. Count' = 1 /\ Left' \in [1 .. 1 -> Writes] /\ Left'[1] = x /\ \A r \in 1 .. 1 : r = 1
  BY <1>1, LeftNext
<1>3. LastOnes' /\ Listing' /\ Resetting' /\ ~LastIs("start")' /\ ~LastIs("delete")'
  BY <1>2 DEF LastOnes, Listing, Resetting, LastIs
<1>4. Driving'
  BY <1>2 DEF Driving, Listed
<1>5. Timing'
  BY <1>2, <1>3, IdleIs DEF Timing
<1> QED
  BY <1>1, <1>2, <1>3, <1>4, <1>5, CallBegins DEF OnPins

\* A call of ledcontrol_start or ledcontrol_stop.
LEMMA TwoBegins ==
    ASSUME LedInv, todo \in Seq(Writes), Idle, timer \notin {"null", "deleted"}, UNCHANGED <<gpio, link, dir, route, timer>>,
           \/ todo' = <<OnTimer("enable"), OnTimer("start")>>
           \/ todo' = <<OnTimer("stop"), OnTimer("disable")>>
    PROVE  todo' \in Seq(Writes) /\ LedInv'
<1>1. /\ \A op \in OnTimers : OnTimer(op) \in Writes /\ OnTimer(op).op = op
      /\ timer \in {"init", "run"}
  BY WriteIs, IdleIs DEF OnTimer, Write, Writes
<1>2. PICK a \in OnTimers, b \in OnTimers :
        /\ todo' = <<OnTimer(a), OnTimer(b)>>
        /\ \/ a = "enable" /\ b = "start"
           \/ a = "stop" /\ b = "disable"
  BY DEF OnTimers
<1>3. todo' \in Seq(Writes) /\ Len(todo') = 2 /\ todo'[1] = OnTimer(a) /\ todo'[2] = OnTimer(b)
  BY <1>1, <1>2
<1>4. Count' = 2 /\ Left' \in [1 .. 2 -> Writes] /\ Left'[1] = OnTimer(b) /\ Left'[2] = OnTimer(a) /\ \A r \in 1 .. 2 : r = 1 \/ r = 2
  <2>1. Count' = 2 /\ Left' \in [1 .. 2 -> Writes] /\ \A r \in 1 .. 2 : Left'[r] = todo'[2 - r + 1]
    BY <1>3, LeftNext
  <2> QED
    BY <1>3, <2>1
<1>5. Count' = 2 /\ Left'[1].op = b /\ Left'[2].op = a
  BY <1>1, <1>4
<1>6. LastOnes' /\ Listing' /\ Resetting' /\ Driving' /\ ~LastIs("delete")'
  BY <1>2, <1>4, <1>5 DEF LastOnes, Listing, Resetting, Driving, LastIs
<1>7. Timing'
  BY <1>1, <1>2, <1>4, <1>5 DEF Timing, LastIs
<1>8. \A r \in 1 .. Count' : Left'[r].op \in OnTimers /\ Left'[r].op \notin OnPins \cup {"detach", "list", "unlist"}
  BY <1>2, <1>4, <1>5 DEF OnTimers, OnPins
<1> QED
  BY <1>3, <1>4, <1>6, <1>7, <1>8, CallBegins

\* ledcontrol_del: all channels, the timer, and its end.
LEMMA DelBegins ==
    ASSUME LedInv, todo \in Seq(Writes), Idle, timer # "deleted", UNCHANGED <<gpio, link, dir, route, timer>>,
           todo' = Del
    PROVE  todo' \in Seq(Writes) /\ LedInv'
<1> DEFINE all == [n \in 1 .. Num |-> DetachCall(n - 1)]
           end == Stop \o <<OnTimer("delete")>>
           e == Len(end)
<1>1. Num \in Nat /\ \A n \in 1 .. Num : n - 1 \in Channel /\ n - 1 \in Nat
  BY LedAssumption DEF Channel
<1>2. /\ \A n \in 1 .. Num : DetachCall(n - 1) \in Writes /\ DetachCall(n - 1).op = "detach" /\ DetachCall(n - 1).ch = n - 1
      /\ \A op \in OnTimers : OnTimer(op) \in Writes /\ OnTimer(op).op = op
      /\ timer \in {"null", "init", "run"}
  BY <1>1, IdleIs DEF OnTimer, DetachCall, Write, Writes
<1>3. /\ all \in Seq(Writes) /\ Len(all) = Num /\ \A n \in 1 .. Num : all[n] = DetachCall(n - 1)
  <2>1. all \in [1 .. Num -> Writes]
    BY <1>2
  <2>2. \A n \in 1 .. Num : all[n] = DetachCall(n - 1)
    OBVIOUS
  <2> HIDE DEF all
  <2> QED
    BY <1>1, <2>1, <2>2, FunctionIsSeq
<1>4. /\ end \in Seq(Writes) /\ e \in {1, 3} /\ end[e].op = "delete"
      /\ IF timer = "null" THEN e = 1 ELSE e = 3 /\ end[1].op = "stop" /\ end[2].op = "disable"
  <2> DEFINE d == <<OnTimer("delete")>>
  <2>1. d \in Seq(Writes) /\ Len(d) = 1 /\ d[1].op = "delete"
    BY <1>2 DEF OnTimers
  <2>2. CASE timer = "null"
    <3>1. end = <<>> \o d
      BY <2>2 DEF Stop
    <3>2. end = d
      BY <2>1, <3>1, ConcatEmptySeq
    <3> HIDE DEF end, d
    <3> QED
      BY <2>1, <2>2, <3>2
  <2>3. CASE timer # "null"
    <3> DEFINE t == <<OnTimer("stop"), OnTimer("disable")>>
    <3>1. t \in Seq(Writes) /\ Len(t) = 2 /\ t[1].op = "stop" /\ t[2].op = "disable"
      BY <1>2 DEF OnTimers
    <3>2. end = t \o d
      BY <2>3 DEF Stop
    <3> HIDE DEF t, d, end
    <3>3. /\ t \o d \in Seq(Writes) /\ Len(t \o d) = Len(t) + Len(d)
          /\ \A n \in 1 .. Len(t) + Len(d) : (t \o d)[n] = IF n <= Len(t) THEN t[n] ELSE d[n - Len(t)]
      BY <2>1, <3>1, ConcatProperties
    <3>4. /\ end \in Seq(Writes) /\ e = 3 /\ \A n \in 1 .. 3 : end[n] = IF n <= 2 THEN t[n] ELSE d[n - 2]
      BY <2>1, <3>1, <3>2, <3>3
    <3>5. end[1] = t[1] /\ end[2] = t[2] /\ end[3] = d[1]
      BY <3>4
    <3> QED
      BY <2>1, <2>3, <3>1, <3>4, <3>5
  <2> QED
    BY <2>2, <2>3
<1>5. todo' = all \o end
  <2>1. Stop \in Seq(Writes) /\ <<OnTimer("delete")>> \in Seq(Writes)
    BY <1>2 DEF Stop, OnTimers
  <2>2. todo' = (all \o Stop) \o <<OnTimer("delete")>>
    BY DEF Del
  <2> DEFINE d == <<OnTimer("delete")>>
  <2>3. end = Stop \o d /\ todo' = (all \o Stop) \o d
    BY <2>2
  <2> HIDE DEF all, end, d
  <2>4. d \in Seq(Writes)
    BY <2>1 DEF d
  <2>5. (all \o Stop) \o d = all \o (Stop \o d)
    BY <1>3, <2>1, <2>4, ConcatAssociative
  <2> QED
    BY <2>3, <2>5, Zenon
<1> HIDE DEF all, end
<1>6. /\ todo' \in Seq(Writes) /\ Len(todo') = Num + e
      /\ \A n \in 1 .. Num + e : todo'[n] = IF n <= Num THEN DetachCall(n - 1) ELSE end[n - Num]
  <2>1. /\ all \o end \in Seq(Writes) /\ Len(all \o end) = Len(all) + Len(end)
        /\ \A n \in 1 .. Len(all) + Len(end) : (all \o end)[n] = IF n <= Len(all) THEN all[n] ELSE end[n - Len(all)]
    BY <1>3, <1>4, ConcatProperties
  <2>2. /\ Len(all \o end) = Num + e
        /\ \A n \in 1 .. Num + e : (all \o end)[n] = IF n <= Num THEN all[n] ELSE end[n - Num]
    BY <1>3, <2>1
  <2>3. \A n \in 1 .. Num + e : n <= Num => all[n] = DetachCall(n - 1)
    BY <1>1, <1>3, <1>4
  <2> QED
    BY <1>5, <2>1, <2>2, <2>3
<1> HIDE DEF e
<1>7. /\ Count' = Num + e /\ Left' \in [1 .. Num + e -> Writes]
      /\ \A r \in 1 .. e : Left'[r] = end[e - r + 1]
      /\ \A r \in e + 1 .. Num + e : Left'[r].op = "detach" /\ Left'[r].ch = Num + e - r
  <2>1. Num + e \in Nat /\ e \in Nat
    BY <1>1, <1>4
  <2>2. Count' = Num + e /\ Left' \in [1 .. Num + e -> Writes] /\ \A r \in 1 .. Num + e : Left'[r] = todo'[Num + e - r + 1]
    <3> DEFINE m == Num + e
    <3>1. m \in Nat /\ Len(todo') = m /\ todo' \in Seq(Writes)
      BY <1>6, <2>1
    <3> HIDE DEF m
    <3>2. Count' = m /\ Left' \in [1 .. m -> Writes] /\ \A r \in 1 .. m : Left'[r] = todo'[m - r + 1]
      BY <3>1, LeftNext
    <3>3. m = Num + e
      BY DEF m
    <3>4. Count' = Num + e
      BY <3>2, <3>3, Zenon
    <3>5. Left' \in [1 .. Num + e -> Writes]
      BY <3>2, <3>3, Zenon
    <3>6. ASSUME NEW r \in 1 .. Num + e PROVE Left'[r] = todo'[Num + e - r + 1]
      <4>1. r \in 1 .. m /\ m - r + 1 = Num + e - r + 1
        BY <1>1, <2>1, <3>1, <3>3
      <4> QED
        BY <3>2, <4>1, Zenon
    <3> QED
      BY <3>4, <3>5, <3>6, Zenon
  <2>3. ASSUME NEW r \in 1 .. e PROVE Left'[r] = end[e - r + 1]
    <3> DEFINE n == Num + e - r + 1
    <3>1. n \in 1 .. Num + e /\ ~(n <= Num) /\ n - Num = e - r + 1
      BY <1>1, <2>1
    <3>2. Left'[r] = todo'[n]
      BY <1>1, <2>1, <2>2
    <3> HIDE DEF n
    <3>3. todo'[n] = end[n - Num]
      BY <1>6, <3>1
    <3> QED
      BY <3>1, <3>2, <3>3
  <2>4. ASSUME NEW r \in e + 1 .. Num + e PROVE Left'[r].op = "detach" /\ Left'[r].ch = Num + e - r
    <3> DEFINE n == Num + e - r + 1
    <3>1. n \in 1 .. Num /\ n \in 1 .. Num + e /\ n <= Num /\ n - 1 = Num + e - r
      BY <1>1, <2>1
    <3>2. Left'[r] = todo'[n]
      BY <1>1, <2>1, <2>2
    <3> HIDE DEF n
    <3>3. todo'[n].op = "detach" /\ todo'[n].ch = n - 1
      BY <1>2, <1>6, <3>1
    <3> QED
      BY <3>1, <3>2, <3>3
  <2> QED
    BY <2>2, <2>3, <2>4
<1>8. /\ Left'[1].op = "delete"
      /\ timer = "null" => e = 1
      /\ timer # "null" => e = 3 /\ Left'[2].op = "disable" /\ Left'[3].op = "stop"
  <2>1. e \in {1, 3} /\ (timer = "null" => e = 1) /\ (timer # "null" => e = 3)
    BY <1>4
  <2>2. 1 \in 1 .. e /\ e - 1 + 1 = e
    BY <2>1
  <2>3. Left'[1] = end[e - 1 + 1]
    BY <1>7, <2>2, Zenon
  <2>4. Left'[1].op = "delete"
    BY <1>4, <2>2, <2>3
  <2>5. ASSUME timer # "null" PROVE Left'[2].op = "disable" /\ Left'[3].op = "stop"
    <3>1. e = 3 /\ 2 \in 1 .. e /\ 3 \in 1 .. e /\ e - 2 + 1 = 2 /\ e - 3 + 1 = 1
      BY <2>1, <2>5
    <3>2. Left'[2] = end[e - 2 + 1] /\ Left'[3] = end[e - 3 + 1]
      BY <1>7, <3>1, Zenon
    <3>3. Left'[2] = end[2] /\ Left'[3] = end[1]
      BY <3>1, <3>2, Zenon
    <3> QED
      BY <1>4, <2>5, <3>3, Zenon
  <2> QED
    BY <2>1, <2>4, <2>5, Zenon
<1>9. ASSUME NEW r \in 1 .. Count'
      PROVE  \/ r = 1
             \/ timer # "null" /\ e = 3 /\ (r = 2 \/ r = 3)
             \/ r \in e + 1 .. Num + e /\ Left'[r].op = "detach" /\ Left'[r].ch = Num + e - r
  <2>1. r \in 1 .. e \/ r \in e + 1 .. Num + e
    BY <1>1, <1>4, <1>7
  <2> QED
    BY <1>4, <1>7, <2>1
<1>10. LastIs("delete")' /\ ~LastIs("list")' /\ ~LastIs("start")'
  BY <1>1, <1>4, <1>7, <1>8 DEF LastIs
<1>11. LastOnes'
  BY <1>8, <1>9 DEF LastOnes
<1>12. Resetting' /\ Driving' /\ Listing'
  <2>1. ASSUME NEW r \in 1 .. Count' PROVE Left'[r].op \notin {"reset", "out", "link"}
    BY <1>8, <1>9
  <2> QED
    BY <1>10, <2>1 DEF Resetting, Driving, Listing
<1>13. Timing'
  <2>1. ASSUME NEW r \in 1 .. Count'
        PROVE  /\ Left'[r].op # "enable"
               /\ Left'[r].op = "stop" => r > 1 /\ Left'[r - 1].op = "disable"
               /\ Left'[r].op = "disable" => r < Count' /\ Left'[r + 1].op = "stop"
               /\ Left'[r].op \in {"stop", "disable"} => timer' \in {"init", "enabled", "run"}
    <3>1. CASE r = 1
      BY <1>8, <3>1
    <3>2. CASE timer # "null" /\ e = 3 /\ (r = 2 \/ r = 3)
      <4>1. Left'[2].op = "disable" /\ Left'[3].op = "stop" /\ Count' >= 3 /\ timer' \in {"init", "run"}
        BY <1>1, <1>2, <1>7, <1>8, <3>2
      <4>2. r = 2 => r < Count' /\ Left'[r + 1].op = "stop"
        BY <1>1, <4>1, <1>7, <3>2
      <4>3. r = 3 => r > 1 /\ Left'[r - 1].op = "disable"
        BY <4>1
      <4> QED
        BY <3>2, <4>1, <4>2, <4>3
    <3> QED
      BY <1>9, <3>1, <3>2
  <2>2. timer' # "enabled"
    BY <1>2
  <2> QED
    BY <1>10, <2>1, <2>2 DEF Timing
<1>14. Deleting'
  <2>1. timer' \in {"null", "init"} \/ \E s \in 2 .. Count' : Left'[s].op = "disable"
    <3>1. CASE timer # "null"
      <4>1. 2 \in 2 .. Count' /\ Left'[2].op = "disable"
        BY <1>1, <1>7, <1>8, <3>1
      <4> QED
        BY <4>1
    <3> QED
      BY <3>1
  <2>2. ASSUME NEW c \in Channel PROVE Leaving(c)'
    <3> DEFINE s == Num + e - c
    <3>1. s \in e + 1 .. Num + e /\ s \in 2 .. Count' /\ Num + e - s = c
      BY <1>1, <1>4, <1>7 DEF Channel
    <3>2. Left'[s].op = "detach" /\ Left'[s].ch = c
      BY <1>7, <3>1
    <3> HIDE DEF s
    <3> QED
      BY <3>1, <3>2 DEF Leaving
  <2>3. timer' # "deleted"
    OBVIOUS
  <2> QED
    BY <2>1, <2>2, <2>3 DEF Deleting
<1>15. \A r \in 1 .. Count' :
              /\ Left'[r].op \in {"detach", "list"} => Left'[r].ch \in Channel
              /\ Left'[r].op \notin OnPins \cup {"list", "unlist"}
  <2>1. ASSUME NEW r \in e + 1 .. Num + e PROVE Num + e - r \in Channel
    BY <1>1, <1>4 DEF Channel
  <2> QED
    BY <1>8, <1>9, <2>1 DEF OnPins
<1>16. Count' \in Nat
  BY <1>1, <1>4, <1>7
<1> QED
  BY <1>6, <1>7, <1>11, <1>12, <1>13, <1>14, <1>15, <1>16, CallBegins

LEMMA CallKeeps == ASSUME LedInv, todo \in Seq(Writes), Call PROVE todo' \in Seq(Writes) /\ LedInv'
<1>1. Idle /\ timer # "deleted" /\ todo' \in Calls /\ UNCHANGED <<gpio, link, dir, route, timer>>
  BY DEF Call, table, pins
<1>2. /\ gpio \in [Channel -> Pin \cup {NoPin}] /\ NoPin \notin Pin /\ Channel \subseteq Nat
      /\ \A c \in Channel : link[c] => gpio[c] # NoPin
  BY LedAssumption, ChannelIsNat DEF LedInv, LedTypes, OneEach
<1>3. ASSUME NEW c \in Channel, NEW p \in {NoPin} \cup (Pin \ {gpio[d] : d \in Channel \ {c}}), NEW l \in BOOLEAN,
             todo' = Attach(c, p, l)
      PROVE  todo' \in Seq(Writes) /\ LedInv'
  <2>1. CASE p = NoPin
    <3>1. DetachCall(c) \in Writes /\ DetachCall(c).op = "detach" /\ DetachCall(c).ch = c
      BY <1>2 DEF DetachCall, Write, Writes
    <3>2. todo' = <<DetachCall(c)>> \o <<>>
      BY <1>3, <2>1 DEF Attach
    <3>3. <<DetachCall(c)>> \in Seq(Writes)
      BY <3>1
    <3>4. todo' = <<DetachCall(c)>>
      BY <3>2, <3>3, ConcatEmptySeq
    <3> QED
      BY <1>1, <3>1, <3>4, OneBegins
  <2>2. CASE p # NoPin
    <3>1. p \in Pin /\ \A d \in Channel \ {c} : gpio[d] # p
      BY <2>2
    <3> QED
      BY <1>1, <1>3, <3>1, AttachBegins
  <2> QED
    BY <2>1, <2>2
<1>4. ASSUME NEW c \in Channel, todo' = <<DetachCall(c)>> PROVE todo' \in Seq(Writes) /\ LedInv'
  <2>1. DetachCall(c) \in Writes /\ DetachCall(c).op = "detach" /\ DetachCall(c).ch = c
    BY <1>2 DEF DetachCall, Write, Writes
  <2> QED
    BY <1>1, <1>4, <2>1, OneBegins
<1>5. ASSUME NEW sig \in {"gpio", "link"}, NEW c \in {d \in Channel : link[d]},
             todo' = <<Write(sig, c, gpio[c], FALSE)>>
      PROVE  todo' \in Seq(Writes) /\ LedInv'
  <2>1. c \in Channel /\ gpio[c] \in Pin
    BY <1>2
  <2>2. /\ Write(sig, c, gpio[c], FALSE) \in Writes /\ Write(sig, c, gpio[c], FALSE).op = sig
        /\ Write(sig, c, gpio[c], FALSE).pin = gpio[c]
    BY <1>2, <2>1 DEF Write, Writes, OnPins
  <2>3. Listed(gpio[c])
    BY <2>1 DEF Listed
  <2> QED
    BY <1>1, <1>5, <2>1, <2>2, <2>3, OneBegins
<1>6. ASSUME todo' = <<>> PROVE todo' \in Seq(Writes) /\ LedInv'
  <2>1. todo' = todo /\ Count' = Count /\ Left' = Left
    BY <1>1, <1>6 DEF Idle, Count, Left
  <2> QED
    BY <1>1, <2>1 DEF LedInv, LedTypes, OneEach, LastOnes, Unlisting, Listing, Resetting, Driving, Released, Driven,
                      Timing, Deleting, LastIs, Leaving, Listed
<1>7. CASE todo' = Start
  BY <1>1, <1>6, <1>7, TwoBegins DEF Start
<1>8. CASE todo' = Stop
  BY <1>1, <1>6, <1>8, TwoBegins DEF Stop
<1>9. CASE todo' = Del
  BY <1>1, <1>9, DelBegins
<1>10. todo' \in AttachCalls \cup {<<DetachCall(c)>> : c \in Channel} \cup {Start, Stop, Del} \cup ShadowCalls
  BY <1>1 DEF Calls
<1>11. CASE todo' \in AttachCalls
  <2>1. PICK c \in Channel : todo' \in {Attach(c, p, lnk) : p \in {NoPin} \cup (Pin \ {gpio[d] : d \in Channel \ {c}}),
                                                            lnk \in BOOLEAN}
    BY <1>11 DEF AttachCalls
  <2>2. PICK p \in {NoPin} \cup (Pin \ {gpio[d] : d \in Channel \ {c}}), lnk \in BOOLEAN : todo' = Attach(c, p, lnk)
    BY <2>1
  <2> QED
    BY <1>3, <2>2
<1>12. CASE todo' \in ShadowCalls
  <2>1. PICK c \in {d \in Channel : link[d]} :
          todo' = <<Write("gpio", c, gpio[c], FALSE)>> \/ todo' = <<Write("link", c, gpio[c], FALSE)>>
    BY <1>12 DEF ShadowCalls
  <2> QED
    BY <1>5, <2>1
<1>13. CASE todo' \in {<<DetachCall(c)>> : c \in Channel}
  BY <1>4, <1>13
<1> QED
  BY <1>7, <1>8, <1>9, <1>10, <1>11, <1>12, <1>13

\* gptimer_enable refuses.
LEMMA RefusedKeeps ==
    ASSUME LedInv, Left[Count].op = "enable", timer # "init", todo' = <<>>, Count > 0,
           UNCHANGED <<gpio, link, dir, route, timer>>
    PROVE  LedInv'
<1>1. Count' = 0 /\ Left' \in [1 .. 0 -> Writes]
  BY DEF Count, Left
<1>2. Count = 2 /\ LastIs("start") /\ Left[1].op = "start" /\ timer # "enabled" /\ timer # "deleted"
  BY DEF LedInv, LedTypes, Timing, Deleting, LastIs
<1>3. ~LastIs("list") /\ ~LastIs("list")' /\ ~LastIs("start")' /\ ~LastIs("delete")'
  BY <1>1, <1>2 DEF LastIs
<1>4. LedTypes' /\ OneEach'
  BY <1>1 DEF LedInv, LedTypes, OneEach
<1>5. LastOnes' /\ Unlisting' /\ Listing' /\ Resetting' /\ Driving' /\ Timing' /\ Deleting'
  BY <1>1, <1>2, <1>3 DEF LastOnes, Unlisting, Listing, Resetting, Driving, Timing, Deleting
<1>6. Released'
  <2>1. \A p \in Pin : (\E c \in Channel : gpio'[c] = p) \/ (dir'[p] = "off" /\ route'[p] = "gpio")
    BY <1>3 DEF LedInv, Released, Listed
  <2> QED
    BY <2>1 DEF Released, Listed
<1>7. Driven'
  <2>1. \A r \in 1 .. Count : Left[r].op # "unlist"
    BY <1>2
  <2>2. \A c \in Channel : gpio'[c] # NoPin => dir'[gpio'[c]] # "off"
    BY <2>1 DEF LedInv, Driven
  <2> QED
    BY <2>2 DEF Driven
<1> QED
  BY <1>4, <1>5, <1>6, <1>7 DEF LedInv

\* ledcontrol_init again.
LEMMA AgainKeeps == ASSUME LedInv, todo \in Seq(Writes), InitAgain PROVE todo' \in Seq(Writes) /\ LedInv'
<1>1. /\ todo' = todo /\ Count' = 0 /\ Left' \in [1 .. 0 -> Writes] /\ dir' = dir /\ route' = route
      /\ gpio' = [c \in Channel |-> NoPin] /\ link' = [c \in Channel |-> FALSE] /\ timer' \in {"null", "init"}
      /\ Count = 0 /\ \A c \in Channel : gpio[c] = NoPin
  BY DEF InitAgain, Fresh, pins, Idle, Count, Left, LedInv, Deleting
<1>2. LedTypes' /\ OneEach'
  BY <1>1 DEF LedInv, LedTypes, OneEach
<1>3. \A op : ~LastIs(op)'
  BY <1>1 DEF LastIs
<1>4. LastOnes' /\ Unlisting' /\ Listing' /\ Resetting' /\ Driving' /\ Timing' /\ Deleting'
  BY <1>1 DEF LastOnes, Unlisting, Listing, Resetting, Driving, Timing, Deleting, LastIs
<1>5. Driven'
  BY <1>1 DEF Driven
<1>6. Released'
  <2>1. ~LastIs("list") /\ \A p \in Pin : ~Listed(p)
    <3>1. \A p \in Pin : p # NoPin
      BY LedAssumption
    <3> QED
      BY <1>1, <3>1 DEF LastIs, Listed
  <2>2. \A p \in Pin : dir'[p] = "off" /\ route'[p] = "gpio"
    BY <1>1, <2>1 DEF LedInv, Released
  <2> QED
    BY <2>2 DEF Released
<1> QED
  BY <1>1, <1>2, <1>4, <1>5, <1>6 DEF LedInv

LedIInv == todo \in Seq(Writes) /\ LedInv

LEMMA LedKeepsInit == LedInit => LedIInv
<1> SUFFICES ASSUME LedInit PROVE LedIInv
  OBVIOUS
<1>1. /\ todo = <<>> /\ timer \in {"null", "init"} /\ gpio = [c \in Channel |-> NoPin] /\ link = [c \in Channel |-> FALSE]
      /\ dir = [p \in Pin |-> "off"] /\ route = [p \in Pin |-> "gpio"]
  BY DEF LedInit
<1>2. todo \in Seq(Writes) /\ Count = 0 /\ Left \in [1 .. 0 -> Writes]
  BY <1>1 DEF Count, Left
<1>3. LedTypes /\ OneEach
  BY <1>1, <1>2 DEF LedTypes, OneEach
<1>4. /\ LastOnes /\ Unlisting /\ Listing /\ Resetting /\ Driving /\ Timing /\ Deleting /\ Released /\ Driven
  BY <1>1, <1>2 DEF LastOnes, Unlisting, Listing, Resetting, Driving, Timing, Deleting, LastIs, Released, Driven
<1> QED
  BY <1>2, <1>3, <1>4 DEF LedIInv, LedInv

LEMMA LedKeepsNext == LedIInv /\ [LedNext]_ledVars => LedIInv'
<1> SUFFICES ASSUME todo \in Seq(Writes), LedInv, [LedNext]_ledVars PROVE LedIInv'
  BY DEF LedIInv
<1>1. CASE Call
  BY <1>1, CallKeeps DEF LedIInv
<1>2. CASE Step
  BY <1>2, StepIs, TakenKeeps, ExpandedKeeps, RefusedKeeps DEF LedIInv
<1>3. CASE InitAgain
  BY <1>3, AgainKeeps DEF LedIInv
<1>4. ASSUME UNCHANGED <<gpio, link, dir, route, timer, todo>> PROVE LedIInv'
  <2>1. Count' = Count /\ Left' = Left
    BY <1>4 DEF Count, Left
  <2> QED
    BY <1>4, <2>1 DEF LedIInv, LedInv, LedTypes, OneEach, LastOnes, Unlisting, Listing, Resetting, Driving, Released,
                      Driven, Timing, Deleting, LastIs, Leaving, Listed
<1>5. CASE SetPattern
  BY <1>4, <1>5 DEF SetPattern, table, pins
<1>6. CASE Interrupt
  BY <1>4, <1>6 DEF Interrupt, Alarm, Look, Light, table, pins
<1>7. CASE UNCHANGED ledVars
  BY <1>4, <1>7 DEF ledVars, table, pins
<1> QED
  BY <1>1, <1>2, <1>3, <1>5, <1>6, <1>7 DEF LedNext

\* Between two calls a pin that no channel has is reset and not routed to a signal,
\* and ledcontrol_del always finds the timer disabled.
THEOREM PinsAreGivenBack == LedSpec => []ReleasedIsReset
<1>1. LedIInv => ReleasedIsReset
  <2> SUFFICES ASSUME LedIInv PROVE ReleasedIsReset
    OBVIOUS
  <2>1. timer # "lost"
    BY DEF LedIInv, LedInv, LedTypes
  <2>2. Idle => ~LastIs("list")
    BY DEF Idle, LastIs, Count
  <2> QED
    BY <2>1, <2>2 DEF LedIInv, LedInv, Released, ReleasedIsReset
<1> QED
  BY <1>1, LedKeepsInit, LedKeepsNext, PTL DEF LedSpec

\* The interrupt finds a pin in the table only while it is an output, or while
\* ledcontrol_detach is taking it out.
THEOREM TheTableIsDriven == LedSpec => []ListedIsOutput
<1>1. LedIInv => ListedIsOutput
  <2> SUFFICES ASSUME LedIInv, NEW c \in Channel, gpio[c] # NoPin, dir[gpio[c]] = "off"
               PROVE  \E n \in 1 .. Len(todo) : todo[n].op = "unlist" /\ todo[n].pin = gpio[c]
    BY DEF ListedIsOutput
  <2>1. PICK r \in 1 .. Count : Left[r].op = "unlist" /\ Left[r].pin = gpio[c]
    BY DEF LedIInv, LedInv, Driven
  <2>2. Count - r + 1 \in 1 .. Len(todo) /\ Left[r] = todo[Count - r + 1]
    BY LeftIs DEF LedIInv, Count
  <2> QED
    BY <2>1, <2>2
<1> QED
  BY <1>1, LedKeepsInit, LedKeepsNext, PTL DEF LedSpec

=============================================================================
