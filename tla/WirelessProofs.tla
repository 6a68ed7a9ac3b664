--------------------------- MODULE WirelessProofs ---------------------------
(***************************************************************************)
(* Theorems about Wireless for every MAX_RETRIES and every queue capacity. *)
(* Liveness (CallReturns, LinkRetried) is left to TLC.                     *)
(***************************************************************************)
EXTENDS Wireless, SequenceTheorems, TLAPS

-----------------------------------------------------------------------------
(* Type correctness *)

\* Posting keeps the queue well typed and within its capacity.
LEMMA PostType ==
    ASSUME queue \in Seq(Events), Len(queue) <= QueueLen, NEW k \in Kinds, Post(k)
    PROVE  queue' \in Seq(Events) /\ Len(queue') <= QueueLen
<1>1. Fresh(k) \in Events
  BY DEF Fresh, Events
<1>2. QED
  BY <1>1, QueueLenAssumption DEF Post

\* Raising events keeps what observers saw well typed.
LEMMA RaiseType ==
    ASSUME raised \in Seq(Notes), NEW es \in Seq(Notes),
           NEW s \in {"UP", "DOWN", "CONNECT"}, Raise(es, s)
    PROVE  raised' \in Seq(Notes) /\ told' \in {"UP", "DOWN", "CONNECT"}
BY DEF Raise

\* The literal sequences of events that the code raises are well typed.
LEMMA LiteralNotes ==
    /\ <<"BEGIN">> \in Seq(Notes) /\ <<"ERROR">> \in Seq(Notes)
    /\ <<"DOWN">> \in Seq(Notes) /\ <<"DONE">> \in Seq(Notes)
    /\ <<"DONE", "UP">> \in Seq(Notes) /\ <<"DONE", "CONNECT">> \in Seq(Notes)
    /\ <<"ERROR", "ERROR">> \in Seq(Notes)
BY DEF Notes

\* phy_disable's tail: whatever the caller, the variables it sets keep their types.
LEMMA DisabledType ==
    ASSUME TypeOK, call \in {"up", "down", "destroy"}, Disabled
    PROVE  /\ pc' \in PCs /\ call' \in Calls /\ ret' \in {"ok", "fail"}
           /\ raised' \in Seq(Notes) /\ told' \in {"UP", "DOWN", "CONNECT"}
           /\ up' \in BOOLEAN /\ ssid' \in BOOLEAN
<1>1. raised' \in Seq(Notes) /\ told' \in {"UP", "DOWN", "CONNECT"}
  BY RaiseType, LiteralNotes DEF TypeOK, Disabled
<1>2. QED
  BY <1>1 DEF TypeOK, Disabled, Return, Goto, PCs, Calls

\* Which call is in progress where, and what it has done to up, radio and link.
Control ==
    /\ pc \in {"disable", "stop"} => call \in {"up", "down", "destroy"}
    /\ pc \in {"enable", "enableStart"} => call = "scan" \/ (call = "up" /\ ~ssid)
    /\ pc \in {"connect", "clear", "connectStart", "wait"} => call = "up"
    /\ pc \in {"scan", "scanning"} => call = "scan"
    /\ pc \in {"deinit", "gone"} => call = "destroy"
    /\ pc \in {"clear", "connectStart", "wait"} => up
    /\ pc = "wait" => radio = "on"
    /\ pc \in {"deinit", "gone"} => radio = "off"
    /\ pc \in {"deinit", "gone"} => told = "DOWN"
    /\ radio = "off" => link = "down"

\* Requests made and requests still owed by the event loop, against the retries left.
Pending == IF loop = "connect" THEN 1 ELSE 0

Budget ==
    /\ attempts + Pending <= MaxRetries + 2
    /\ retries >= -1 => attempts + Pending + retries <= MaxRetries + 1

IInv == TypeOK /\ Control /\ RadioOwned /\ Budget

LEMMA InitIInv == Init => IInv
<1> SUFFICES ASSUME Init PROVE IInv
  OBVIOUS
<1>1. TypeOK
  <2>1. raised \in Seq(Notes) /\ queue \in Seq(Events) /\ Len(queue) <= QueueLen
    BY EmptySeq, QueueLenAssumption DEF Init
  <2>2. bits \subseteq {"CONNECTED", "FAIL"}
    BY DEF Init
  <2>3. /\ pc \in PCs /\ call \in Calls /\ retries \in Int /\ attempts \in Nat /\ losses \in Nat
        /\ ret \in {"ok", "fail"} /\ told \in {"UP", "DOWN", "CONNECT"}
    BY DEF Init, PCs, Calls
  <2>4. /\ loop \in {"ready", "connect"} /\ radio \in {"off", "on"}
        /\ link \in {"down", "joining", "associated", "ip"}
    BY DEF Init
  <2>5. /\ up \in BOOLEAN /\ ssid \in BOOLEAN /\ target \in BOOLEAN
        /\ leased \in BOOLEAN /\ clean \in BOOLEAN /\ refused \in BOOLEAN
    BY DEF Init
  <2>6. QED
    BY <2>1, <2>2, <2>3, <2>4, <2>5 DEF TypeOK
<1>2. Control /\ RadioOwned
  BY DEF Init, Control, RadioOwned
<1>3. Budget
  BY MaxRetriesAssumption DEF Init, Budget, Pending
<1>4. QED
  BY <1>1, <1>2, <1>3 DEF IInv

\* Every action of the application task between two calls.
LEMMA CallTypes == ASSUME TypeOK, AppCall PROVE TypeOK'
<1> USE DEF TypeOK, PCs, Calls, loopVars, radioVars
<1>1. CASE SetUp
  BY <1>1, EmptySeq DEF SetUp, Enter
<1>4. CASE SetDown
  BY <1>4, EmptySeq DEF SetDown, Enter
<1>5. CASE Destroy
  BY <1>5, EmptySeq DEF Destroy, Enter
<1>6. CASE Scan
  <2>1. pc' \in PCs
    BY <1>6 DEF Scan, Enter
  <2>2. QED
    BY <1>6, <2>1, EmptySeq DEF Scan, Enter
<1>2. CASE SetSsid
  BY <1>2 DEF SetSsid
<1>3. CASE Create
  <2>1. raised' \in Seq(Notes) /\ bits' \subseteq {"CONNECTED", "FAIL"}
    BY <1>3, EmptySeq DEF Create
  <2>2. /\ pc' \in PCs /\ call' \in Calls /\ retries' \in Int
        /\ ret' \in {"ok", "fail"} /\ told' \in {"UP", "DOWN", "CONNECT"}
        /\ attempts' \in Nat /\ losses' \in Nat
    BY <1>3 DEF Create
  <2>3. /\ up' \in BOOLEAN /\ ssid' \in BOOLEAN /\ target' \in BOOLEAN
        /\ leased' \in BOOLEAN /\ clean' \in BOOLEAN /\ refused' \in BOOLEAN
    BY <1>3 DEF Create
  <2>4. UNCHANGED <<loop, queue, radio, link>>
    BY <1>3 DEF Create
  <2>5. QED
    BY <2>1, <2>2, <2>3, <2>4
<1>7. QED
  BY <1>1, <1>2, <1>3, <1>4, <1>5, <1>6 DEF AppCall

LEMMA AppTypes == ASSUME TypeOK, Control, AppStep PROVE TypeOK'
<1> USE DEF TypeOK, loopVars, radioVars
<1>1. CASE Disconnect
  <2>1. queue' \in Seq(Events) /\ Len(queue') <= QueueLen
    BY <1>1, PostType DEF Disconnect, Kinds
  <2>2. QED
    BY <1>1, <2>1 DEF Disconnect, Goto, Quiet, PCs
<1>2. CASE Stop
  <2>1. queue' \in Seq(Events) /\ Len(queue') <= QueueLen
    BY <1>2, PostType DEF Stop, Kinds
  <2>2. QED
    BY <1>2, <2>1, DisabledType DEF Stop, Control
<1>3. CASE AlreadyDown
  BY <1>3, DisabledType DEF AlreadyDown, Control
<1>4. CASE EnableBegin
  <2>1. raised' \in Seq(Notes) /\ told' \in {"UP", "DOWN", "CONNECT"}
    BY <1>4, RaiseType, LiteralNotes DEF EnableBegin
  <2>2. QED
    BY <1>4, <2>1 DEF EnableBegin, Goto, PCs
<1>5. CASE EnableOk
  <2>1. queue' \in Seq(Events) /\ Len(queue') <= QueueLen
    BY <1>5, PostType DEF EnableOk, Kinds
  <2>2. raised' \in Seq(Notes) /\ told' \in {"UP", "DOWN", "CONNECT"}
    BY <1>5, RaiseType, LiteralNotes DEF EnableOk
  <2>3. QED
    BY <1>5, <2>1, <2>2 DEF EnableOk, Goto, Return, PCs
<1>6. CASE EnableFails
  <2>1. raised' \in Seq(Notes) /\ told' \in {"UP", "DOWN", "CONNECT"}
    BY <1>6, RaiseType, LiteralNotes DEF EnableFails
  <2>2. QED
    BY <1>6, <2>1 DEF EnableFails, Return, PCs
<1>7. CASE ConnectBegin
  <2>1. raised' \in Seq(Notes) /\ told' \in {"UP", "DOWN", "CONNECT"}
    BY <1>7, RaiseType, LiteralNotes DEF ConnectBegin
  <2>2. QED
    BY <1>7, <2>1 DEF ConnectBegin, Goto, PCs
<1>8. CASE ConnectClear
  <2>1. queue' \in Seq(Events) /\ Len(queue') = Len(queue)
    <3>0. DOMAIN queue = 1..Len(queue) /\ \A i \in 1..Len(queue) : queue[i] \in Events
      OBVIOUS
    <3>1. queue' \in [1..Len(queue) -> Events]
      <4>1. \A i \in 1..Len(queue) : [queue[i] EXCEPT !.stale = TRUE] \in Events
        BY <3>0 DEF Events
      <4>2. QED
        BY <1>8, <3>0, <4>1 DEF ConnectClear
    <3>2. queue' \in Seq(Events)
      BY <3>1, LenProperties, SeqDef
    <3>3. QED
      BY <3>1, <3>2, LenProperties
  <2>2. QED
    BY <1>8, <2>1 DEF ConnectClear, ClearBits, Goto, Quiet, PCs
<1>9. CASE ConnectStart
  <2>1. queue' \in Seq(Events) /\ Len(queue') <= QueueLen
    BY <1>9, PostType DEF ConnectStart, Kinds
  <2>2. QED
    BY <1>9, <2>1 DEF ConnectStart, Goto, Quiet, PCs
<1>10. CASE StartFails
  <2>1. raised' \in Seq(Notes) /\ told' \in {"UP", "DOWN", "CONNECT"}
    BY <1>10, RaiseType, LiteralNotes DEF StartFails
  <2>2. QED
    BY <1>10, <2>1 DEF StartFails, Return, PCs
<1>16. CASE WaitFails
  <2>1. raised' \in Seq(Notes) /\ told' \in {"UP", "DOWN", "CONNECT"}
    BY <1>16, RaiseType, LiteralNotes DEF WaitFails
  <2>2. QED
    BY <1>16, <2>1 DEF WaitFails, Return, PCs
<1>11. CASE WaitOk
  <2>1. raised' \in Seq(Notes) /\ told' \in {"UP", "DOWN", "CONNECT"}
    BY <1>11, RaiseType, LiteralNotes DEF WaitOk
  <2>2. QED
    BY <1>11, <2>1 DEF WaitOk, Return, PCs
<1>12. CASE ScanBegin
  <2>1. raised' \in Seq(Notes) /\ told' \in {"UP", "DOWN", "CONNECT"}
    BY <1>12, RaiseType, LiteralNotes DEF ScanBegin
  <2>2. QED
    BY <1>12, <2>1 DEF ScanBegin, Goto, PCs
<1>13. CASE ScanOk
  <2>1. raised' \in Seq(Notes) /\ told' \in {"UP", "DOWN", "CONNECT"}
    BY <1>13, RaiseType, LiteralNotes DEF ScanOk
  <2>2. QED
    BY <1>13, <2>1 DEF ScanOk, Return, PCs
<1>14. CASE ScanFails
  <2>1. raised' \in Seq(Notes) /\ told' \in {"UP", "DOWN", "CONNECT"}
    BY <1>14, RaiseType, LiteralNotes DEF ScanFails
  <2>2. QED
    BY <1>14, <2>1 DEF ScanFails, Return, PCs
<1>15. CASE Deinit
  BY <1>15, QueueLenAssumption DEF Deinit, Quiet, PCs
<1>17. QED
  BY <1>1, <1>2, <1>3, <1>4, <1>5, <1>6, <1>7, <1>8, <1>9, <1>10, <1>11,
     <1>12, <1>13, <1>14, <1>15, <1>16 DEF AppStep

\* The event loop's handlers and the driver.
LEMMA LoopTypes == ASSUME TypeOK, LoopStep PROVE TypeOK'
<1> USE MaxRetriesAssumption, QueueLenAssumption DEF TypeOK, appVars, loopVars, radioVars
<1>1. ASSUME Taken
      PROVE  /\ queue' \in Seq(Events) /\ Len(queue') <= QueueLen
             /\ Head(queue).stale \in BOOLEAN
  <2>1. Head(queue) \in Events
    BY <1>1 DEF Taken
  <2>2. QED
    BY <1>1, <2>1 DEF Taken, Events
<1>2. CASE HandleStart
  BY <1>1, <1>2 DEF HandleStart, Taken
<1>3. CASE HandleDisconnected
  <2>1. bits' \subseteq {"CONNECTED", "FAIL"} /\ loop' \in {"ready", "connect"}
    BY <1>3 DEF HandleDisconnected, Disconnected, GiveUp, Retry
  <2>2. QED
    BY <1>1, <1>3, <2>1 DEF HandleDisconnected, Disconnected, GiveUp, Retry, Taken
<1>4. CASE HandleGotIp
  BY <1>1, <1>4 DEF HandleGotIp, Taken
<1>5. CASE Connect
  <2>1. link' \in {"down", "joining", "associated", "ip"} /\ refused' \in BOOLEAN
    BY <1>5 DEF Connect
  <2>2. QED
    BY <1>5, <2>1 DEF Connect
<1>6. QED
  BY <1>2, <1>3, <1>4, <1>5 DEF LoopStep

LEMMA DriverTypes ==
    ASSUME TypeOK, Joining \/ Addressing \/ Lose("ip") PROVE TypeOK'
<1> USE DEF TypeOK, DriverOnly, appVars, loopVars
<1>1. CASE Associate
  BY <1>1 DEF Associate
<1>2. CASE Lease
  BY <1>2, PostType DEF Lease, Kinds
<1>3. CASE \E l \in {"joining", "associated", "ip"} : Lose(l)
  BY <1>3, PostType DEF Lose, Kinds
<1>4. QED
  BY <1>1, <1>2, <1>3 DEF Joining, Addressing

-----------------------------------------------------------------------------
(* The inductive invariant *)

LEMMA ControlStep ==
    ASSUME TypeOK, Control, RadioOwned, Next PROVE Control' /\ RadioOwned'
<1> USE DEF Control, RadioOwned, appVars, loopVars, radioVars
<1>1. CASE AppCall
  BY <1>1 DEF AppCall, SetUp, SetDown, SetSsid, Scan, Destroy, Create, Enter
<1>2. CASE Disconnect \/ Stop \/ AlreadyDown \/ Deinit
  <2>1. CASE Disconnect
    BY <2>1 DEF Disconnect, Goto, Quiet
  <2>2. CASE Stop
    BY <2>2 DEF Stop, Disabled, Goto, Return, Raise
  <2>3. CASE AlreadyDown
    BY <2>3 DEF AlreadyDown, Disabled, Goto, Return, Raise, TypeOK
  <2>4. CASE Deinit
    BY <2>4 DEF Deinit, Quiet
  <2>5. QED
    BY <1>2, <2>1, <2>2, <2>3, <2>4
<1>3. CASE EnableBegin \/ EnableOk \/ EnableFails
  BY <1>3 DEF EnableBegin, EnableOk, EnableFails, Goto, Return
<1>4. CASE ConnectBegin \/ ConnectClear \/ ConnectStart \/ StartFails
  BY <1>4 DEF ConnectBegin, ConnectClear, ConnectStart, StartFails, Goto, Return
<1>5. CASE WaitOk \/ WaitFails \/ ScanBegin \/ ScanOk \/ ScanFails
  BY <1>5 DEF WaitOk, WaitFails, ScanBegin, ScanOk, ScanFails, Goto, Return
<1>6. CASE LoopStep
  BY <1>6 DEF LoopStep, HandleStart, HandleDisconnected, Disconnected, GiveUp, Retry, HandleGotIp, Connect, CanJoin, Taken
<1>7. CASE Joining \/ Addressing \/ Lose("ip")
  BY <1>7 DEF Joining, Addressing, Associate, Lease, Lose, DriverOnly
<1>8. QED
  BY <1>1, <1>2, <1>3, <1>4, <1>5, <1>6, <1>7 DEF Next, AppStep

\* Only the event loop and wifi_create touch what Budget counts.
LEMMA BudgetStep == ASSUME TypeOK, Budget, Next PROVE Budget'
<1> USE MaxRetriesAssumption DEF Budget, Pending, TypeOK, loopVars
<1>1. CASE UNCHANGED <<loop, retries, attempts>>
  BY <1>1
<1>2. CASE Create
  BY <1>2 DEF Create
<1>3. CASE HandleStart
  BY <1>3 DEF HandleStart
<1>4. CASE HandleDisconnected
  BY <1>4 DEF HandleDisconnected, Disconnected, GiveUp, Retry, Taken
<1>5. CASE Connect
  BY <1>5 DEF Connect
<1>6. Next => \/ UNCHANGED <<loop, retries, attempts>>
              \/ Create \/ HandleStart \/ HandleDisconnected \/ Connect
  <2>1. AppCall => UNCHANGED <<loop, retries, attempts>> \/ Create
    BY DEF AppCall, SetUp, SetDown, SetSsid, Scan, Destroy, Enter
  <2>2. AppStep => UNCHANGED <<loop, retries, attempts>>
    BY DEF AppStep, Disconnect, Stop, AlreadyDown, EnableBegin, EnableOk, EnableFails,
           ConnectBegin, ConnectClear, ConnectStart, StartFails, WaitOk, WaitFails,
           ScanBegin, ScanOk, ScanFails, Deinit
  <2>3. HandleGotIp \/ Joining \/ Addressing \/ Lose("ip")
          => UNCHANGED <<loop, retries, attempts>>
    BY DEF HandleGotIp, Joining, Addressing, Associate, Lease, Lose, DriverOnly
  <2>4. QED
    BY <2>1, <2>2, <2>3 DEF Next, LoopStep
<1>7. QED
  BY <1>1, <1>2, <1>3, <1>4, <1>5, <1>6

LEMMA Stuttering == ASSUME IInv, UNCHANGED vars PROVE IInv'
BY DEF vars, IInv, TypeOK, Control, RadioOwned, Budget, Pending

LEMMA IInvStep == IInv /\ [Next]_vars => IInv'
<1> SUFFICES ASSUME IInv, [Next]_vars PROVE IInv'
  OBVIOUS
<1>1. CASE Next
  <2>1. TypeOK'
    BY <1>1, CallTypes, AppTypes, LoopTypes, DriverTypes DEF Next, IInv
  <2>2. Control' /\ RadioOwned' /\ Budget'
    BY <1>1, ControlStep, BudgetStep DEF IInv
  <2>3. QED
    BY <2>1, <2>2 DEF IInv
<1>2. CASE UNCHANGED vars
  BY <1>2, Stuttering
<1>3. QED
  BY <1>1, <1>2

LEMMA Invariance == Spec => []IInv
<1>1. QED
  BY InitIInv, IInvStep, PTL DEF Spec

\* Every variable keeps its type and the event queue stays within its capacity,
\* for every MAX_RETRIES and every capacity.
THEOREM TypeCorrect == Spec => []TypeOK
<1>1. IInv => TypeOK
  BY DEF IInv
<1>2. QED
  BY <1>1, Invariance, PTL

\* The radio never runs behind g_config.up.
THEOREM RadioIsOwned == Spec => []RadioOwned
<1>1. IInv => RadioOwned
  BY DEF IInv
<1>2. QED
  BY <1>1, Invariance, PTL

\* event_wifi makes at most MAX_RETRIES + 2 connect requests per start.
THEOREM RetriesAreBounded == Spec => []RetryBudget
<1>1. IInv => RetryBudget
  BY MaxRetriesAssumption DEF IInv, Budget, Pending, RetryBudget, TypeOK
<1>2. QED
  BY <1>1, Invariance, PTL

\* The result a call reports agrees with the interface when it returns.
THEOREM ResultsHold == Spec => CallResultHolds
<1> DEFINE Agrees == pc # "idle" /\ pc' = "idle" /\ ret' = "ok" =>
                        /\ call = "up"   => up' /\ radio' = "on" /\ (ssid => told' = "CONNECT")
                        /\ call = "down" => ~up' /\ radio' = "off" /\ link' = "down"
<1>1. ASSUME IInv, Next PROVE Agrees
  <2> USE <1>1 DEF IInv, TypeOK, Control, RadioOwned, Agrees, radioVars
  <2>1. CASE AppCall
    BY <2>1 DEF AppCall, SetUp, SetDown, SetSsid, Scan, Destroy, Create, Enter
  <2>2. CASE Stop \/ AlreadyDown
    BY <2>2 DEF Stop, AlreadyDown, Disabled, Goto, Return
  <2>3. CASE EnableOk \/ EnableFails \/ WaitOk
    BY <2>3 DEF EnableOk, EnableFails, WaitOk, Goto, Return, Raise
  <2>4. CASE StartFails \/ WaitFails \/ ScanOk \/ ScanFails
    BY <2>4 DEF StartFails, WaitFails, ScanOk, ScanFails, Return
  <2>5. CASE \/ Disconnect \/ EnableBegin \/ ConnectBegin \/ ConnectClear
             \/ ConnectStart \/ ScanBegin \/ Deinit
    BY <2>5 DEF Disconnect, EnableBegin, ConnectBegin, ConnectClear, ConnectStart,
                ScanBegin, Deinit, Goto
  <2>6. CASE LoopStep \/ Joining \/ Addressing \/ Lose("ip")
    BY <2>6 DEF LoopStep, HandleStart, HandleDisconnected, Disconnected, GiveUp, Retry, HandleGotIp, Connect, Taken,
                Joining, Addressing, Associate, Lease, Lose, DriverOnly, appVars
  <2>7. QED
    BY <2>1, <2>2, <2>3, <2>4, <2>5, <2>6 DEF Next, AppStep
<1>2. IInv /\ [Next]_vars => [Agrees]_vars
  BY <1>1
<1>3. QED
  BY <1>2, Invariance, PTL DEF Spec, CallResultHolds

\* While only events of the current session have been handled, a CONNECTED bit
\* is the work of an address of that session.
LeaseInv == clean /\ "CONNECTED" \in bits => leased

\* phy_connect's success is backed by an address of its own session.
THEOREM LeasesAreReal == Spec => []LeaseIsReal
<1>1. Init => LeaseInv
  BY DEF Init, LeaseInv
<1>2. TypeOK /\ LeaseInv /\ [Next]_vars => LeaseInv'
  <2> SUFFICES ASSUME TypeOK, LeaseInv, [Next]_vars PROVE LeaseInv'
    OBVIOUS
  <2> USE DEF LeaseInv, TypeOK
  <2>1. CASE UNCHANGED <<bits, leased, clean>>
    BY <2>1
  <2>2. CASE Create \/ ConnectClear
    BY <2>2 DEF Create, ConnectClear, ClearBits
  <2>3. CASE HandleStart \/ HandleDisconnected
    <3>1. UNCHANGED leased /\ (clean' => clean)
      BY <2>3 DEF HandleStart, HandleDisconnected, Disconnected, Taken
    <3>2. "CONNECTED" \in bits' => "CONNECTED" \in bits
      BY <2>3 DEF HandleStart, HandleDisconnected, Disconnected, GiveUp, Retry
    <3>3. QED
      BY <3>1, <3>2
  <2>4. CASE HandleGotIp
    <3>1. clean' => leased'
      BY <2>4 DEF HandleGotIp, Taken
    <3>2. QED
      BY <3>1
  <2>5. AppCall => UNCHANGED <<bits, leased, clean>> \/ Create
    BY DEF AppCall, SetUp, SetDown, SetSsid, Scan, Destroy, Enter
  <2>6. AppStep => UNCHANGED <<bits, leased, clean>> \/ ConnectClear
    BY DEF AppStep, Disconnect, Stop, AlreadyDown, EnableBegin, EnableOk, EnableFails,
           ConnectBegin, ConnectStart, StartFails, WaitOk, WaitFails,
           ScanBegin, ScanOk, ScanFails, Deinit
  <2>7. Connect \/ Joining \/ Addressing \/ Lose("ip") => UNCHANGED <<bits, leased, clean>>
    BY DEF Connect, Joining, Addressing, Associate, Lease, Lose, DriverOnly
  <2>8. QED
    BY <2>1, <2>2, <2>3, <2>4, <2>5, <2>6, <2>7 DEF Next, LoopStep, vars
<1>3. LeaseInv => LeaseIsReal
  BY DEF LeaseInv, LeaseIsReal
<1>4. QED
  BY <1>1, <1>2, <1>3, TypeCorrect, PTL DEF Spec

-----------------------------------------------------------------------------
(* A failed join has lost the link MaxRetries + 2 times *)

\* The events of a session follow those of earlier ones in the queue, and the first
\* of them is its STA_START; no other start is posted while phy_connect waits.
StartComes ==
    \E i \in 1 .. Len(queue) :
        /\ queue[i].kind = "STA_START" /\ ~queue[i].stale
        /\ \A j \in 1 .. Len(queue) : j < i => queue[j].stale
        /\ \A j \in 1 .. Len(queue) : j > i => queue[j].kind # "STA_START"
StartIsOver == \A j \in 1 .. Len(queue) : queue[j].kind # "STA_START"
AllStale    == \A j \in 1 .. Len(queue) : queue[j].stale

\* From its STA_START on losses and retries left add up, and FAIL is set behind the
\* last one only.
Counted == losses + retries = MaxRetries /\ ("FAIL" \in bits => losses >= MaxRetries + 2)

SessionInv ==
    /\ pc \in {"connect", "clear", "connectStart"} => radio = "off"
    /\ pc = "connectStart" => AllStale /\ (clean => "FAIL" \notin bits)
    /\ pc = "wait" /\ clean => \/ StartComes /\ "FAIL" \notin bits
                               \/ StartIsOver /\ Counted

\* A post that is not a start leaves the order of the session's events as it is.
LEMMA PostInSession ==
    ASSUME TypeOK, NEW k \in {"STA_DISCONNECTED", "GOT_IP"}, Post(k)
    PROVE  (StartComes => StartComes') /\ (StartIsOver => StartIsOver')
<1>1. /\ Len(queue') = Len(queue) + 1 /\ Len(queue) \in Nat
      /\ \A j \in 1 .. Len(queue) : queue'[j] = queue[j]
      /\ queue'[Len(queue) + 1].kind = k
  BY DEF Post, Fresh, TypeOK
<1>2. StartIsOver => StartIsOver'
  BY <1>1 DEF StartIsOver
<1>3. ASSUME StartComes PROVE StartComes'
  <2>1. PICK i \in 1 .. Len(queue) :
            /\ queue[i].kind = "STA_START" /\ ~queue[i].stale
            /\ \A j \in 1 .. Len(queue) : j < i => queue[j].stale
            /\ \A j \in 1 .. Len(queue) : j > i => queue[j].kind # "STA_START"
    BY <1>3 DEF StartComes
  <2>2. /\ i \in 1 .. Len(queue') /\ queue'[i].kind = "STA_START" /\ ~queue'[i].stale
        /\ \A j \in 1 .. Len(queue') : j < i => queue'[j].stale
        /\ \A j \in 1 .. Len(queue') : j > i => queue'[j].kind # "STA_START"
    BY <1>1, <2>1
  <2> QED
    BY <2>2 DEF StartComes
<1> QED
  BY <1>2, <1>3

\* The handler of an event takes the session's start or finds it still to come,
\* unless it takes an event of an earlier session.
LEMMA TakenInSession ==
    ASSUME TypeOK, Taken, ~Head(queue).stale
    PROVE  /\ StartComes => Head(queue).kind = "STA_START" /\ StartIsOver'
           /\ StartIsOver => Head(queue).kind # "STA_START" /\ StartIsOver'
<1>1. /\ Len(queue) \in Nat \ {0} /\ Head(queue) = queue[1] /\ Len(queue') = Len(queue) - 1
      /\ \A j \in 1 .. Len(queue) - 1 : queue'[j] = queue[j + 1]
  BY DEF Taken, TypeOK
<1>2. ASSUME StartIsOver PROVE Head(queue).kind # "STA_START" /\ StartIsOver'
  BY <1>1, <1>2 DEF StartIsOver
<1>3. ASSUME StartComes PROVE Head(queue).kind = "STA_START" /\ StartIsOver'
  <2>1. PICK i \in 1 .. Len(queue) :
            /\ queue[i].kind = "STA_START"
            /\ \A j \in 1 .. Len(queue) : j < i => queue[j].stale
            /\ \A j \in 1 .. Len(queue) : j > i => queue[j].kind # "STA_START"
    BY <1>3 DEF StartComes
  <2>2. i = 1
    BY <1>1, <2>1
  <2> QED
    BY <1>1, <2>1, <2>2 DEF StartIsOver
<1> QED
  BY <1>2, <1>3

LEMMA SessionStep == ASSUME IInv, SessionInv, Next PROVE SessionInv'
<1> USE DEF SessionInv, IInv, TypeOK, Control, RadioOwned
<1>1. CASE pc' \notin {"connect", "clear", "connectStart", "wait"}
  BY <1>1
<1>2. CASE Stop \/ AlreadyDown
  BY <1>2 DEF Stop, AlreadyDown, Disabled, Goto, Return, radioVars
<1>3. CASE ConnectBegin
  BY <1>3 DEF ConnectBegin, Goto
<1>4. CASE ConnectClear
  <2>1. \A j \in 1 .. Len(queue') : queue'[j].stale
    <3>1. /\ queue \in Seq(Events) /\ DOMAIN queue = 1 .. Len(queue)
          /\ \A j \in 1 .. Len(queue) : queue[j] \in Events
      OBVIOUS
    <3>2. queue' = [j \in 1 .. Len(queue) |-> [queue[j] EXCEPT !.stale = TRUE]]
      BY <1>4, <3>1 DEF ConnectClear
    <3>3. Len(queue') = Len(queue)
      BY <3>1, <3>2, LenProperties
    <3> QED
      BY <3>1, <3>2, <3>3 DEF Events
  <2>2. bits' = {} /\ pc' = "connectStart" /\ radio' = "off"
    BY <1>4 DEF ConnectClear, ClearBits, Goto, radioVars
  <2> QED
    BY <2>1, <2>2 DEF AllStale
<1>5. CASE ConnectStart
  <2>1. pc' = "wait" /\ clean' = clean /\ (clean => "FAIL" \notin bits')
    BY <1>5 DEF ConnectStart, Goto
  <2>2. /\ Len(queue') = Len(queue) + 1 /\ Len(queue) \in Nat
        /\ \A j \in 1 .. Len(queue) : queue'[j] = queue[j] /\ queue[j].stale
        /\ queue'[Len(queue) + 1] = [kind |-> "STA_START", stale |-> FALSE]
    BY <1>5 DEF ConnectStart, Post, Fresh, AllStale
  <2>3. StartComes'
    BY <2>2 DEF StartComes
  <2>4. pc' = "wait" /\ clean' => StartComes' /\ "FAIL" \notin bits'
    BY <2>1, <2>3
  <2> HIDE DEF TypeOK, Control
  <2> QED
    BY <2>1, <2>4
<1>6. ASSUME Taken, pc \in {"connectStart", "wait"}, clean' PROVE pc = "wait" /\ clean /\ ~Head(queue).stale
  <2>1. clean /\ ~Head(queue).stale
    BY <1>6, Zenon DEF Taken
  <2>2. Len(queue) \in Nat \ {0} /\ Head(queue) = queue[1]
    BY <1>6 DEF Taken
  <2>3. pc # "connectStart"
    BY <2>1, <2>2 DEF AllStale
  <2> QED
    BY <1>6, <2>1, <2>3
<1>7. CASE HandleStart
  <2>1. UNCHANGED <<pc, radio, bits>> /\ Taken /\ losses' = 0 /\ retries' = MaxRetries
        /\ Head(queue).kind = "STA_START"
    BY <1>7 DEF HandleStart, Taken, appVars, radioVars
  <2>2. pc = "connectStart" => AllStale'
    BY <2>1 DEF Taken, AllStale
  <2>3. ASSUME pc = "wait", clean' PROVE StartIsOver' /\ Counted'
    <3>1. clean /\ ~Head(queue).stale
      BY <1>6, <2>1, <2>3
    <3>2. StartIsOver' /\ "FAIL" \notin bits
      BY <2>1, <2>3, <3>1, TakenInSession
    <3> QED
      BY <2>1, <3>2, MaxRetriesAssumption DEF Counted
  <2> QED
    BY <1>6, <2>1, <2>2, <2>3
<1>8. CASE HandleDisconnected
  <2>1. /\ UNCHANGED <<pc, radio>> /\ Taken /\ losses' = losses + 1 /\ retries' = retries - 1
        /\ Head(queue).kind # "STA_START"
        /\ "FAIL" \in bits' => "FAIL" \in bits \/ retries < 0
    BY <1>8 DEF HandleDisconnected, Disconnected, GiveUp, Retry, Taken, appVars, radioVars
  <2>2. pc = "connectStart" => AllStale'
    BY <2>1 DEF Taken, AllStale
  <2>3. ASSUME pc = "wait", clean' PROVE StartIsOver' /\ Counted'
    <3>1. clean /\ ~Head(queue).stale
      BY <1>6, <2>1, <2>3
    <3>2. StartIsOver' /\ Counted
      BY <2>1, <2>3, <3>1, TakenInSession
    <3> QED
      BY <2>1, <3>2, MaxRetriesAssumption DEF Counted
  <2> QED
    BY <1>6, <2>1, <2>2, <2>3
<1>9. CASE HandleGotIp
  <2>1. /\ UNCHANGED <<pc, radio, losses, retries>> /\ Taken /\ Head(queue).kind # "STA_START"
        /\ "FAIL" \in bits' => "FAIL" \in bits
    BY <1>9 DEF HandleGotIp, Taken, appVars, radioVars, loopVars
  <2>2. pc = "connectStart" => AllStale'
    BY <2>1 DEF Taken, AllStale
  <2>3. ASSUME pc = "wait", clean' PROVE StartIsOver' /\ Counted'
    <3>1. clean /\ ~Head(queue).stale
      BY <1>6, <2>1, <2>3
    <3>2. StartIsOver' /\ Counted
      BY <2>1, <2>3, <3>1, TakenInSession
    <3> QED
      BY <2>1, <3>2 DEF Counted
  <2> QED
    BY <1>6, <2>1, <2>2, <2>3
<1>10. CASE Connect
  BY <1>10 DEF Connect, appVars, AllStale, StartComes, StartIsOver, Counted
<1>11. ASSUME UNCHANGED <<pc, radio, bits, losses, retries, clean>>,
              UNCHANGED queue \/ (radio = "on" /\ \E k \in {"STA_DISCONNECTED", "GOT_IP"} : Post(k))
       PROVE  SessionInv'
  <2>1. (StartComes => StartComes') /\ (StartIsOver => StartIsOver')
    BY <1>11, PostInSession DEF StartComes, StartIsOver
  <2>2. Counted' <=> Counted
    BY <1>11 DEF Counted
  <2>3. pc = "connectStart" => AllStale'
    BY <1>11 DEF AllStale
  <2> QED
    BY <1>11, <2>1, <2>2, <2>3
<1>12. CASE Joining \/ Addressing \/ Lose("ip")
  BY <1>11, <1>12 DEF Joining, Addressing, Associate, Lease, Lose, DriverOnly, appVars, loopVars
<1>13. CASE AppCall \/ Deinit \/ Disconnect \/ EnableBegin \/ EnableOk \/ EnableFails \/ StartFails
            \/ WaitOk \/ WaitFails \/ ScanBegin \/ ScanOk \/ ScanFails
  BY <1>1, <1>13 DEF AppCall, SetUp, SetDown, SetSsid, Scan, Destroy, Create, Enter, Deinit, Disconnect,
       EnableBegin, EnableOk, EnableFails, StartFails, WaitOk, WaitFails, ScanBegin, ScanOk, ScanFails,
       Goto, Return
<1> QED
  BY <1>2, <1>3, <1>4, <1>5, <1>7, <1>8, <1>9, <1>10, <1>12, <1>13 DEF Next, AppStep, LoopStep

\* phy_connect reports a failed join only when, in its own session, the link was lost
\* once more than MAX_RETRIES + 1 attempts allow, for every capacity of the queue.
THEOREM FailuresAreEarned == Spec => []FailIsEarned
<1>1. Init => SessionInv
  BY DEF Init, SessionInv
<1>2. IInv /\ SessionInv /\ [Next]_vars => SessionInv'
  <2>1. SessionInv /\ UNCHANGED vars => SessionInv'
    BY DEF vars, SessionInv, AllStale, StartComes, StartIsOver, Counted
  <2> QED
    BY <2>1, SessionStep
<1>3. SessionInv => FailIsEarned
  BY DEF SessionInv, FailIsEarned, Counted
<1>4. QED
  BY <1>1, <1>2, <1>3, Invariance, PTL DEF Spec

-----------------------------------------------------------------------------
(* Refinement: Wireless keeps the promise of WifiEvents to its observers *)

Busy == Observed!Open

\* Where in the code a BEGIN is open.
BusyAt == Busy <=> pc \in {"enableStart", "clear", "connectStart", "wait", "scanning"}

\* BEGIN opens a bracket; DONE and ERROR close it, whatever status follows them;
\* DOWN does neither.
LEMMA Opens == ASSUME raised \in Seq(Notes), raised' = raised \o <<"BEGIN">> PROVE Busy'
<1>1. /\ Len(raised) + 1 \in DOMAIN raised' /\ raised'[Len(raised) + 1] = "BEGIN"
      /\ \A j \in DOMAIN raised' : ~(j > Len(raised) + 1)
  OBVIOUS
<1>2. QED
  BY <1>1 DEF Busy, Observed!Open

LEMMA Closes ==
    ASSUME raised \in Seq(Notes), NEW m \in {"DONE", "ERROR"},
           NEW s \in {"UP", "CONNECT", "ERROR"},
           raised' = raised \o <<m>> \/ raised' = raised \o <<m, s>>
    PROVE  ~Busy'
<1>1. /\ Len(raised) + 1 \in DOMAIN raised' /\ raised'[Len(raised) + 1] \in {"DONE", "ERROR"}
      /\ \A i \in DOMAIN raised' : i > Len(raised) + 1 => raised'[i] # "BEGIN"
  OBVIOUS
<1>2. raised'[Len(raised) + 1] # "BEGIN" /\ DOMAIN raised' \subseteq Nat
  BY <1>1
<1>3. QED
  BY <1>1, <1>2 DEF Busy, Observed!Open

LEMMA Keeps == ASSUME raised \in Seq(Notes), raised' = raised \o <<"DOWN">>, ~Busy PROVE ~Busy'
<1>1. \A i \in DOMAIN raised' :
          (i \in DOMAIN raised /\ raised'[i] = raised[i]) \/ i = Len(raised) + 1
  OBVIOUS
<1>2. DOMAIN raised \subseteq DOMAIN raised' /\ raised'[Len(raised) + 1] = "DOWN"
  OBVIOUS
<1>3. \A i \in DOMAIN raised : raised'[i] = raised[i]
  OBVIOUS
<1>4. QED
  BY <1>1, <1>2, <1>3 DEF Busy, Observed!Open

LEMMA BusyInit == Init => BusyAt
BY DEF Init, BusyAt, Busy, Observed!Open

\* What wifi_scan has raised when it enables the interface, which is off.
ScanEnables ==
    /\ call = "scan" /\ pc = "enable" => raised = <<>> /\ ~up
    /\ call = "scan" /\ pc = "enableStart" => raised = <<"BEGIN">> /\ ~up

LEMMA ScanEnablesStep == ASSUME TypeOK, ScanEnables, Next PROVE ScanEnables'
<1> USE DEF ScanEnables
<1>1. CASE pc' \notin {"enable", "enableStart"}
  BY <1>1
<1>2. CASE AppCall
  BY <1>2 DEF AppCall, SetUp, SetDown, SetSsid, Scan, Destroy, Create, Enter
<1>3. CASE EnableBegin
  <2>1. <<>> \o <<"BEGIN">> = <<"BEGIN">>
    OBVIOUS
  <2>2. pc = "enable" /\ pc' = "enableStart" /\ call' = call /\ up' = up
    BY <1>3 DEF EnableBegin, Goto
  <2>3. raised' = raised \o <<"BEGIN">>
    BY <1>3 DEF EnableBegin, Raise
  <2> QED
    BY <2>1, <2>2, <2>3
<1>4. CASE Stop \/ AlreadyDown
  BY <1>4 DEF Stop, AlreadyDown, Disabled, Return, Goto
<1>5. CASE LoopStep \/ Joining \/ Addressing \/ Lose("ip")
  BY <1>5 DEF LoopStep, HandleStart, HandleDisconnected, Disconnected, HandleGotIp,
              Connect, Taken, Joining, Addressing, Associate, Lease, Lose, DriverOnly, appVars
<1>6. CASE \/ Disconnect \/ EnableOk \/ EnableFails \/ ConnectBegin \/ ConnectClear \/ ConnectStart
           \/ StartFails \/ WaitOk \/ WaitFails \/ ScanBegin \/ ScanOk \/ ScanFails \/ Deinit
  BY <1>1, <1>6 DEF Disconnect, EnableOk, EnableFails, ConnectBegin, ConnectClear, ConnectStart,
       StartFails, WaitOk, WaitFails, ScanBegin, ScanOk, ScanFails, Deinit, Goto, Return
<1> QED
  BY <1>2, <1>3, <1>4, <1>5, <1>6 DEF Next, AppStep

LEMMA BusyIsBoolean == (Busy \in BOOLEAN /\ Busy' \in BOOLEAN)
BY DEF Busy, Observed!Open

\* One lemma for both facts: what a step does to the bracket is what the
\* contract's step does to it.
LEMMA ContractStep ==
    ASSUME IInv, BusyAt, ScanEnables, Next PROVE BusyAt' /\ [Observed!Next]_(Observed!vars)
<1> DEFINE OpenPCs == {"enableStart", "clear", "connectStart", "wait", "scanning"}
           OutPCs  == {"idle", "gone"}
<1> USE BusyIsBoolean
    DEF IInv, TypeOK, Control, RadioOwned, BusyAt, Busy, Observed!Next, Observed!vars
<1>1. CASE AppCall
  <2>1. raised' = <<>> => ~Busy'
    BY DEF Observed!Open
  <2>2. CASE SetSsid
    BY <2>2 DEF SetSsid, Observed!Open, radioVars
  <2>3. CASE Create
    <3>1. UNCHANGED <<raised, told, radio>> /\ pc \in OutPCs /\ pc' \in OutPCs
      BY <2>3 DEF Create
    <3>2. Busy' = Busy
      BY <3>1 DEF Observed!Open
    <3>3. QED
      BY <3>1, <3>2
  <2>4. CASE SetUp \/ SetDown \/ Scan \/ Destroy
    <3>1. pc \notin OpenPCs /\ pc' \notin OpenPCs /\ pc \in OutPCs /\ pc' \notin OutPCs
      BY <2>4 DEF SetUp, SetDown, Scan, Destroy, Enter
    <3>2. raised' = <<>> /\ UNCHANGED <<told, radio>>
      BY <2>4 DEF SetUp, SetDown, Scan, Destroy, Enter, radioVars
    <3>3. QED
      BY <2>1, <3>1, <3>2 DEF Observed!Call
  <2>5. QED
    BY <1>1, <2>2, <2>3, <2>4 DEF AppCall
<1>2. CASE EnableBegin \/ ConnectBegin \/ ScanBegin
  <2>1. Busy' /\ UNCHANGED <<told, radio>> /\ raised' = raised \o <<"BEGIN">>
    BY <1>2, Opens DEF EnableBegin, ConnectBegin, ScanBegin, Raise, radioVars
  <2>2. /\ pc \notin OpenPCs /\ pc' \in OpenPCs
        /\ pc \notin OutPCs /\ pc' \notin OutPCs
    BY <1>2 DEF EnableBegin, ConnectBegin, ScanBegin, Goto
  <2>3. QED
    BY <2>1, <2>2 DEF Observed!Begin, Observed!Hear
<1>3. CASE EnableOk \/ WaitOk \/ ScanOk
  <2>1. ~Busy'
    BY <1>3, Closes DEF EnableOk, WaitOk, ScanOk, Raise
  <2>2. pc \in OpenPCs /\ pc' \notin OpenPCs /\ pc \notin OutPCs
    BY <1>3 DEF EnableOk, WaitOk, ScanOk, Goto, Return
  <2>3. \/ told' = "UP" /\ radio' = "on" /\ raised' = raised \o <<"DONE", "UP">>
        \/ told' = "CONNECT" /\ radio = "on" /\ radio' = "on" /\ raised' = raised \o <<"DONE", "CONNECT">>
        \/ told' = told /\ radio = "on" /\ radio' = "on" /\ raised' = raised \o <<"DONE">>
    BY <1>3 DEF EnableOk, WaitOk, ScanOk, Raise, radioVars
  <2>4. QED
    BY <2>1, <2>2, <2>3
       DEF Observed!Enabled, Observed!Connected, Observed!Scanned, Observed!Outcome, Observed!Hear
<1>4. CASE (EnableFails /\ call # "scan") \/ StartFails \/ WaitFails \/ ScanFails
  <2>1. ~Busy' /\ UNCHANGED <<told, radio>> /\ raised' = raised \o <<"ERROR">>
    BY <1>4, Closes DEF EnableFails, StartFails, WaitFails, ScanFails, Raise, radioVars
  <2>2. pc \in OpenPCs /\ pc' \notin OpenPCs /\ pc \notin OutPCs
    BY <1>4 DEF EnableFails, StartFails, WaitFails, ScanFails, Return
  <2>3. QED
    BY <2>1, <2>2 DEF Observed!Failed, Observed!Outcome, Observed!Hear
<1>12. CASE EnableFails /\ call = "scan"
  <2>1. ~Busy' /\ UNCHANGED <<told, radio>> /\ raised' = raised \o <<"ERROR", "ERROR">>
    BY <1>12, Closes DEF EnableFails, Raise, radioVars
  <2>2. pc \in OpenPCs /\ pc' = "idle" /\ pc \notin OutPCs
    BY <1>12 DEF EnableFails, Return
  <2>3. raised = <<"BEGIN">> /\ radio # "on"
    BY <1>12 DEF EnableFails, ScanEnables
  <2>4. QED
    BY <2>1, <2>2, <2>3 DEF Observed!FailedTwice, Observed!Hear
<1>5. CASE Stop \/ AlreadyDown
  <2>1. pc \notin OpenPCs /\ pc' \notin OpenPCs /\ pc \notin OutPCs
    BY <1>5 DEF Stop, AlreadyDown, Disabled, Goto, Return
  <2>2. ~Busy' /\ told' = "DOWN" /\ raised' = raised \o <<"DOWN">>
    BY <1>5, <2>1, Keeps DEF Stop, AlreadyDown, Disabled, Raise
  <2>3. radio' = "off"
    BY <1>5 DEF Stop, AlreadyDown, radioVars
  <2>4. QED
    BY <2>1, <2>2, <2>3 DEF Observed!Down, Observed!Hear
<1>6. CASE ConnectStart
  <2>1. Busy' = Busy /\ UNCHANGED <<raised, told>>
    BY <1>6 DEF ConnectStart, Quiet, Observed!Open
  <2>2. /\ pc \in OpenPCs /\ pc' \in OpenPCs /\ radio' = "on"
        /\ pc \notin OutPCs /\ pc' \notin OutPCs
    BY <1>6 DEF ConnectStart, Goto
  <2>3. QED
    BY <2>1, <2>2 DEF Observed!Start
<1>7. ASSUME UNCHANGED <<raised, told, radio>>,
             pc' \in OpenPCs <=> pc \in OpenPCs, pc' \in OutPCs <=> pc \in OutPCs
      PROVE  BusyAt' /\ [Observed!Next]_(Observed!vars)
  BY <1>7 DEF Observed!Open
<1>8. CASE Disconnect \/ ConnectClear
  <2>1. UNCHANGED <<raised, told, radio>>
    BY <1>8 DEF Disconnect, ConnectClear, Quiet, radioVars
  <2>2. pc' \in OpenPCs <=> pc \in OpenPCs
    BY <1>8 DEF Disconnect, ConnectClear, Goto
  <2>3. pc' \notin OutPCs /\ pc \notin OutPCs
    BY <1>8 DEF Disconnect, ConnectClear, Goto
  <2>4. QED
    BY <1>7, <2>1, <2>2, <2>3
<1>9. CASE Deinit
  <2>1. UNCHANGED <<raised, told, radio>> /\ Busy' = Busy
    BY <1>9 DEF Deinit, Quiet, Observed!Open
  <2>2. pc \notin OpenPCs /\ pc' \notin OpenPCs /\ pc \notin OutPCs /\ pc' \in OutPCs
    BY <1>9 DEF Deinit
  <2>3. QED
    BY <2>1, <2>2 DEF Observed!Return
<1>10. CASE LoopStep \/ Joining \/ Addressing \/ Lose("ip")
  <2>1. UNCHANGED <<raised, told, radio, pc>>
    BY <1>10 DEF LoopStep, HandleStart, HandleDisconnected, Disconnected, HandleGotIp,
                 Connect, Taken, Joining, Addressing, Associate, Lease, Lose,
                 DriverOnly, appVars, radioVars
  <2>2. QED
    BY <1>7, <2>1
<1>11. QED
  BY <1>1, <1>2, <1>3, <1>4, <1>12, <1>5, <1>6, <1>8, <1>9, <1>10 DEF Next, AppStep

\* Every behaviour of the module keeps the contract with its observers.
THEOREM KeepsContract == Spec => ObserverContract
<1>1. Init => Observed!Init /\ BusyAt /\ ScanEnables
  BY BusyInit DEF Init, Observed!Init, ScanEnables
<1>2. IInv /\ BusyAt /\ ScanEnables /\ [Next]_vars
        => BusyAt' /\ ScanEnables' /\ [Observed!Next]_(Observed!vars)
  <2>1. ASSUME BusyAt, ScanEnables, UNCHANGED vars
        PROVE  BusyAt' /\ ScanEnables' /\ UNCHANGED Observed!vars
    BY <2>1 DEF vars, BusyAt, Busy, ScanEnables, Observed!Open, Observed!vars
  <2>2. QED
    BY <2>1, ContractStep, ScanEnablesStep DEF IInv
<1>3. QED
  BY <1>1, <1>2, Invariance, PTL DEF Spec, ObserverContract, Observed!Spec
=============================================================================
