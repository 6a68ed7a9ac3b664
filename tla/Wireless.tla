------------------------------ MODULE Wireless ------------------------------
(***************************************************************************)
(* phy/wireless.c: the station interface as three concurrent parties see   *)
(* it.  The application task runs one wifi_* call at a time; the default   *)
(* event loop's task runs event_wifi and event_netif; the ESP-IDF driver   *)
(* (external) joins, loses and restarts the link and posts events, which   *)
(* are delivered in order but later.  The two tasks share g_evgroup.       *)
(*                                                                         *)
(* One step of the application task is the code between two calls that     *)
(* the driver or the event loop can observe.  Observer callbacks run       *)
(* inside raise_event, on the application task.                            *)
(***************************************************************************)
EXTENDS Integers, Sequences

CONSTANTS
    MaxRetries,   \* MAX_RETRIES: 10 in the code
    QueueLen      \* bound: capacity of the system event queue

ASSUME MaxRetriesAssumption == MaxRetries \in Nat
ASSUME QueueLenAssumption   == QueueLen \in Nat \ {0}

VARIABLES
    \* application task
    pc, call, ret, raised, told,
    \* g_config.up, and whether g_config.ssid is non-empty
    up, ssid,
    \* g_evgroup and g_retries
    bits, retries,
    \* event loop task: what it is about to do, and the events waiting for it
    loop, queue,
    \* driver: started or not, the link, and whether its config names an AP
    radio, link, target,
    \* history: see Ghosts below
    attempts, losses, leased, clean, refused

appVars   == <<pc, call, ret, raised, told, up, ssid>>
loopVars  == <<loop, retries, attempts, losses>>
radioVars == <<radio, link, target>>
vars == <<pc, call, ret, raised, told, up, ssid, bits, retries, loop, queue,
          radio, link, target, attempts, losses, leased, clean, refused>>

(***************************************************************************)
(* Ghosts, none of them read by the model:                                 *)
(*   attempts  calls of esp_wifi_connect since the last STA_START          *)
(*   losses    STA_DISCONNECTED handled since the last STA_START           *)
(*   leased    a GOT_IP of the current session was handled                 *)
(*   clean     no event of an earlier session was handled since the bits   *)
(*             were last cleared                                           *)
(*   refused   the driver refused a connect request since then             *)
(* A session begins when phy_connect clears the bits; "stale" marks the    *)
(* queued events that were posted before.                                  *)
(***************************************************************************)

Calls  == {"none", "up", "down", "scan", "destroy"}
Kinds  == {"STA_START", "STA_DISCONNECTED", "GOT_IP"}
Events == [kind : Kinds, stale : BOOLEAN]
Notes  == {"BEGIN", "DONE", "ERROR", "UP", "DOWN", "CONNECT"}
PCs    == {"idle", "disable", "stop", "enable", "enableStart", "connect",
           "clear", "connectStart", "wait", "scan", "scanning", "deinit",
           "gone"}

Fresh(kind) == [kind |-> kind, stale |-> FALSE]

\* Posting blocks the poster while the queue is full.
Post(kind) == Len(queue) < QueueLen /\ queue' = Append(queue, Fresh(kind))

\* raise_event, for each of es in turn; status is the last of UP, DOWN and
\* CONNECT that an observer has then been told.
Raise(es, status) == raised' = raised \o es /\ told' = status

Quiet == UNCHANGED <<raised, told>>

Return(r) == pc' = "idle" /\ ret' = r /\ UNCHANGED <<call, ssid>>
Goto(l)   == pc' = l /\ UNCHANGED <<call, ret, ssid>>

Init ==
    /\ pc = "idle" /\ call = "none" /\ ret = "ok" /\ raised = <<>> /\ told = "DOWN"
    /\ up = FALSE /\ ssid = FALSE
    /\ bits = {} /\ retries = 0
    /\ loop = "ready" /\ queue = <<>>
    /\ radio = "off" /\ link = "down" /\ target = FALSE
    /\ attempts = 0 /\ losses = 0 /\ leased = FALSE /\ clean = TRUE /\ refused = FALSE

-----------------------------------------------------------------------------
(* The application task: entry of a call *)

Enter(c, l) ==
    /\ pc = "idle"
    /\ pc' = l /\ call' = c /\ raised' = <<>>
    /\ UNCHANGED <<ret, told, up, ssid, bits, queue, loopVars, radioVars,
                   leased, clean, refused>>

\* wifi_set(WIFI_UP), wifi_set(WIFI_DOWN), wifi_destroy: all start with phy_disable.
SetUp   == Enter("up", "disable")
SetDown == Enter("down", "disable")
Destroy == Enter("destroy", "disable")

\* wifi_set(WIFI_SSID): only whether the name is empty matters to the control.
SetSsid ==
    /\ pc = "idle"
    /\ ssid' \in BOOLEAN
    /\ UNCHANGED <<pc, call, ret, raised, told, up, bits, queue, loopVars,
                   radioVars, leased, clean, refused>>

\* wifi_scan: enables the interface first when it is down.
Scan == Enter("scan", IF up THEN "scan" ELSE "enable")

-----------------------------------------------------------------------------
(* phy_disable *)

\* esp_wifi_disconnect, when g_config.up.  The driver tells the event loop.
Disconnect ==
    /\ pc = "disable" /\ up
    /\ IF link = "down" THEN UNCHANGED <<link, queue>>
                        ELSE Post("STA_DISCONNECTED") /\ link' = "down"
    /\ Goto("stop") /\ Quiet
    /\ UNCHANGED <<up, bits, loopVars, radio, target, leased, clean, refused>>

\* Where each caller of phy_disable continues once DOWN has been raised.
Disabled ==
    /\ up' = FALSE
    /\ Raise(<<"DOWN">>, "DOWN")
    /\ \/ call = "up" /\ ssid /\ Goto("connect")
       \/ call = "up" /\ ~ssid /\ Goto("enable")
       \/ call = "down" /\ Return("ok")
       \/ call = "destroy" /\ Goto("deinit")

\* Faulty variant: phy_disable forgets esp_wifi_stop.
StopLeavesRadio ==
    /\ pc = "stop"
    /\ Disabled
    /\ UNCHANGED <<bits, queue, loopVars, radioVars, leased, clean, refused>>

\* esp_wifi_stop and WIFI_MODE_NULL; a link that came back is lost again.
Stop ==
    /\ pc = "stop"
    /\ IF link = "down" THEN UNCHANGED queue ELSE Post("STA_DISCONNECTED")
    /\ link' = "down" /\ radio' = "off"
    /\ Disabled
    /\ UNCHANGED <<bits, loopVars, target, leased, clean, refused>>

AlreadyDown ==
    /\ pc = "disable" /\ ~up
    /\ Disabled
    /\ UNCHANGED <<bits, queue, loopVars, radioVars, leased, clean, refused>>

-----------------------------------------------------------------------------
(* phy_enable: called by wifi_set(WIFI_UP) without an SSID, and by wifi_scan *)

EnableBegin ==
    /\ pc = "enable"
    /\ target' = FALSE
    /\ Raise(<<"BEGIN">>, told) /\ Goto("enableStart")
    /\ UNCHANGED <<up, bits, queue, loopVars, radio, link, leased, clean, refused>>

EnableOk ==
    /\ pc = "enableStart"
    /\ Post("STA_START") /\ radio' = "on" /\ up' = TRUE
    /\ Raise(<<"DONE", "UP">>, "UP")
    /\ IF call = "scan" THEN Goto("scan") ELSE Return("ok")
    /\ UNCHANGED <<bits, loopVars, link, target, leased, clean, refused>>

\* Faulty variant: a failed start is not reported to the observers.
EnableFailsSilently ==
    /\ pc = "enableStart"
    /\ Return(IF call = "scan" THEN "ok" ELSE "fail") /\ Quiet
    /\ UNCHANGED <<up, bits, queue, loopVars, radioVars, leased, clean, refused>>

\* esp_wifi_start failed.  wifi_scan raises ERROR a second time and returns -0.
EnableFails ==
    /\ pc = "enableStart"
    /\ IF call = "scan" THEN Raise(<<"ERROR", "ERROR">>, told) /\ Return("ok")
                        ELSE Raise(<<"ERROR">>, told) /\ Return("fail")
    /\ UNCHANGED <<up, bits, queue, loopVars, radioVars, leased, clean, refused>>

-----------------------------------------------------------------------------
(* phy_connect *)

\* BEGIN, mode, configuration; up is set before the radio is started.
ConnectBegin ==
    /\ pc = "connect"
    /\ target' = TRUE /\ up' = TRUE
    /\ Raise(<<"BEGIN">>, told) /\ Goto("clear")
    /\ UNCHANGED <<bits, queue, loopVars, radio, link, leased, clean, refused>>

\* Faulty variant: only FAIL is cleared.
ClearFailOnly == bits' = bits \ {"FAIL"}

\* xEventGroupClearBits(CONNECTED | FAIL).
ClearBits == bits' = {}

ConnectClear ==
    /\ pc = "clear"
    /\ ClearBits
    /\ queue' = [i \in DOMAIN queue |-> [queue[i] EXCEPT !.stale = TRUE]]
    /\ leased' = FALSE /\ clean' = TRUE /\ refused' = FALSE
    /\ Goto("connectStart") /\ Quiet
    /\ UNCHANGED <<up, loopVars, radioVars>>

ConnectStart ==
    /\ pc = "connectStart"
    /\ Post("STA_START") /\ radio' = "on"
    /\ Goto("wait") /\ Quiet
    /\ UNCHANGED <<up, bits, loopVars, link, target, leased, clean, refused>>

\* esp_wifi_start failed: g_config.up stays true.
StartFails ==
    /\ pc = "connectStart"
    /\ Raise(<<"ERROR">>, told) /\ Return("fail")
    /\ UNCHANGED <<up, bits, queue, loopVars, radioVars, leased, clean, refused>>

\* xEventGroupWaitBits returned: CONNECTED wins over FAIL; no bit is cleared.
WaitOk ==
    /\ pc = "wait" /\ "CONNECTED" \in bits
    /\ Raise(<<"DONE", "CONNECT">>, "CONNECT") /\ Return("ok")
    /\ UNCHANGED <<up, bits, queue, loopVars, radioVars, leased, clean, refused>>

\* Faulty variant: a failed join marks the interface down without stopping it.
WaitFailsDown ==
    /\ pc = "wait" /\ bits = {"FAIL"}
    /\ Raise(<<"ERROR">>, told) /\ Return("fail")
    /\ up' = FALSE
    /\ UNCHANGED <<bits, queue, loopVars, radioVars, leased, clean, refused>>

WaitFails ==
    /\ pc = "wait" /\ bits = {"FAIL"}
    /\ Raise(<<"ERROR">>, told) /\ Return("fail")
    /\ UNCHANGED <<up, bits, queue, loopVars, radioVars, leased, clean, refused>>

-----------------------------------------------------------------------------
(* wifi_scan, once the interface is up *)

ScanBegin ==
    /\ pc = "scan"
    /\ Raise(<<"BEGIN">>, told) /\ Goto("scanning")
    /\ UNCHANGED <<up, bits, queue, loopVars, radioVars, leased, clean, refused>>

\* The list was read to its end: esp_wifi_scan_get_ap_record said ESP_FAIL.
ScanOk ==
    /\ pc = "scanning" /\ radio = "on"
    /\ Raise(<<"DONE">>, told) /\ Return("ok")
    /\ UNCHANGED <<up, bits, queue, loopVars, radioVars, leased, clean, refused>>

\* "fail": the driver refused the scan or a record.  "ok": the caller's buffer
\* was too small; rc is ESP_OK, so the call raises ERROR but returns -0.
ScanFails ==
    /\ pc = "scanning"
    /\ \E r \in (IF radio = "on" THEN {"ok", "fail"} ELSE {"fail"}) : Return(r)
    /\ Raise(<<"ERROR">>, told)
    /\ UNCHANGED <<up, bits, queue, loopVars, radioVars, leased, clean, refused>>

-----------------------------------------------------------------------------
(* wifi_destroy, after phy_disable, and wifi_create *)

\* Deleting the event loop waits for a running handler and drops the queue.
Deinit ==
    /\ pc = "deinit" /\ loop = "ready"
    /\ pc' = "gone" /\ queue' = <<>> /\ link' = "down" /\ radio' = "off"
    /\ Quiet
    /\ UNCHANGED <<call, ret, up, ssid, bits, loopVars, target, leased, clean, refused>>

Create ==
    /\ pc = "gone"
    /\ pc' = "idle" /\ call' = "none" /\ ret' = "ok" /\ told' = "DOWN"
    /\ up' = FALSE /\ ssid' = FALSE /\ bits' = {} /\ retries' = 0
    /\ target' = FALSE /\ attempts' = 0 /\ losses' = 0
    /\ leased' = FALSE /\ clean' = TRUE /\ refused' = FALSE
    /\ UNCHANGED <<raised, loop, queue, radio, link>>

-----------------------------------------------------------------------------
(* The event loop task *)

Taken ==
    /\ loop = "ready" /\ queue # <<>>
    /\ queue' = Tail(queue)
    /\ clean' = (clean /\ ~Head(queue).stale)
    /\ UNCHANGED <<appVars, radioVars, refused>>

\* event_wifi, WIFI_EVENT_STA_START.
HandleStart ==
    /\ Taken /\ Head(queue).kind = "STA_START"
    /\ retries' = MaxRetries
    /\ loop' = "connect"
    /\ attempts' = 0 /\ losses' = 0
    /\ UNCHANGED <<bits, leased>>

\* event_wifi, WIFI_EVENT_STA_DISCONNECTED: "if (g_retries-- < 0)".
GiveUp == bits' = bits \cup {"FAIL"} /\ UNCHANGED loop
Retry  == loop' = "connect" /\ UNCHANGED bits

Disconnected(verdict) ==
    /\ Taken /\ Head(queue).kind = "STA_DISCONNECTED"
    /\ retries' = retries - 1
    /\ losses' = losses + 1
    /\ verdict
    /\ UNCHANGED <<attempts, leased>>

\* Faulty variants: the test is made after the decrement, or allows one more;
\* the failure is not signalled; a link that had an address is not retried.
DisconnectedEarly  == Disconnected(IF retries < 1 THEN GiveUp ELSE Retry)
DisconnectedLate   == Disconnected(IF retries < -1 THEN GiveUp ELSE Retry)
DisconnectedSilent == Disconnected(IF retries < 0 THEN UNCHANGED <<bits, loop>> ELSE Retry)
DisconnectedOnce   == Disconnected(IF retries < 0 \/ leased THEN GiveUp ELSE Retry)

HandleDisconnected == Disconnected(IF retries < 0 THEN GiveUp ELSE Retry)

\* event_netif, IP_EVENT_STA_GOT_IP.
HandleGotIp ==
    /\ Taken /\ Head(queue).kind = "GOT_IP"
    /\ bits' = bits \cup {"CONNECTED"}
    /\ leased' = (leased \/ ~Head(queue).stale)
    /\ UNCHANGED loopVars

\* The esp_wifi_connect of both handlers; its result is ignored.  The driver
\* starts joining, or refuses for a reason of its own (a scan is running, it is
\* out of memory), or has nothing to do.
CanJoin == radio = "on" /\ link = "down" /\ target

Connect ==
    /\ loop = "connect" /\ loop' = "ready"
    /\ attempts' = attempts + 1
    /\ IF CanJoin
       THEN \/ link' = "joining" /\ UNCHANGED refused
            \/ refused' = TRUE /\ UNCHANGED link
       ELSE UNCHANGED <<link, refused>>
    /\ UNCHANGED <<appVars, bits, retries, losses, queue, radio, target, leased, clean>>

-----------------------------------------------------------------------------
(* The driver (external) *)

DriverOnly == UNCHANGED <<appVars, bits, loopVars, radio, target, leased, clean, refused>>

Associate == link = "joining" /\ link' = "associated" /\ UNCHANGED queue /\ DriverOnly
Lease     == link = "associated" /\ link' = "ip" /\ Post("GOT_IP") /\ DriverOnly

\* The access point rejects the join, DHCP is cut short, or a live link drops.
Lose(from) == link = from /\ link' = "down" /\ Post("STA_DISCONNECTED") /\ DriverOnly

-----------------------------------------------------------------------------

AppStep ==
    \/ Disconnect \/ Stop \/ AlreadyDown
    \/ EnableBegin \/ EnableOk \/ EnableFails
    \/ ConnectBegin \/ ConnectClear \/ ConnectStart \/ StartFails
    \/ WaitOk \/ WaitFails
    \/ ScanBegin \/ ScanOk \/ ScanFails
    \/ Deinit

AppCall == SetUp \/ SetDown \/ SetSsid \/ Scan \/ Destroy \/ Create

LoopStep == HandleStart \/ HandleDisconnected \/ HandleGotIp \/ Connect

Joining    == Associate \/ Lose("joining")
Addressing == Lease \/ Lose("associated")

Next == AppCall \/ AppStep \/ LoopStep \/ Joining \/ Addressing \/ Lose("ip")

\* The tasks are scheduled, and the driver ends a join one way or the other.
\* Nothing obliges a DHCP client that no server answers to give up, the application
\* to make a call or a live link to drop.
Fairness == WF_vars(AppStep) /\ WF_vars(LoopStep) /\ WF_vars(Joining)

Spec == Init /\ [][Next]_vars /\ Fairness

-----------------------------------------------------------------------------
(* Properties *)

\* Types, and the event queue within its capacity.
TypeOK ==
    /\ pc \in PCs /\ call \in Calls /\ ret \in {"ok", "fail"}
    /\ raised \in Seq(Notes) /\ told \in {"UP", "DOWN", "CONNECT"}
    /\ up \in BOOLEAN /\ ssid \in BOOLEAN
    /\ bits \subseteq {"CONNECTED", "FAIL"} /\ retries \in Int
    /\ loop \in {"ready", "connect"}
    /\ queue \in Seq(Events) /\ Len(queue) <= QueueLen
    /\ radio \in {"off", "on"} /\ target \in BOOLEAN
    /\ link \in {"down", "joining", "associated", "ip"}
    /\ attempts \in Nat /\ losses \in Nat
    /\ leased \in BOOLEAN /\ clean \in BOOLEAN /\ refused \in BOOLEAN

\* The radio is never left running behind g_config.up: phy_disable decides by
\* that flag alone whether to stop the driver, on every path through a failed
\* start, a failed join, a scan and wifi_destroy.
RadioOwned == radio = "on" => up

\* phy_connect gives up only after a real effort: unless an event of an earlier
\* session was handled since the bits were cleared, a FAIL seen by its wait
\* stands for MaxRetries + 2 lost links of this session.
FailIsEarned ==
    pc = "wait" /\ clean /\ "FAIL" \in bits => losses >= MaxRetries + 2

\* phy_connect succeeds only on an address of its own session, under the same
\* condition: a CONNECTED left by an earlier session cannot end the wait.
LeaseIsReal ==
    pc = "wait" /\ clean /\ "CONNECTED" \in bits => leased

\* The driver is asked to connect at most MaxRetries + 2 times per start of the
\* interface, whatever events of earlier sessions arrive in between: the
\* retries of event_wifi never run away.
RetryBudget == attempts <= MaxRetries + 2

\* What MAX_RETRIES and the log line "Maximum retries reached" say: after the
\* first attempt at most MaxRetries more follow.
AtMostMaxRetries == attempts <= 1 + MaxRetries

\* The result of wifi_set(WIFI_UP / WIFI_DOWN) agrees with the interface at the
\* moment it is returned, although driver and event loop ran all along.
CallResultHolds ==
    [][pc # "idle" /\ pc' = "idle" /\ ret' = "ok" =>
         /\ call = "up"   => up' /\ radio' = "on" /\ (ssid => told' = "CONNECT")
         /\ call = "down" => ~up' /\ radio' = "off" /\ link' = "down"]_vars

\* Observers can trust what raise_event tells them of a call's progress and of
\* the radio, on every path of every call: the contract is WifiEvents, which is
\* given every event that is raised, the second ERROR of a failed scan included.
Observed == INSTANCE WifiEvents
    WITH calling <- pc \notin {"idle", "gone"}, heard <- raised, on <- (radio = "on")
ObserverContract == Observed!Spec

\* Every call returns, whatever events of earlier sessions come in between: the
\* unbounded wait of phy_connect is ended by a verdict of the event loop.  Two
\* things keep it waiting, and only these: a connect request that the driver
\* refused, which nothing repeats, and an access point that is joined and for ever
\* neither leases an address nor drops the link.
CallReturns ==
    \/ <>[](link = "associated")
    \/ pc # "idle" ~> (pc \in {"idle", "gone"} \/ refused)

\* A link that drops is taken up again until the budget of the session is used
\* up, the driver refuses, or the application turns to something else.
LinkRetried ==
    (pc = "idle" /\ up /\ radio = "on" /\ target /\ link = "down")
        ~> (link # "down" \/ retries < 0 \/ refused \/ pc # "idle")
=============================================================================
