----------------------------- MODULE WifiEvents -----------------------------
(***************************************************************************)
(* What phy/wireless.c promises the observers of wifi_observer_add: which  *)
(* sequences of events a call raises, and what they say of the radio.      *)
(* Every BEGIN is answered, before the call returns, by DONE or by ERROR,  *)
(* and by one of them only: but for wifi_scan when it cannot enable the    *)
(* interface, which raises ERROR twice.  The radio changes hands only      *)
(* behind a BEGIN that is not answered yet, or together with DOWN; nothing *)
(* but a success moves the status up.  Wireless.tla is shown to implement  *)
(* this specification.                                                     *)
(***************************************************************************)
EXTENDS Naturals, Sequences

VARIABLES
    calling,   \* a wifi_* call is in progress
    heard,     \* every event the call has raised, or the last one did
    told,      \* the last of DOWN, UP and CONNECT that was raised
    on         \* the station interface is started

vars == <<calling, heard, told, on>>

\* A BEGIN that no DONE or ERROR has answered.
Open ==
    \E i \in DOMAIN heard :
        /\ heard[i] = "BEGIN"
        /\ \A j \in DOMAIN heard : j > i => heard[j] \notin {"DONE", "ERROR"}

Hear(events) == heard' = heard \o events

Init == calling = FALSE /\ heard = <<>> /\ told = "DOWN" /\ on = FALSE

Call   == ~calling /\ calling' = TRUE /\ heard' = <<>> /\ UNCHANGED <<told, on>>
Return == calling /\ ~Open /\ calling' = FALSE /\ UNCHANGED <<heard, told, on>>

\* BEGIN: an operation starts.
Begin == calling /\ ~Open /\ Hear(<<"BEGIN">>) /\ UNCHANGED <<calling, told, on>>

\* The radio is started on behalf of an operation that has not ended.
Start == calling /\ Open /\ on' = TRUE /\ UNCHANGED <<calling, heard, told>>

\* DONE or ERROR ends the operation, and may end the call.
Outcome(events) == calling /\ Open /\ Hear(events) /\ calling' \in BOOLEAN

Enabled   == Outcome(<<"DONE", "UP">>) /\ told' = "UP" /\ on' = TRUE
Connected == Outcome(<<"DONE", "CONNECT">>) /\ on /\ told' = "CONNECT" /\ UNCHANGED on

\* DONE of a scan: the status stays what it was.
Scanned == Outcome(<<"DONE">>) /\ on /\ UNCHANGED <<told, on>>

\* ERROR: the status stays what it was, whatever happened to the radio.
Failed == Outcome(<<"ERROR">>) /\ UNCHANGED <<told, on>>

\* The exception: a scan that could not enable the interface, which is off.  The
\* failure of phy_enable is reported by it and by wifi_scan again, for the only
\* BEGIN of the call.
FailedTwice ==
    /\ calling /\ heard = <<"BEGIN">> /\ ~on
    /\ Hear(<<"ERROR", "ERROR">>) /\ calling' = FALSE
    /\ UNCHANGED <<told, on>>

\* DOWN: raised outside any bracket, together with the radio going off.
Down ==
    /\ calling /\ ~Open /\ Hear(<<"DOWN">>)
    /\ told' = "DOWN" /\ on' = FALSE /\ calling' \in BOOLEAN

Next == \/ Call \/ Return \/ Begin \/ Start
        \/ Enabled \/ Connected \/ Scanned \/ Failed \/ FailedTwice \/ Down

Spec == Init /\ [][Next]_vars
=============================================================================
