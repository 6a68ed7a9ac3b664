----------------------------- MODULE LoggerTasks -----------------------------
(***************************************************************************)
(* core/logger.c used by several tasks at once: the event loop, the        *)
(* driver's tasks (through esp_printfv) and the application all log, and   *)
(* log_write, log_str and log_clear share g_log without a lock.  Only the  *)
(* place of the next byte matters here, g_log.length; Logger has the text. *)
(*                                                                         *)
(* g_log is not volatile: where a function names g_log.length again, the   *)
(* build may load it anew or use the value this task loaded or stored last.*)
(***************************************************************************)
EXTENDS Naturals, FiniteSets

CONSTANTS
    Tasks,       \* the tasks that log
    LogSize,     \* LOG_SIZE: 7872 in the code
    Lengths,     \* lengths of the messages, shorter than the log
    Block,       \* size of the block log_str rotates with: 2048 in the code
    Width        \* g_log.length counts modulo this: 2^16 in the code

ASSUME LogSizeAssumption == /\ LogSize \in Nat /\ Width \in Nat /\ 2 * LogSize < Width
                            /\ Lengths \subseteq 1 .. LogSize - 1
                            /\ Block \in Nat \ {0}

VARIABLES
    length, wrap,     \* g_log.length, g_log.wrap
    at,               \* next step of each task
    len, num,         \* its locals len and num
    mine,             \* the length it loaded or stored last
    overlapped        \* history: two calls overlapped since the log was cleared

taskVars == <<length, wrap, at, len, num, mine, overlapped>>

TasksInit ==
    /\ length = 0 /\ wrap = FALSE
    /\ at = [t \in Tasks |-> "idle"]
    /\ len = [t \in Tasks |-> 0] /\ num = len /\ mine = len
    /\ overlapped = FALSE

Calling == {t \in Tasks : at[t] # "idle"}
Alone(t) == Calling \subseteq {t}

\* What task t may find when it names g_log.length.
Seen(t) == {mine[t], length}

Goto(t, step) == at' = [at EXCEPT ![t] = step]
Keep(t, v)    == mine' = [mine EXCEPT ![t] = v]
Store(t, v)   == length' = v % Width /\ Keep(t, v % Width)

\* A call returns; what its locals held is forgotten.
Leave(t) ==
    /\ Goto(t, "idle")
    /\ len' = [len EXCEPT ![t] = 0] /\ num' = [num EXCEPT ![t] = 0]

Enter(t, step) ==
    /\ at[t] = "idle" /\ Goto(t, step)
    /\ mine' = [mine EXCEPT ![t] = length]
    /\ overlapped' = (overlapped \/ ~Alone(t))

-----------------------------------------------------------------------------
(* log_write *)

WriteBegin(t) ==
    /\ Enter(t, "measure")
    /\ \E n \in Lengths : len' = [len EXCEPT ![t] = n]
    /\ UNCHANGED <<length, wrap, num>>

\* Faulty variant: the end of the text is not looked at.
RoomForAll(l, n) == n

\* minu(sizeof(g_log.text) - g_log.length, len), where the difference is
\* unsigned: beyond the end of the text it is huge.
Room(l, n) == IF l > LogSize \/ LogSize - l >= n THEN n ELSE LogSize - l

Measure(t) ==
    /\ at[t] = "measure"
    /\ \E l \in Seen(t) :
          LET n == Room(l, len[t]) IN
          /\ Keep(t, l)
          /\ num' = [num EXCEPT ![t] = n]
          /\ Goto(t, IF n > 0 THEN "copy" ELSE "rest")
    /\ UNCHANGED <<length, wrap, len, overlapped>>

\* memcpy to g_log.text + g_log.length: nothing that is modelled changes.
CopyText(t) ==
    /\ at[t] = "copy" /\ Goto(t, "grow")
    /\ \E l \in Seen(t) : Keep(t, l)
    /\ UNCHANGED <<length, wrap, len, num, overlapped>>

Grow(t) ==
    /\ at[t] = "grow"
    /\ \E l \in Seen(t) : Store(t, l + num[t])
    /\ len' = [len EXCEPT ![t] = @ - num[t]]
    /\ Goto(t, IF len'[t] > 0 THEN "rest" ELSE "test")
    /\ UNCHANGED <<wrap, num, overlapped>>

\* The rest of the message goes to the start of the text.
WriteRest(t) ==
    /\ at[t] = "rest" /\ Goto(t, "test")
    /\ \E l \in Seen(t) : Store(t, l + len[t])
    /\ UNCHANGED <<wrap, len, num, overlapped>>

TestEnd(t) ==
    /\ at[t] = "test"
    /\ \E l \in Seen(t) :
          /\ Keep(t, l)
          /\ IF l >= LogSize THEN Goto(t, "subtract") /\ UNCHANGED <<len, num>> ELSE Leave(t)
    /\ UNCHANGED <<length, wrap, overlapped>>

\* Faulty variant: the flag alone is set.
SubtractNothing(t) ==
    /\ at[t] = "subtract" /\ Goto(t, "wrap")
    /\ UNCHANGED <<length, mine, wrap, len, num, overlapped>>

Subtract(t) ==
    /\ at[t] = "subtract" /\ Goto(t, "wrap")
    /\ \E l \in Seen(t) : Store(t, l + Width - LogSize)
    /\ UNCHANGED <<wrap, len, num, overlapped>>

SetWrap(t) ==
    /\ at[t] = "wrap" /\ wrap' = TRUE /\ Leave(t)
    /\ UNCHANGED <<length, mine, overlapped>>

-----------------------------------------------------------------------------
(* log_clear and log_str *)

ClearLength(t) ==
    /\ at[t] = "idle" /\ Goto(t, "unwrap")
    /\ Store(t, 0)
    /\ overlapped' = ~Alone(t)
    /\ UNCHANGED <<wrap, len, num>>

ClearWrap(t) ==
    /\ at[t] = "unwrap" /\ wrap' = FALSE /\ Leave(t)
    /\ UNCHANGED <<length, mine, overlapped>>

StrBegin(t) ==
    /\ wrap /\ Enter(t, "turn")
    /\ UNCHANGED <<length, wrap, len, num>>

\* One turn of the loop: its test, then the block's worth of bytes.
StrTurn(t) ==
    /\ at[t] = "turn"
    /\ \E l \in Seen(t) :
          /\ Keep(t, l)
          /\ num' = [num EXCEPT ![t] = IF l < Block THEN l ELSE Block]
          /\ Goto(t, IF l > 0 THEN "shrink" ELSE "straight")
    /\ UNCHANGED <<length, wrap, len, overlapped>>

StrShrink(t) ==
    /\ at[t] = "shrink" /\ Goto(t, "turn")
    /\ \E l \in Seen(t) : Store(t, l + Width - num[t])
    /\ UNCHANGED <<wrap, len, num, overlapped>>

StrStraight(t) ==
    /\ at[t] = "straight" /\ wrap' = FALSE /\ Goto(t, "whole")
    /\ UNCHANGED <<length, mine, len, num, overlapped>>

StrWhole(t) ==
    /\ at[t] = "whole" /\ Store(t, LogSize) /\ Leave(t)
    /\ UNCHANGED <<wrap, overlapped>>

-----------------------------------------------------------------------------

Writing(t) == \/ Measure(t) \/ CopyText(t) \/ Grow(t) \/ WriteRest(t)
              \/ TestEnd(t) \/ Subtract(t) \/ SetWrap(t)
StrSteps(t) == StrTurn(t) \/ StrShrink(t) \/ StrStraight(t) \/ StrWhole(t)
InCall(t)  == Writing(t) \/ ClearWrap(t) \/ StrSteps(t)

TasksNext == \E t \in Tasks : WriteBegin(t) \/ ClearLength(t) \/ StrBegin(t) \/ InCall(t)

\* The scheduler runs every task that is inside a call.
TasksFairness == \A t \in Tasks : WF_taskVars(InCall(t))

TasksSpec == TasksInit /\ [][TasksNext]_taskVars /\ TasksFairness

-----------------------------------------------------------------------------
(* Properties *)

TasksTypeOK ==
    /\ length \in 0 .. Width - 1 /\ {wrap, overlapped} \subseteq BOOLEAN
    /\ at \in [Tasks -> {"idle", "measure", "copy", "grow", "rest", "test", "subtract",
                         "wrap", "unwrap", "turn", "shrink", "straight", "whole"}]
    /\ len \in [Tasks -> 0..LogSize] /\ num \in [Tasks -> Nat]
    /\ mine \in [Tasks -> 0 .. Width - 1]

\* Until two calls overlap, every copy lies within the text and a call leaves
\* length within it.  log_clear without a call in progress makes this true again.
CopiesStayInside ==
    ~overlapped => /\ \A t \in Tasks : at[t] = "copy" => length + num[t] <= LogSize
                   /\ Calling = {} => length <= LogSize

\* Calls that overlap can leave length far behind the end of the text, where even
\* a call that is alone goes on writing.  That does not last: once the calls do
\* not overlap any more and the log is still written to, length comes back.
LengthComesBack ==
    (<>[](Cardinality(Calling) <= 1) /\ []<>(\E t \in Tasks : at[t] = "grow"))
        => <>[](Calling = {} => length <= LogSize)
=============================================================================
