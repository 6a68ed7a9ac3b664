-------------------------- MODULE LoggerProofs ----------------------------
(***************************************************************************)
(* core/logger.c needs no lock as long as calls do not overlap: every copy *)
(* stays within the text, for any number of tasks and any size of the log. *)
(* Used by one task, it keeps the last bytes of what was written.          *)
(***************************************************************************)
EXTENDS Logger, LoggerTasks, SequenceTheorems, TLAPS

\* How g_log.length is counted, where the count does not leave its type and
\* where one log is taken off.
LEMMA Counted ==
    ASSUME NEW n \in Nat
    PROVE  /\ n % Width \in 0 .. Width - 1
           /\ n < Width => n % Width = n
           /\ Width <= n /\ n < 2 * Width => n % Width = n - Width
BY LogSizeAssumption

LEMMA CountedLess ==
    ASSUME NEW n \in Nat, n < Width PROVE n % Width = n
BY Counted

LEMMA CountedZero == 0 % Width = 0
BY CountedLess, LogSizeAssumption

LEMMA CountedBack ==
    ASSUME NEW n \in Nat, NEW k \in Nat, k <= n, n < Width
    PROVE  /\ n + Width - k \in Nat
           /\ (n + Width - k) % Width = n - k
<1>1. n + Width - k \in Nat /\ Width \in Nat
  BY LogSizeAssumption
<1>2. CASE k = 0
  <2>1. n + Width - k = n + Width /\ Width <= n + Width /\ n + Width < 2 * Width
    BY <1>1, <1>2
  <2>2. (n + Width) % Width = (n + Width) - Width
    BY <1>1, <2>1, Counted
  <2>3. QED
    BY <1>1, <1>2, <2>1, <2>2
<1>3. QED
  BY <1>1, Counted

\* What the task that is in a call knows when no other is.
Step(t) ==
    /\ at[t] # "idle" => mine[t] = length
    /\ at[t] \in {"measure", "wrap", "unwrap", "turn", "straight", "whole"} => length <= LogSize
    /\ at[t] \in {"measure", "copy", "grow", "rest"} => len[t] < LogSize
    /\ at[t] = "measure" => len[t] > 0
    /\ at[t] \in {"copy", "grow"} => /\ num[t] <= len[t] /\ length + num[t] <= LogSize
                                     /\ num[t] = len[t] \/ length + num[t] = LogSize
    /\ at[t] = "rest" => length = LogSize
    /\ at[t] = "test" => length < 2 * LogSize
    /\ at[t] = "subtract" => LogSize <= length /\ length < 2 * LogSize
    /\ at[t] = "shrink" => length <= LogSize /\ num[t] <= length

Sole == \A t, u \in Tasks : at[t] # "idle" /\ at[u] # "idle" => t = u

IInv ==
    /\ length \in 0 .. Width - 1
    /\ at \in [Tasks -> {"idle", "measure", "copy", "grow", "rest", "test", "subtract",
                         "wrap", "unwrap", "turn", "shrink", "straight", "whole"}]
    /\ len \in [Tasks -> Nat] /\ num \in [Tasks -> Nat]
    /\ mine \in [Tasks -> 0 .. Width - 1]
    /\ \A t \in Tasks : at[t] \in {"copy", "grow"} => num[t] <= len[t]
    /\ \A t \in Tasks : at[t] = "shrink" => num[t] < Width
    /\ ~overlapped => /\ Sole /\ \A t \in Tasks : Step(t)
                      /\ (\A t \in Tasks : at[t] = "idle") => length <= LogSize

LEMMA LengthsFit == \A n \in Lengths : n < LogSize /\ n > 0
<1>1. \A n \in Lengths : n \in 1 .. LogSize - 1
  BY LogSizeAssumption
<1>2. QED
  BY <1>1, LogSizeAssumption

LEMMA InitStep == TasksInit => IInv
BY LogSizeAssumption DEF TasksInit, IInv, Sole, Step

\* What a step of task t may change, whatever the other tasks do.
Moves(t) ==
    /\ length' \in 0 .. Width - 1 /\ mine' \in [Tasks -> 0 .. Width - 1]
    /\ at' \in [Tasks -> {"idle", "measure", "copy", "grow", "rest", "test", "subtract",
                          "wrap", "unwrap", "turn", "shrink", "straight", "whole"}]
    /\ len' \in [Tasks -> Nat] /\ num' \in [Tasks -> Nat]
    /\ \A u \in Tasks \ {t} : at'[u] = at[u] /\ len'[u] = len[u] /\ num'[u] = num[u]
    /\ at'[t] \in {"copy", "grow"} => num'[t] <= len'[t]
    /\ at'[t] = "shrink" => num'[t] < Width

\* It is enough to look at the task that moves: without an overlap the others are
\* idle.
LEMMA OthersIdle ==
    ASSUME IInv, NEW t \in Tasks, at[t] # "idle", Moves(t), overlapped' = overlapped,
           ~overlapped => Step(t)' /\ (at'[t] = "idle" => length' <= LogSize)
    PROVE  IInv'
<1>1. \A u \in Tasks : /\ at'[u] \in {"copy", "grow"} => num'[u] <= len'[u]
                       /\ at'[u] = "shrink" => num'[u] < Width
  BY DEF IInv, Moves
<1>2. ASSUME ~overlapped PROVE Sole' /\ (\A u \in Tasks : Step(u)')
  <2>1. \A u \in Tasks \ {t} : at'[u] = "idle"
    BY <1>2 DEF IInv, Sole, Moves
  <2>2. Sole'
    BY <2>1 DEF Sole
  <2>3. \A u \in Tasks \ {t} : Step(u)'
    BY <2>1 DEF Step
  <2>4. QED
    BY <1>2, <2>2, <2>3
<1>3. ~overlapped => ((\A u \in Tasks : at'[u] = "idle") => length' <= LogSize)
  OBVIOUS
<1>4. QED
  BY <1>1, <1>2, <1>3 DEF IInv, Moves

\* What is known of the task that moves, alone or not.
LEMMA OfTask ==
    ASSUME IInv, NEW t \in Tasks
    PROVE  /\ length \in Nat /\ length < Width /\ mine[t] \in Nat /\ mine[t] < Width
           /\ len[t] \in Nat /\ num[t] \in Nat
           /\ Seen(t) \subseteq 0 .. Width - 1
           /\ ~overlapped => Step(t)
           /\ ~overlapped /\ at[t] # "idle" => Seen(t) = {length}
<1>1. length \in 0 .. Width - 1 /\ mine[t] \in 0 .. Width - 1 /\ len[t] \in Nat /\ num[t] \in Nat
  BY DEF IInv
<1>2. ~overlapped => Step(t)
  BY DEF IInv
<1>3. ~overlapped /\ at[t] # "idle" => Seen(t) = {length}
  BY <1>2 DEF Step, Seen
<1>4. QED
  BY <1>1, <1>2, <1>3, LogSizeAssumption DEF Seen

LEMMA WritingStep ==
    ASSUME IInv, NEW t \in Tasks, Writing(t) PROVE IInv'
<1> USE LogSizeAssumption DEF Goto, Keep
<1>0. /\ length \in Nat /\ length < Width /\ mine[t] \in Nat /\ mine[t] < Width
      /\ len[t] \in Nat /\ num[t] \in Nat
      /\ Seen(t) \subseteq 0 .. Width - 1
      /\ ~overlapped => Step(t)
      /\ ~overlapped /\ at[t] # "idle" => Seen(t) = {length}
  BY OfTask
<1>1. CASE Measure(t)
  <2>1. PICK l \in Seen(t) : LET n == Room(l, len[t]) IN
          /\ Keep(t, l)
          /\ num' = [num EXCEPT ![t] = n]
          /\ Goto(t, IF n > 0 THEN "copy" ELSE "rest")
    BY <1>1 DEF Measure
  <2>2. at[t] = "measure" /\ UNCHANGED <<length, wrap, len, overlapped>>
    BY <1>1 DEF Measure
  <2>3. Room(l, len[t]) \in Nat /\ Room(l, len[t]) <= len[t]
    BY <1>0, <2>1 DEF Room
  <2>4. Moves(t)
    BY <1>0, <2>1, <2>2, <2>3 DEF IInv, Moves
  <2>5. ASSUME ~overlapped PROVE Step(t)' /\ at'[t] # "idle"
    <3>1. l = length /\ Step(t)
      BY <1>0, <2>1, <2>2, <2>5
    <3>2. at'[t] = (IF Room(l, len[t]) > 0 THEN "copy" ELSE "rest") /\ mine'[t] = l
          /\ num'[t] = Room(l, len[t])
      BY <2>1 DEF IInv
    <3>3. length <= LogSize /\ len[t] < LogSize /\ len[t] > 0
      BY <2>2, <3>1 DEF Step
    <3>4. /\ Room(l, len[t]) = len[t] \/ length + Room(l, len[t]) = LogSize
          /\ length + Room(l, len[t]) <= LogSize
          /\ Room(l, len[t]) = 0 => length = LogSize
      BY <1>0, <2>2, <3>1, <3>3 DEF Room
    <3>5. QED
      BY <1>0, <2>2, <2>3, <3>1, <3>2, <3>3, <3>4 DEF Step
  <2>6. QED
    BY <2>2, <2>4, <2>5, OthersIdle
<1>2. CASE CopyText(t)
  <2>1. Moves(t)
    BY <1>0, <1>2 DEF CopyText, IInv, Moves
  <2>2. ASSUME ~overlapped PROVE Step(t)' /\ at'[t] # "idle"
    BY <1>0, <1>2, <2>2 DEF CopyText, IInv, Step
  <2>3. QED
    BY <1>2, <2>1, <2>2, OthersIdle DEF CopyText
<1>3. CASE Grow(t)
  <2>1. PICK l \in Seen(t) : Store(t, l + num[t])
    BY <1>3 DEF Grow
  <2>2. /\ at[t] = "grow" /\ UNCHANGED <<wrap, num, overlapped>>
        /\ len' = [len EXCEPT ![t] = @ - num[t]]
        /\ Goto(t, IF len'[t] > 0 THEN "rest" ELSE "test")
    BY <1>3 DEF Grow
  <2>3. num[t] <= len[t]
    BY <2>2 DEF IInv
  <2>4. /\ length' = (l + num[t]) % Width /\ length' \in 0 .. Width - 1
        /\ mine' = [mine EXCEPT ![t] = length']
    BY <1>0, <2>1, Counted DEF Store
  <2>5. /\ len'[t] = len[t] - num[t] /\ mine'[t] = length'
        /\ at'[t] = IF len[t] - num[t] > 0 THEN "rest" ELSE "test"
    BY <2>2, <2>4 DEF IInv
  <2>6. Moves(t)
    BY <1>0, <2>2, <2>3, <2>4, <2>5 DEF IInv, Moves
  <2>7. ASSUME ~overlapped PROVE Step(t)' /\ at'[t] # "idle"
    <3>1. l = length /\ Step(t)
      BY <1>0, <2>1, <2>2, <2>7
    <3>2. /\ length + num[t] <= LogSize /\ len[t] < LogSize
          /\ num[t] = len[t] \/ length + num[t] = LogSize
      BY <2>2, <3>1 DEF Step
    <3>3. length' = length + num[t]
      BY <1>0, <2>4, <3>1, <3>2, Counted
    <3>4. QED
      BY <1>0, <2>3, <2>5, <3>2, <3>3 DEF Step
  <2>8. QED
    BY <2>2, <2>6, <2>7, OthersIdle
<1>4. CASE WriteRest(t)
  <2>1. PICK l \in Seen(t) : Store(t, l + len[t])
    BY <1>4 DEF WriteRest
  <2>2. at[t] = "rest" /\ Goto(t, "test") /\ UNCHANGED <<wrap, len, num, overlapped>>
    BY <1>4 DEF WriteRest
  <2>3. /\ length' = (l + len[t]) % Width /\ length' \in 0 .. Width - 1
        /\ mine' = [mine EXCEPT ![t] = length']
    BY <1>0, <2>1, Counted DEF Store
  <2>4. mine'[t] = length' /\ at'[t] = "test"
    BY <2>2, <2>3 DEF IInv
  <2>5. Moves(t)
    BY <1>0, <2>2, <2>3, <2>4 DEF IInv, Moves
  <2>6. ASSUME ~overlapped PROVE Step(t)' /\ at'[t] # "idle"
    <3>1. l = length /\ length = LogSize /\ len[t] < LogSize
      BY <1>0, <2>1, <2>2, <2>6 DEF Step
    <3>2. length' = LogSize + len[t]
      BY <1>0, <2>3, <3>1, CountedLess
    <3>3. QED
      BY <1>0, <2>4, <3>1, <3>2 DEF Step
  <2>7. QED
    BY <2>2, <2>5, <2>6, OthersIdle
<1>5. CASE TestEnd(t)
  <2>1. PICK l \in Seen(t) :
          /\ Keep(t, l)
          /\ IF l >= LogSize THEN Goto(t, "subtract") /\ UNCHANGED <<len, num>> ELSE Leave(t)
    BY <1>5 DEF TestEnd
  <2>2. at[t] = "test" /\ UNCHANGED <<length, wrap, overlapped>>
    BY <1>5 DEF TestEnd
  <2>3. mine'[t] = l /\ at'[t] = IF l >= LogSize THEN "subtract" ELSE "idle"
    BY <2>1 DEF Leave, IInv
  <2>4. Moves(t)
    BY <1>0, <2>1, <2>2, <2>3 DEF IInv, Moves, Leave
  <2>5. ASSUME ~overlapped PROVE Step(t)' /\ (at'[t] = "idle" => length' <= LogSize)
    <3>1. l = length /\ length < 2 * LogSize
      BY <1>0, <2>1, <2>2, <2>5 DEF Step
    <3>2. QED
      BY <1>0, <2>2, <2>3, <3>1 DEF Step
  <2>6. QED
    BY <2>2, <2>4, <2>5, OthersIdle
<1>6. CASE Subtract(t)
  <2>1. PICK l \in Seen(t) : Store(t, l + Width - LogSize)
    BY <1>6 DEF Subtract
  <2>2. at[t] = "subtract" /\ Goto(t, "wrap") /\ UNCHANGED <<wrap, len, num, overlapped>>
    BY <1>6 DEF Subtract
  <2>3. /\ length' = (l + Width - LogSize) % Width /\ length' \in 0 .. Width - 1
        /\ mine' = [mine EXCEPT ![t] = length']
    BY <1>0, <2>1, Counted DEF Store
  <2>4. mine'[t] = length' /\ at'[t] = "wrap"
    BY <2>2, <2>3 DEF IInv
  <2>5. Moves(t)
    BY <1>0, <2>2, <2>3, <2>4 DEF IInv, Moves
  <2>6. ASSUME ~overlapped PROVE Step(t)' /\ at'[t] # "idle"
    <3>1. l = length /\ LogSize <= length /\ length < 2 * LogSize
      BY <1>0, <2>1, <2>2, <2>6 DEF Step
    <3>2. length' = length - LogSize
      BY <1>0, <2>3, <3>1, CountedBack
    <3>3. QED
      BY <1>0, <2>4, <3>1, <3>2 DEF Step
  <2>7. QED
    BY <2>2, <2>5, <2>6, OthersIdle
<1>7. CASE SetWrap(t)
  <2>1. at[t] = "wrap" /\ Leave(t) /\ UNCHANGED <<length, mine, overlapped>>
    BY <1>7 DEF SetWrap
  <2>2. at'[t] = "idle" /\ Moves(t)
    BY <1>0, <2>1 DEF IInv, Moves, Leave
  <2>3. ASSUME ~overlapped PROVE Step(t)' /\ length' <= LogSize
    BY <1>0, <2>1, <2>2, <2>3 DEF Step
  <2>4. QED
    BY <2>1, <2>2, <2>3, OthersIdle
<1>8. QED
  BY <1>1, <1>2, <1>3, <1>4, <1>5, <1>6, <1>7 DEF Writing

LEMMA ReadingStep ==
    ASSUME IInv, NEW t \in Tasks, ClearWrap(t) \/ StrSteps(t) PROVE IInv'
<1> USE LogSizeAssumption DEF Goto, Keep
<1>0. /\ length \in Nat /\ length < Width /\ mine[t] \in Nat /\ mine[t] < Width
      /\ len[t] \in Nat /\ num[t] \in Nat
      /\ Seen(t) \subseteq 0 .. Width - 1
      /\ ~overlapped => Step(t)
      /\ ~overlapped /\ at[t] # "idle" => Seen(t) = {length}
  BY OfTask
<1>1. CASE ClearWrap(t)
  <2>1. at[t] = "unwrap" /\ Leave(t) /\ UNCHANGED <<length, mine, overlapped>>
    BY <1>1 DEF ClearWrap
  <2>2. at'[t] = "idle" /\ Moves(t)
    BY <1>0, <2>1 DEF IInv, Moves, Leave
  <2>3. ASSUME ~overlapped PROVE Step(t)' /\ length' <= LogSize
    BY <1>0, <2>1, <2>2, <2>3 DEF Step
  <2>4. QED
    BY <2>1, <2>2, <2>3, OthersIdle
<1>2. CASE StrTurn(t)
  <2>1. PICK l \in Seen(t) :
          /\ Keep(t, l)
          /\ num' = [num EXCEPT ![t] = IF l < Block THEN l ELSE Block]
          /\ Goto(t, IF l > 0 THEN "shrink" ELSE "straight")
    BY <1>2 DEF StrTurn
  <2>2. at[t] = "turn" /\ UNCHANGED <<length, wrap, len, overlapped>>
    BY <1>2 DEF StrTurn
  <2>3. /\ mine'[t] = l /\ at'[t] = IF l > 0 THEN "shrink" ELSE "straight"
        /\ num'[t] = IF l < Block THEN l ELSE Block
    BY <2>1 DEF IInv
  <2>4. Moves(t)
    BY <1>0, <2>1, <2>2, <2>3 DEF IInv, Moves
  <2>5. ASSUME ~overlapped PROVE Step(t)' /\ at'[t] # "idle"
    <3>1. l = length /\ length <= LogSize
      BY <1>0, <2>1, <2>2, <2>5 DEF Step
    <3>2. QED
      BY <1>0, <2>2, <2>3, <3>1 DEF Step
  <2>6. QED
    BY <2>2, <2>4, <2>5, OthersIdle
<1>3. CASE StrShrink(t)
  <2>1. PICK l \in Seen(t) : Store(t, l + Width - num[t])
    BY <1>3 DEF StrShrink
  <2>2. at[t] = "shrink" /\ Goto(t, "turn") /\ UNCHANGED <<wrap, len, num, overlapped>>
    BY <1>3 DEF StrShrink
  <2>3. num[t] < Width
    BY <2>2 DEF IInv
  <2>9. l + Width - num[t] \in Nat
    BY <1>0, <2>1, <2>3
  <2>4. /\ length' = (l + Width - num[t]) % Width /\ length' \in 0 .. Width - 1
        /\ mine' = [mine EXCEPT ![t] = length']
    BY <2>1, <2>9, Counted DEF Store
  <2>5. mine'[t] = length' /\ at'[t] = "turn"
    BY <2>2, <2>4 DEF IInv
  <2>6. Moves(t)
    BY <1>0, <2>2, <2>4, <2>5 DEF IInv, Moves
  <2>7. ASSUME ~overlapped PROVE Step(t)' /\ at'[t] # "idle"
    <3>1. l = length /\ length <= LogSize /\ num[t] <= length
      BY <1>0, <2>1, <2>2, <2>7 DEF Step
    <3>2. length' = length - num[t]
      BY <1>0, <2>4, <3>1, CountedBack
    <3>3. QED
      BY <1>0, <2>5, <3>1, <3>2 DEF Step
  <2>8. QED
    BY <2>2, <2>6, <2>7, OthersIdle
<1>4. CASE StrStraight(t)
  <2>1. Moves(t)
    BY <1>0, <1>4 DEF StrStraight, IInv, Moves
  <2>2. ASSUME ~overlapped PROVE Step(t)' /\ at'[t] # "idle"
    BY <1>0, <1>4, <2>2 DEF StrStraight, IInv, Step
  <2>3. QED
    BY <1>4, <2>1, <2>2, OthersIdle DEF StrStraight
<1>5. CASE StrWhole(t)
  <2>1. at[t] = "whole" /\ Store(t, LogSize) /\ Leave(t) /\ UNCHANGED <<wrap, overlapped>>
    BY <1>5 DEF StrWhole
  <2>2. length' = LogSize /\ mine' = [mine EXCEPT ![t] = length'] /\ at'[t] = "idle"
    BY <2>1, CountedLess DEF Store, Leave, IInv
  <2>3. Moves(t)
    BY <1>0, <2>1, <2>2 DEF IInv, Moves, Leave
  <2>4. ASSUME ~overlapped PROVE Step(t)' /\ length' <= LogSize
    BY <2>2 DEF Step
  <2>5. QED
    BY <2>1, <2>3, <2>4, OthersIdle
<1>6. QED
  BY <1>1, <1>2, <1>3, <1>4, <1>5 DEF StrSteps

\* A call begins: it finds the log in order, or overlaps.
LEMMA BeginStep ==
    ASSUME IInv, NEW t \in Tasks, WriteBegin(t) \/ StrBegin(t) \/ ClearLength(t) PROVE IInv'
<1> USE LogSizeAssumption DEF Goto, Keep
<1>0. length \in Nat /\ length < Width
  BY OfTask
<1>1. at[t] = "idle" /\ Moves(t) /\ at'[t] \in {"measure", "turn", "unwrap"}
  <2>1. CASE WriteBegin(t)
    BY <1>0, <2>1 DEF WriteBegin, Enter, IInv, Moves
  <2>2. CASE StrBegin(t)
    BY <1>0, <2>2 DEF StrBegin, Enter, IInv, Moves
  <2>3. CASE ClearLength(t)
    <3>1. length' = 0 /\ mine' = [mine EXCEPT ![t] = 0]
      BY <2>3, CountedZero DEF ClearLength, Store
    <3>2. QED
      BY <2>3, <3>1 DEF ClearLength, IInv, Moves
  <2>4. QED
    BY <2>1, <2>2, <2>3
<1>2. ASSUME ~overlapped' PROVE Alone(t) /\ Step(t)'
  <2>1. CASE WriteBegin(t)
    <3>1. ~overlapped /\ Alone(t)
      BY <1>2, <2>1 DEF WriteBegin, Enter
    <3>2. \A u \in Tasks : at[u] = "idle"
      BY <1>1, <3>1 DEF Alone, Calling
    <3>3. length <= LogSize
      BY <3>1, <3>2 DEF IInv
    <3>4. at'[t] = "measure" /\ mine'[t] = length /\ len'[t] \in Lengths /\ length' = length
      BY <2>1 DEF WriteBegin, Enter, IInv
    <3>5. len'[t] < LogSize /\ len'[t] > 0
      BY <3>4, LengthsFit
    <3>6. QED
      BY <3>1, <3>3, <3>4, <3>5 DEF Step
  <2>2. CASE StrBegin(t)
    <3>1. ~overlapped /\ Alone(t)
      BY <1>2, <2>2 DEF StrBegin, Enter
    <3>2. \A u \in Tasks : at[u] = "idle"
      BY <1>1, <3>1 DEF Alone, Calling
    <3>3. length <= LogSize
      BY <3>1, <3>2 DEF IInv
    <3>4. at'[t] = "turn" /\ mine'[t] = length /\ length' = length
      BY <2>2 DEF StrBegin, Enter, IInv
    <3>5. QED
      BY <3>1, <3>3, <3>4 DEF Step
  <2>3. CASE ClearLength(t)
    <3>1. length' = 0 /\ mine'[t] = 0 /\ at'[t] = "unwrap" /\ Alone(t)
      BY <1>2, <2>3, CountedZero DEF ClearLength, Store, IInv
    <3>2. QED
      BY <3>1 DEF Step
  <2>4. QED
    BY <2>1, <2>2, <2>3
<1>3. \A u \in Tasks : /\ at'[u] \in {"copy", "grow"} => num'[u] <= len'[u]
                       /\ at'[u] = "shrink" => num'[u] < Width
  BY <1>1 DEF IInv, Moves
<1>4. ASSUME ~overlapped' PROVE Sole' /\ (\A u \in Tasks : Step(u)')
  <2>1. \A u \in Tasks \ {t} : at'[u] = "idle"
    BY <1>1, <1>2, <1>4 DEF Alone, Calling, Moves
  <2>2. QED
    BY <1>2, <1>4, <2>1 DEF Sole, Step
<1>5. QED
  BY <1>1, <1>3, <1>4 DEF IInv, Moves

LEMMA NextStep == IInv /\ [TasksNext]_taskVars => IInv'
<1> SUFFICES ASSUME IInv, [TasksNext]_taskVars PROVE IInv'
  OBVIOUS
<1>1. CASE UNCHANGED taskVars
  BY <1>1 DEF taskVars, IInv, Sole, Step
<1>2. CASE TasksNext
  <2>1. PICK t \in Tasks : WriteBegin(t) \/ ClearLength(t) \/ StrBegin(t) \/ InCall(t)
    BY <1>2 DEF TasksNext
  <2>2. QED
    BY <2>1, WritingStep, ReadingStep, BeginStep DEF InCall
<1>3. QED
  BY <1>1, <1>2

\* Without overlapping calls, log_write and log_str need no lock: every copy lies
\* within the text, and calls leave length within it.
THEOREM OneAtATimeIsSafe == TasksSpec => []CopiesStayInside
<1>1. IInv => CopiesStayInside
  BY DEF IInv, CopiesStayInside, Calling, Step
<1>2. QED
  BY <1>1, InitStep, NextStep, PTL DEF TasksSpec

-----------------------------------------------------------------------------
(* One task: the ring implements the log of LogText *)

\* The i-th oldest byte of the ring.
ViewLen(g) == IF g.wrap THEN Size ELSE g.length
ViewAt(g, i) ==
    g.text[IF ~g.wrap THEN i ELSE IF i <= Size - g.length THEN g.length + i ELSE i - (Size - g.length)]

LEMMA ViewIs ==
    ASSUME NEW g \in Rings
    PROVE  /\ View(g) \in Seq(Byte) /\ Len(View(g)) = ViewLen(g) /\ ViewLen(g) \in 0 .. Size
           /\ \A i \in 1 .. ViewLen(g) : View(g)[i] = ViewAt(g, i)
<1> DEFINE L == g.length
           new == SubSeq(g.text, 1, L)
           old == SubSeq(g.text, L + 1, Size)
<1>1. L \in 0 .. Size /\ Size \in Nat /\ g.wrap \in BOOLEAN /\ \A i \in 1 .. Size : g.text[i] \in Byte
  BY SizeAssumption DEF Rings
<1>2. new \in Seq(Byte) /\ Len(new) = L /\ \A i \in 1 .. L : new[i] = g.text[i]
  <2>1. \A i \in 1 .. L : g.text[i] \in Byte
    BY <1>1
  <2> QED
    BY <1>1, <2>1, SubSeqProperties
<1>3. old \in Seq(Byte) /\ Len(old) = Size - L /\ \A i \in 1 .. Size - L : old[i] = g.text[L + i]
  <2>1. \A i \in L + 1 .. Size : g.text[i] \in Byte
    BY <1>1
  <2> QED
    BY <1>1, <2>1, SubSeqProperties
<1>4. /\ old \o new \in Seq(Byte) /\ Len(old \o new) = Len(old) + Len(new)
      /\ \A i \in 1 .. Len(old) + Len(new) :
            (old \o new)[i] = IF i <= Len(old) THEN old[i] ELSE new[i - Len(old)]
  BY <1>2, <1>3, ConcatProperties
<1>5. View(g) = IF g.wrap THEN old \o new ELSE new
  BY DEF View
<1> HIDE DEF new, old
<1>6. CASE g.wrap
  <2>1. Len(old) + Len(new) = Size /\ View(g) = old \o new
    BY <1>1, <1>2, <1>3, <1>5, <1>6
  <2>2. ASSUME NEW i \in 1 .. Size PROVE View(g)[i] = ViewAt(g, i)
    <3>1. CASE i <= Size - L
      <4>1. i \in 1 .. Size - L /\ i \in 1 .. Len(old) + Len(new) /\ i <= Len(old)
        BY <1>1, <1>3, <2>1, <3>1
      <4>2. (old \o new)[i] = g.text[L + i]
        BY <1>3, <1>4, <4>1
      <4> QED
        BY <1>6, <2>1, <3>1, <4>2 DEF ViewAt
    <3>2. CASE ~(i <= Size - L)
      <4>1. i \in 1 .. Len(old) + Len(new) /\ ~(i <= Len(old)) /\ i - Len(old) = i - (Size - L)
        BY <1>1, <1>3, <2>1, <3>2
      <4>2. i - (Size - L) \in 1 .. L
        BY <1>1, <3>2
      <4>3. (old \o new)[i] = new[i - (Size - L)]
        BY <1>4, <4>1
      <4> QED
        BY <1>2, <1>6, <2>1, <3>2, <4>2, <4>3 DEF ViewAt
    <3> QED
      BY <3>1, <3>2
  <2> QED
    BY <1>1, <1>4, <1>6, <2>1, <2>2 DEF ViewLen
<1>7. CASE ~g.wrap
  BY <1>1, <1>2, <1>5, <1>7 DEF ViewLen, ViewAt
<1> QED
  BY <1>1, <1>6, <1>7

\* How many bytes of n are too old.
Excess(n) == IF n <= Size THEN 0 ELSE n - Size

LEMMA ExcessTwice ==
    ASSUME NEW m \in Nat, NEW n \in Nat
    PROVE  LET k == m - Excess(m) + n IN
           /\ Excess(m + n) = Excess(k) + Excess(m)
           /\ (m + n) - Excess(m + n) = k - Excess(k)
BY SizeAssumption DEF Excess

LEMMA LatestIs ==
    ASSUME NEW s \in Seq(Byte)
    PROVE  /\ Text!Latest(s) \in Seq(Byte) /\ Len(Text!Latest(s)) = Len(s) - Excess(Len(s))
           /\ Excess(Len(s)) \in 0 .. Len(s) /\ Len(s) - Excess(Len(s)) <= Size
           /\ \A i \in 1 .. Len(s) - Excess(Len(s)) : Text!Latest(s)[i] = s[Excess(Len(s)) + i]
<1>1. Len(s) \in Nat /\ Size \in Nat /\ \A i \in 1 .. Len(s) : s[i] \in Byte
  BY SizeAssumption
<1>2. CASE Len(s) <= Size
  BY <1>1, <1>2 DEF Text!Latest, Excess
<1>3. CASE Len(s) > Size
  <2>1. \A i \in Len(s) - Size + 1 .. Len(s) : s[i] \in Byte
    BY <1>1, <1>3
  <2>2. Text!Latest(s) = SubSeq(s, Len(s) - Size + 1, Len(s))
    BY <1>1, <1>3 DEF Text!Latest
  <2> DEFINE m == Len(s) - Size + 1
  <2>3. m \in Int /\ Len(s) \in Int /\ Excess(Len(s)) = Len(s) - Size /\ Len(s) - m + 1 = Size /\ m <= Len(s)
    BY <1>1, <1>3, SizeAssumption DEF Excess
  <2>4. /\ SubSeq(s, m, Len(s)) \in Seq(Byte)
        /\ Len(SubSeq(s, m, Len(s))) = Size
        /\ \A i \in 1 .. Size : SubSeq(s, m, Len(s))[i] = s[m + i - 1]
    BY <2>1, <2>3, SubSeqProperties
  <2>5. \A i \in 1 .. Size : m + i - 1 = Excess(Len(s)) + i
    BY <1>1, <2>3
  <2> QED
    BY <1>1, <1>3, <2>2, <2>3, <2>4, <2>5
<1> QED
  BY <1>1, <1>2, <1>3

\* Cutting a text before more is written to it loses nothing that counts.
LEMMA LatestTwice ==
    ASSUME NEW s \in Seq(Byte), NEW t \in Seq(Byte)
    PROVE  Text!Latest(Text!Latest(s) \o t) = Text!Latest(s \o t)
<1> DEFINE l == Text!Latest(s)  a == l \o t  b == s \o t
<1>1. Len(s) \in Nat /\ Len(t) \in Nat /\ Size \in Nat
  BY SizeAssumption
<1>2. l \in Seq(Byte) /\ Len(l) = Len(s) - Excess(Len(s)) /\ \A i \in 1 .. Len(l) : l[i] = s[Excess(Len(s)) + i]
  BY LatestIs
<1> HIDE DEF l
<1>3. /\ a \in Seq(Byte) /\ Len(a) = Len(l) + Len(t)
      /\ \A i \in 1 .. Len(l) + Len(t) : a[i] = IF i <= Len(l) THEN l[i] ELSE t[i - Len(l)]
  BY <1>2, ConcatProperties
<1>4. /\ b \in Seq(Byte) /\ Len(b) = Len(s) + Len(t)
      /\ \A i \in 1 .. Len(s) + Len(t) : b[i] = IF i <= Len(s) THEN s[i] ELSE t[i - Len(s)]
  BY ConcatProperties
<1> HIDE DEF a, b
<1>5. Excess(Len(b)) = Excess(Len(a)) + Excess(Len(s)) /\ Len(b) - Excess(Len(b)) = Len(a) - Excess(Len(a))
  <2>1. Len(b) = Len(s) + Len(t) /\ Len(a) = Len(s) - Excess(Len(s)) + Len(t)
    BY <1>2, <1>3, <1>4
  <2> QED
    BY <1>1, <2>1, ExcessTwice
<1>6. ASSUME NEW i \in 1 .. Len(a) - Excess(Len(a)) PROVE a[Excess(Len(a)) + i] = b[Excess(Len(b)) + i]
  <2> DEFINE j == Excess(Len(a)) + i  x == Excess(Len(s))
  <2>1. Excess(Len(a)) \in 0 .. Len(a) /\ x \in 0 .. Len(s)
    BY <1>3, LatestIs
  <2>2. Len(a) = Len(s) - x + Len(t) /\ Len(b) = Len(s) + Len(t) /\ Len(l) = Len(s) - x
    BY <1>2, <1>3, <1>4
  <2> DEFINE y == Excess(Len(a))  n == Len(s)  m == Len(t)
  <2>9. /\ n \in Nat /\ m \in Nat /\ x \in 0 .. n /\ Len(a) = n - x + m /\ Len(b) = n + m
        /\ y \in 0 .. Len(a) /\ i \in 1 .. Len(a) - y /\ j = y + i /\ Excess(Len(b)) = y + x
    BY <1>1, <1>5, <2>1, <2>2
  <2> HIDE DEF j, x, y, n, m
  <2>3. j \in 1 .. Len(a) /\ Excess(Len(b)) + i = x + j /\ x + j \in 1 .. Len(b)
    BY <2>9
  <2>4. /\ a[j] = IF j <= Len(l) THEN l[j] ELSE t[j - Len(l)]
        /\ b[x + j] = IF x + j <= Len(s) THEN s[x + j] ELSE t[(x + j) - Len(s)]
    BY <1>3, <1>4, <2>2, <2>3
  <2>5. a[j] = b[x + j]
    <3>1. CASE j <= Len(l)
      <4>1. x + j <= Len(s) /\ j \in 1 .. Len(l)
        BY <1>1, <2>1, <2>2, <2>3, <3>1
      <4>2. l[j] = s[x + j]
        BY <1>2, <4>1 DEF x
      <4> QED
        BY <2>4, <3>1, <4>1, <4>2
    <3>2. CASE ~(j <= Len(l))
      <4>1. ~(x + j <= Len(s)) /\ (x + j) - Len(s) = j - Len(l)
        BY <1>1, <2>1, <2>2, <2>3, <3>2
      <4> QED
        BY <2>4, <3>2, <4>1
    <3> QED
      BY <3>1, <3>2
  <2> QED
    BY <2>3, <2>5 DEF j
<1>7. /\ Text!Latest(a) \in Seq(Byte) /\ Len(Text!Latest(a)) = Len(a) - Excess(Len(a))
      /\ \A i \in 1 .. Len(a) - Excess(Len(a)) : Text!Latest(a)[i] = a[Excess(Len(a)) + i]
  BY <1>3, LatestIs
<1>8. /\ Text!Latest(b) \in Seq(Byte) /\ Len(Text!Latest(b)) = Len(b) - Excess(Len(b))
      /\ \A i \in 1 .. Len(b) - Excess(Len(b)) : Text!Latest(b)[i] = b[Excess(Len(b)) + i]
  BY <1>4, LatestIs
<1>9. Text!Latest(a) = Text!Latest(b)
  BY <1>5, <1>6, <1>7, <1>8, SeqEqual
<1> QED
  BY <1>9 DEF a, b, l

LEMMA ExcessOfTail ==
    ASSUME NEW m \in Nat, NEW n \in Nat
    PROVE  LET k == m + (n - Excess(n)) IN
           /\ (m + n) - Excess(m + n) = k - Excess(k)
           /\ Excess(n) > 0 => Excess(k) = m /\ Excess(m + n) = m + Excess(n)
BY SizeAssumption DEF Excess

\* The head of a text longer than the log does not count.
LEMMA LatestTail ==
    ASSUME NEW s \in Seq(Byte), NEW t \in Seq(Byte)
    PROVE  Text!Latest(s \o Text!Latest(t)) = Text!Latest(s \o t)
<1> DEFINE l == Text!Latest(t)  a == s \o l  b == s \o t  x == Excess(Len(t))
<1>1. Len(s) \in Nat /\ Len(t) \in Nat /\ Size \in Nat
  BY SizeAssumption
<1>2. /\ l \in Seq(Byte) /\ Len(l) = Len(t) - x /\ \A i \in 1 .. Len(l) : l[i] = t[x + i]
      /\ x \in 0 .. Len(t)
  BY LatestIs
<1> HIDE DEF l
<1>3. /\ a \in Seq(Byte) /\ Len(a) = Len(s) + Len(l)
      /\ \A i \in 1 .. Len(s) + Len(l) : a[i] = IF i <= Len(s) THEN s[i] ELSE l[i - Len(s)]
  BY <1>2, ConcatProperties
<1>4. /\ b \in Seq(Byte) /\ Len(b) = Len(s) + Len(t)
      /\ \A i \in 1 .. Len(s) + Len(t) : b[i] = IF i <= Len(s) THEN s[i] ELSE t[i - Len(s)]
  BY ConcatProperties
<1> HIDE DEF a, b, x
<1>5. /\ Len(b) - Excess(Len(b)) = Len(a) - Excess(Len(a))
      /\ x > 0 => Excess(Len(a)) = Len(s) /\ Excess(Len(b)) = Len(s) + x
  <2>1. Len(a) = Len(s) + (Len(t) - Excess(Len(t))) /\ Len(b) = Len(s) + Len(t)
    BY <1>2, <1>3, <1>4 DEF x
  <2> DEFINE m == Len(s)  n == Len(t)  k == m + (n - Excess(n))
  <2>2. /\ (m + n) - Excess(m + n) = k - Excess(k)
        /\ Excess(n) > 0 => Excess(k) = m /\ Excess(m + n) = m + Excess(n)
    BY <1>1, ExcessOfTail
  <2> QED
    BY <2>1, <2>2 DEF x
<1>6. ASSUME NEW i \in 1 .. Len(a) - Excess(Len(a))
      PROVE  a[Excess(Len(a)) + i] = b[Excess(Len(b)) + i]
  <2>1. CASE x = 0
    <3>1. Len(l) = Len(t) /\ \A k \in 1 .. Len(t) : l[k] = t[k]
      BY <1>1, <1>2, <2>1
    <3>2. l = t
      BY <1>2, <3>1, SeqEqual
    <3> QED
      BY <3>2 DEF a, b
  <2>2. CASE x > 0
    <3>1. Excess(Len(a)) = Len(s) /\ Excess(Len(b)) = Len(s) + x /\ Len(a) = Len(s) + Len(l)
      BY <1>3, <1>5, <2>2
    <3>2. /\ i \in 1 .. Len(l) /\ Len(s) + i \in 1 .. Len(s) + Len(l)
          /\ ~(Len(s) + i <= Len(s)) /\ (Len(s) + i) - Len(s) = i
      BY <1>1, <1>2, <3>1
    <3>3. /\ (Len(s) + x) + i \in 1 .. Len(s) + Len(t)
          /\ ~((Len(s) + x) + i <= Len(s)) /\ ((Len(s) + x) + i) - Len(s) = x + i
      BY <1>1, <1>2, <3>2
    <3>4. a[Len(s) + i] = l[i] /\ b[(Len(s) + x) + i] = t[x + i]
      BY <1>3, <1>4, <3>2, <3>3
    <3> QED
      BY <1>2, <3>1, <3>2, <3>4
  <2> QED
    BY <1>1, <1>2, <2>1, <2>2
<1>7. /\ Text!Latest(a) \in Seq(Byte) /\ Len(Text!Latest(a)) = Len(a) - Excess(Len(a))
      /\ \A i \in 1 .. Len(a) - Excess(Len(a)) : Text!Latest(a)[i] = a[Excess(Len(a)) + i]
  BY <1>3, LatestIs
<1>8. /\ Text!Latest(b) \in Seq(Byte) /\ Len(Text!Latest(b)) = Len(b) - Excess(Len(b))
      /\ \A i \in 1 .. Len(b) - Excess(Len(b)) : Text!Latest(b)[i] = b[Excess(Len(b)) + i]
  BY <1>4, LatestIs
<1>9. Text!Latest(a) = Text!Latest(b)
  BY <1>5, <1>6, <1>7, <1>8, SeqEqual
<1> QED
  BY <1>9 DEF a, b, l

\* Where byte i of the ring after a write comes from: L is the length before it, n
\* the message's, moved the part of it that goes to the end of the text.
ComesFrom(text, msg, wrapped, L, n, moved, i) ==
    LET full == L + n >= Size
        to   == IF full THEN n - moved ELSE L + n
        p    == IF ~(wrapped \/ full) THEN i
                ELSE IF i <= Size - to THEN to + i ELSE i - (Size - to)
        old  == IF wrapped THEN Size ELSE L
        j    == Excess(old + n) + i
        k    == IF ~wrapped THEN j ELSE IF j <= Size - L THEN L + j ELSE j - (Size - L)
    IN  /\ p \in 1 .. Size /\ j \in 1 .. old + n
        /\ (IF p <= n - moved THEN msg[moved + p]
            ELSE IF L < p /\ p <= L + moved THEN msg[p - L] ELSE text[p])
           = IF j <= old THEN text[k] ELSE msg[j - old]

LEMMA BytesComeFrom ==
    ASSUME NEW text, NEW msg, NEW wrapped \in BOOLEAN, NEW L \in 0 .. Size, NEW n \in 0 .. Size,
           NEW i \in 1 .. Size, wrapped \/ L + n >= Size \/ i <= L + n
    PROVE  ComesFrom(text, msg, wrapped, L, n, IF Size - L < n THEN Size - L ELSE n, i)
<1> DEFINE moved == IF Size - L < n THEN Size - L ELSE n
<1> SUFFICES ComesFrom(text, msg, wrapped, L, n, moved, i)
  OBVIOUS
<1> USE DEF ComesFrom
<1> USE SizeAssumption
<1>1. CASE L + n >= Size
  <2>1. moved = Size - L /\ n - moved = L + n - Size
    BY <1>1
  <2> HIDE DEF moved
  <2>2. CASE wrapped
    <3>1. Excess(Size + n) = n
      BY DEF Excess
    <3> QED
      BY <1>1, <2>1, <2>2, <3>1
  <2>3. CASE ~wrapped
    <3>1. Excess(L + n) = L + n - Size
      BY <1>1 DEF Excess
    <3> QED
      BY <1>1, <2>1, <2>3, <3>1
  <2> QED
    BY <2>2, <2>3
<1>2. CASE L + n < Size
  <2>1. moved = n /\ n - moved = 0
    BY <1>2
  <2> HIDE DEF moved
  <2>2. CASE wrapped
    <3>1. Excess(Size + n) = n
      BY DEF Excess
    <3> QED
      BY <1>2, <2>1, <2>2, <3>1
  <2>3. CASE ~wrapped
    <3>1. Excess(L + n) = 0
      BY <1>2 DEF Excess
    <3> QED
      BY <1>2, <2>1, <2>3, <3>1
  <2> QED
    BY <2>2, <2>3
<1> QED
  BY <1>1, <1>2

\* A message of at most the log's size.
LEMMA WriteKeepsLatest ==
    ASSUME NEW g \in Rings, NEW msg \in Seq(Byte), Len(msg) <= Size
    PROVE  LET end == g.length + Len(msg)
               h   == [text   |-> CopyIn(g, msg),
                       length |-> IF Full(end) THEN end - Size ELSE end,
                       wrap   |-> g.wrap \/ Full(end)]
           IN  h \in Rings /\ View(h) = Text!Latest(View(g) \o msg)
<1> DEFINE L == g.length  n == Len(msg)  end == L + n
           moved == Lesser(Size - L, n)  rest == n - moved
           h == [text |-> CopyIn(g, msg), length |-> IF Full(end) THEN end - Size ELSE end,
                 wrap |-> g.wrap \/ Full(end)]
           v == View(g)  w == v \o msg
<1>1. /\ L \in 0 .. Size /\ Size \in Nat \ {0} /\ n \in 0 .. Size /\ g.wrap \in BOOLEAN
      /\ \A i \in 1 .. Size : g.text[i] \in Byte /\ \A j \in 1 .. n : msg[j] \in Byte
  BY SizeAssumption DEF Rings
<1>2. moved \in 0 .. n /\ L + moved <= Size /\ (moved = n \/ L + moved = Size) /\ rest \in 0 .. L
  BY <1>1 DEF Lesser
<1>3. /\ Full(end) => L + n >= Size /\ moved = Size - L /\ end - Size = rest
      /\ ~Full(end) => L + n < Size /\ moved = n /\ rest = 0
  <2>1. Full(end) <=> L + n >= Size
    BY <1>1 DEF Full
  <2>2. CASE L + n >= Size
    BY <1>1, <2>1, <2>2 DEF Lesser
  <2>3. CASE L + n < Size
    BY <1>1, <2>1, <2>3 DEF Lesser
  <2> QED
    BY <1>1, <2>2, <2>3
<1>4. \A i \in 1 .. Size :
          h.text[i] = IF i <= rest THEN msg[moved + i]
                      ELSE IF L < i /\ i <= L + moved THEN msg[i - L] ELSE g.text[i]
  BY DEF CopyIn
<1>5. h \in Rings
  <2>1. CopyIn(g, msg) \in [1 .. Size -> Byte]
    <3>1. ASSUME NEW i \in 1 .. Size
          PROVE  (IF i <= rest THEN msg[moved + i]
                  ELSE IF L < i /\ i <= L + moved THEN msg[i - L] ELSE g.text[i]) \in Byte
      BY <1>1, <1>2
    <3> QED
      BY <3>1 DEF CopyIn
  <2>2. (IF Full(end) THEN end - Size ELSE end) \in 0 .. Size
    BY <1>1, <1>2, <1>3
  <2>3. (g.wrap \/ Full(end)) \in BOOLEAN
    OBVIOUS
  <2> QED
    BY <2>1, <2>2, <2>3 DEF Rings
<1>6. h.length = (IF Full(end) THEN rest ELSE end) /\ h.wrap = (g.wrap \/ Full(end))
  BY <1>3
<1>7. /\ v \in Seq(Byte) /\ Len(v) = ViewLen(g) /\ ViewLen(g) \in 0 .. Size
      /\ \A i \in 1 .. ViewLen(g) : v[i] = ViewAt(g, i)
  BY ViewIs
<1>8. /\ View(h) \in Seq(Byte) /\ Len(View(h)) = ViewLen(h)
      /\ \A i \in 1 .. ViewLen(h) : View(h)[i] = ViewAt(h, i)
  BY <1>5, ViewIs
<1> HIDE DEF h, v
<1>9. /\ w \in Seq(Byte) /\ Len(w) = Len(v) + n
      /\ \A i \in 1 .. Len(v) + n : w[i] = IF i <= Len(v) THEN v[i] ELSE msg[i - Len(v)]
  BY <1>7, ConcatProperties
<1> HIDE DEF w
<1>10. /\ Text!Latest(w) \in Seq(Byte) /\ Len(Text!Latest(w)) = Len(w) - Excess(Len(w))
       /\ \A i \in 1 .. Len(w) - Excess(Len(w)) : Text!Latest(w)[i] = w[Excess(Len(w)) + i]
  BY <1>9, LatestIs
<1> HIDE DEF moved, rest, n, end, L
<1>11. Len(w) - Excess(Len(w)) = ViewLen(h)
  <2>1. Len(w) = ViewLen(g) + n /\ ViewLen(g) = (IF g.wrap THEN Size ELSE L)
    BY <1>7, <1>9 DEF ViewLen, L
  <2>2. ViewLen(h) = IF g.wrap \/ Full(end) THEN Size ELSE end
    BY <1>6 DEF ViewLen
  <2>3. Full(end) <=> L + n >= Size
    BY <1>1, <1>3
  <2>4. ASSUME NEW m \in Nat PROVE m - Excess(m) = IF m >= Size THEN Size ELSE m
    BY <1>1 DEF Excess
  <2>5. Len(w) \in Nat /\ Len(w) = (IF g.wrap THEN Size + n ELSE L + n)
    BY <1>1, <2>1
  <2>6. CASE g.wrap
    BY <1>1, <2>2, <2>4, <2>5, <2>6
  <2>7. CASE ~g.wrap
    BY <1>1, <2>2, <2>3, <2>4, <2>5, <2>7 DEF end
  <2> QED
    BY <2>6, <2>7
<1>12. ASSUME NEW i \in 1 .. ViewLen(h) PROVE ViewAt(h, i) = w[Excess(Len(w)) + i]
  <2> DEFINE old == IF g.wrap THEN Size ELSE L  j == Excess(old + n) + i
             to == IF L + n >= Size THEN n - moved ELSE L + n
             p == IF ~(g.wrap \/ L + n >= Size) THEN i
                  ELSE IF i <= Size - to THEN to + i ELSE i - (Size - to)
             k == IF ~g.wrap THEN j ELSE IF j <= Size - L THEN L + j ELSE j - (Size - L)
  <2>1. moved = IF Size - L < n THEN Size - L ELSE n
    BY DEF moved, Lesser
  <2>2. /\ i \in 1 .. Size /\ (g.wrap \/ L + n >= Size \/ i <= L + n)
        /\ L \in 0 .. Size /\ n \in 0 .. Size /\ g.wrap \in BOOLEAN /\ ViewLen(g) = old
    BY <1>1, <1>3, <1>6 DEF ViewLen, end, L
  <2>3. /\ p \in 1 .. Size /\ j \in 1 .. old + n
        /\ (IF p <= n - moved THEN msg[moved + p]
            ELSE IF L < p /\ p <= L + moved THEN msg[p - L] ELSE g.text[p])
           = IF j <= old THEN g.text[k] ELSE msg[j - old]
    <3>1. ComesFrom(g.text, msg, g.wrap, L, n, IF Size - L < n THEN Size - L ELSE n, i)
      BY <2>2, BytesComeFrom
    <3>2. ComesFrom(g.text, msg, g.wrap, L, n, moved, i)
      BY <2>1, <3>1
    <3> QED
      BY <3>2 DEF ComesFrom
  <2>4. h.wrap <=> g.wrap \/ L + n >= Size
    <3>1. Full(end) <=> L + n >= Size
      BY <1>1, <1>3
    <3> QED
      BY <1>6, <3>1, Zenon
  <2>5. h.length = to
    BY <1>1, <1>3, <1>6 DEF end, rest
  <2>6. ViewAt(h, i) = h.text[p]
    BY <2>4, <2>5 DEF ViewAt
  <2>7. j <= old => v[j] = g.text[k]
    <3>1. ViewAt(g, j) = g.text[k]
      BY DEF ViewAt, L
    <3>2. j <= old => j \in 1 .. ViewLen(g)
      BY <1>1, <2>2, <2>3
    <3> QED
      BY <1>7, <3>1, <3>2
  <2>8. w[j] = IF j <= old THEN v[j] ELSE msg[j - old]
    BY <1>7, <1>9, <2>2, <2>3
  <2> HIDE DEF p, j, k, old, to
  <2>9. h.text[p] = IF j <= old THEN g.text[k] ELSE msg[j - old]
    BY <1>4, <2>3 DEF rest
  <2>10. Excess(Len(w)) + i = j
    BY <1>7, <1>9, <2>2 DEF j, old
  <2> QED
    BY <2>6, <2>7, <2>8, <2>9, <2>10
<1>13. View(h) = Text!Latest(w)
  BY <1>8, <1>10, <1>11, <1>12, SeqEqual
<1> QED
  BY <1>5, <1>13 DEF h, w, v, n, end, L

\* log_write, of a message of any length: a longer one was going to lose its head.
LEMMA LogWriteKeepsLatest ==
    ASSUME NEW g \in Rings, NEW bytes \in Seq(Byte)
    PROVE  LogWrite(g, bytes) \in Rings /\ View(LogWrite(g, bytes)) = Text!Latest(View(g) \o bytes)
<1> DEFINE msg == Text!Latest(bytes)
<1>1. Clamp(bytes) = msg
  <2>1. Len(bytes) \in Nat /\ Size \in Nat
    BY SizeAssumption
  <2>2. Len(bytes) > Size <=> ~(Len(bytes) <= Size)
    BY <2>1
  <2> QED
    BY <2>2 DEF Clamp, Text!Latest
<1>2. msg \in Seq(Byte) /\ Len(msg) <= Size
  BY LatestIs
<1> HIDE DEF msg
<1>3. LogWrite(g, bytes) \in Rings /\ View(LogWrite(g, bytes)) = Text!Latest(View(g) \o msg)
  BY <1>1, <1>2, WriteKeepsLatest DEF LogWrite
<1>4. Text!Latest(View(g) \o msg) = Text!Latest(View(g) \o bytes)
  BY ViewIs, LatestTail DEF msg
<1> QED
  BY <1>3, <1>4

\* log_write twice is log_write of both.
LEMMA TwoWrites ==
    ASSUME NEW g \in Rings, NEW a \in Seq(Byte), NEW b \in Seq(Byte)
    PROVE  /\ LogWrite(LogWrite(g, a), b) \in Rings
           /\ View(LogWrite(LogWrite(g, a), b)) = Text!Latest(View(g) \o (a \o b))
<1> DEFINE h == LogWrite(g, a)  v == View(g)
<1>1. h \in Rings /\ View(h) = Text!Latest(v \o a) /\ v \in Seq(Byte)
  BY LogWriteKeepsLatest, ViewIs
<1> HIDE DEF h, v
<1>2. LogWrite(h, b) \in Rings /\ View(LogWrite(h, b)) = Text!Latest(Text!Latest(v \o a) \o b)
  BY <1>1, LogWriteKeepsLatest
<1>3. v \o a \in Seq(Byte) /\ (v \o a) \o b = v \o (a \o b)
  BY <1>1, ConcatAssociative, ConcatProperties
<1> QED
  BY <1>2, <1>3, LatestTwice DEF h, v

\* One turn of log_str's loop leaves the text of the log as it is.
LEMMA TurnKeepsView ==
    ASSUME NEW g \in Rings, g.wrap, NEW moved \in 0 .. g.length,
           NEW h, h = [g EXCEPT !.text = [i \in 1..Size |-> IF i <= Size - moved THEN g.text[i + moved]
                                                           ELSE g.text[i - (Size - moved)]],
                                !.length = @ - moved]
    PROVE  h \in Rings /\ View(h) = View(g)
<1> DEFINE L == g.length
<1>1. /\ L \in 0 .. Size /\ Size \in Nat \ {0} /\ moved \in 0 .. L
      /\ g = [text |-> g.text, length |-> g.length, wrap |-> TRUE]
      /\ \A i \in 1 .. Size : g.text[i] \in Byte
  BY SizeAssumption DEF Rings
<1>2. /\ h.length = L - moved /\ h.wrap = TRUE
      /\ \A i \in 1 .. Size : h.text[i] = g.text[IF i <= Size - moved THEN i + moved ELSE i - (Size - moved)]
      /\ h = [text |-> h.text, length |-> L - moved, wrap |-> TRUE]
      /\ h.text = [i \in 1..Size |-> IF i <= Size - moved THEN g.text[i + moved] ELSE g.text[i - (Size - moved)]]
  BY <1>1
<1>3. h \in Rings
  <2>1. L - moved \in 0 .. Size
    BY <1>1
  <2>2. ASSUME NEW i \in 1 .. Size
        PROVE  (IF i <= Size - moved THEN g.text[i + moved] ELSE g.text[i - (Size - moved)]) \in Byte
    BY <1>1
  <2>3. h.text \in [1 .. Size -> Byte]
    BY <1>2, <2>2
  <2> QED
    BY <1>2, <2>1, <2>3 DEF Rings
<1>4. ViewLen(g) = Size /\ ViewLen(h) = Size
  BY <1>1, <1>2 DEF ViewLen
<1>5. ASSUME NEW i \in 1 .. Size PROVE ViewAt(h, i) = ViewAt(g, i)
  <2> DEFINE M == L - moved
             p == IF i <= Size - M THEN M + i ELSE i - (Size - M)
             q == IF i <= Size - L THEN L + i ELSE i - (Size - L)
  <2>1. p \in 1 .. Size /\ (IF p <= Size - moved THEN p + moved ELSE p - (Size - moved)) = q
    BY <1>1
  <2>2. ViewAt(h, i) = h.text[p] /\ ViewAt(g, i) = g.text[q]
    BY <1>1, <1>2 DEF ViewAt
  <2> HIDE DEF p, q
  <2> QED
    BY <1>2, <2>1, <2>2
<1>6. /\ View(g) \in Seq(Byte) /\ Len(View(g)) = Size
      /\ \A i \in 1 .. Size : View(g)[i] = ViewAt(g, i)
  BY <1>4, ViewIs
<1>7. /\ View(h) \in Seq(Byte) /\ Len(View(h)) = Size
      /\ \A i \in 1 .. Size : View(h)[i] = ViewAt(h, i)
  BY <1>3, <1>4, ViewIs
<1>8. View(h) = View(g)
  <2>1. \A i \in 1 .. Size : View(h)[i] = View(g)[i]
    BY <1>5, <1>6, <1>7
  <2> HIDE DEF L
  <2> QED
    BY <1>6, <1>7, <2>1, SeqEqual
<1> QED
  BY <1>3, <1>8

LoggingInv ==
    /\ g_log \in Rings /\ enabled \subseteq Levels
    /\ pc \in {"idle", "rotate"} /\ (pc = "rotate" => g_log.wrap)

Texts == UNION {[1..n -> Byte] : n \in 0 .. MaxMsg + 2}

\* A text short enough to be written by one call.
LEMMA ShortTexts == ASSUME NEW s \in Seq(Byte), Len(s) <= MaxMsg + 2 PROVE s \in Texts
<1>1. s \in [1 .. Len(s) -> Byte] /\ Len(s) \in 0 .. MaxMsg + 2
  BY SizeAssumption
<1> QED
  BY <1>1 DEF Texts

LEMMA MessagesAreTexts ==
    ASSUME NEW m \in Messages PROVE m \in Seq(Byte) /\ Len(m) \in 0 .. MaxMsg
<1>1. PICK n \in 0 .. MaxMsg : m \in [1 .. n -> Byte]
  BY DEF Messages
<1> QED
  BY <1>1, SizeAssumption

\* What one step does to the text of the log.
LEMMA LoggingStep ==
    ASSUME LoggingInv, Next
    PROVE  LoggingInv' /\ (Text!Next \/ torn' \/ UNCHANGED <<View(g_log), out>>)
<1> DEFINE v == View(g_log)
<1>1. ASSUME NEW s \in Seq(Byte), Len(s) <= MaxMsg + 2, g_log' \in Rings, UNCHANGED <<enabled, pc, out>>,
             View(g_log)' = Text!Latest(View(g_log) \o s), pc = "idle"
      PROVE  LoggingInv' /\ Text!Next
  BY <1>1, ShortTexts DEF LoggingInv, Text!Next, Text!Write, Texts
<1>2. CASE LogClear
  <2>1. g_log' = [text |-> g_log.text, length |-> 0, wrap |-> FALSE]
    BY <1>2 DEF LogClear, LoggingInv, Rings
  <2>2. g_log' \in Rings
    BY <2>1, SizeAssumption DEF LoggingInv, Rings
  <2>3. pc = "idle" /\ UNCHANGED <<enabled, pc, out>>
    BY <1>2 DEF LogClear, Idle
  <2>4. View(g_log') = <<>>
    BY <2>1, SubSeqEmpty DEF View
  <2> QED
    BY <2>2, <2>3, <2>4 DEF LoggingInv, Text!Next, Text!Clear
<1>3. CASE LogSet
  BY <1>3 DEF LogSet, Idle, LoggingInv
<1>4. CASE LogPrintf
  <2>1. PICK l \in enabled, m \in Messages :
            g_log' = IF m = <<>> THEN LogWrite(g_log, <<l>>)
                                 ELSE LogWrite(LogWrite(g_log, <<l>>), m)
    BY <1>4 DEF LogPrintf
  <2>2. <<l>> \in Seq(Byte) /\ Len(<<l>>) = 1 /\ m \in Seq(Byte) /\ Len(m) \in 0 .. MaxMsg
    <3>1. l \in Byte
      BY ByteAssumption DEF LoggingInv
    <3> QED
      BY <3>1, MessagesAreTexts
  <2>3. g_log \in Rings /\ pc = "idle" /\ UNCHANGED <<enabled, pc, out>> /\ MaxMsg \in Nat
    BY <1>4, SizeAssumption DEF LogPrintf, Idle, LoggingInv
  <2>4. CASE m = <<>>
    <3>1. g_log' \in Rings /\ View(g_log') = Text!Latest(View(g_log) \o <<l>>)
      BY <2>1, <2>2, <2>3, <2>4, LogWriteKeepsLatest
    <3>2. Len(<<l>>) <= MaxMsg + 2
      BY <2>2, <2>3
    <3> QED
      BY <1>1, <2>2, <2>3, <3>1, <3>2
  <2>5. CASE m # <<>>
    <3>1. <<l>> \o m \in Seq(Byte) /\ Len(<<l>> \o m) <= MaxMsg + 2
      BY <2>2, <2>3, ConcatProperties
    <3>2. g_log' \in Rings /\ View(g_log') = Text!Latest(View(g_log) \o (<<l>> \o m))
      BY <2>1, <2>2, <2>3, <2>5, TwoWrites
    <3> QED
      BY <1>1, <2>3, <3>1, <3>2
  <2> QED
    BY <2>4, <2>5
<1>5. CASE LogPuts
  <2>1. PICK m \in Messages : g_log' = LogWrite(g_log, m)
    BY <1>5 DEF LogPuts
  <2>2. m \in Seq(Byte) /\ Len(m) <= MaxMsg + 2 /\ g_log \in Rings /\ pc = "idle" /\ UNCHANGED <<enabled, pc, out>>
    BY <1>5, SizeAssumption, MessagesAreTexts DEF LogPuts, Idle, LoggingInv
  <2> QED
    BY <1>1, <2>1, <2>2, LogWriteKeepsLatest
<1>6. CASE EspPrintfv
  <2>1. PICK c \in {<<l>> : l \in Levels} \cup {<<>>}, m \in Messages :
            LET coded == IF c = <<>> THEN g_log ELSE LogWrite(g_log, c)
            IN  g_log' = LogWrite(LogWrite(coded, <<Tag>>), m)
    BY <1>6 DEF EspPrintfv
  <2>2. <<Tag>> \in Seq(Byte) /\ Len(<<Tag>>) = 1 /\ m \in Seq(Byte) /\ Len(m) \in 0 .. MaxMsg
    BY ByteAssumption, MessagesAreTexts
  <2>3. g_log \in Rings /\ pc = "idle" /\ UNCHANGED <<enabled, pc, out>> /\ MaxMsg \in Nat
    BY <1>6, SizeAssumption DEF EspPrintfv, Idle, LoggingInv
  <2>4. <<Tag>> \o m \in Seq(Byte) /\ Len(<<Tag>> \o m) <= MaxMsg + 1
    BY <2>2, <2>3, ConcatProperties
  <2>5. CASE c = <<>>
    <3>1. g_log' \in Rings /\ View(g_log') = Text!Latest(View(g_log) \o (<<Tag>> \o m))
      BY <2>1, <2>2, <2>3, <2>5, TwoWrites
    <3> QED
      <4>1. Len(<<Tag>> \o m) <= MaxMsg + 2
        BY <2>3, <2>4
      <4> QED
        BY <1>1, <2>3, <2>4, <3>1, <4>1
  <2>6. CASE c # <<>>
    <3>1. c \in Seq(Byte) /\ Len(c) = 1
      <4>1. PICK l \in Levels : c = <<l>>
        BY <2>6
      <4>2. l \in Byte
        BY ByteAssumption
      <4> QED
        BY <4>1, <4>2
    <3> DEFINE h == LogWrite(g_log, c)  t == <<Tag>> \o m
    <3>2. h \in Rings /\ View(h) = Text!Latest(View(g_log) \o c) /\ View(g_log) \in Seq(Byte)
      BY <2>3, <3>1, LogWriteKeepsLatest, ViewIs
    <3>3. g_log' \in Rings /\ View(g_log') = Text!Latest(View(h) \o t)
      BY <2>1, <2>2, <2>6, <3>2, TwoWrites
    <3> HIDE DEF h, t
    <3>4. t \in Seq(Byte) /\ Len(t) <= MaxMsg + 1
      BY <2>4 DEF t
    <3>5. View(g_log) \o c \in Seq(Byte) /\ c \o t \in Seq(Byte) /\ Len(c \o t) = 1 + Len(t)
      <4>1. View(g_log) \o c \in Seq(Byte)
        BY <3>1, <3>2, ConcatProperties
      <4>2. c \o t \in Seq(Byte) /\ Len(c \o t) = Len(c) + Len(t)
        BY <3>1, <3>4, ConcatProperties
      <4> QED
        BY <3>1, <4>1, <4>2
    <3>6. View(g_log') = Text!Latest((View(g_log) \o c) \o t)
      BY <3>2, <3>3, <3>4, <3>5, LatestTwice
    <3>7. (View(g_log) \o c) \o t = View(g_log) \o (c \o t)
      BY <3>1, <3>2, <3>4, ConcatAssociative
    <3>8. Len(c \o t) <= MaxMsg + 2
      BY <2>3, <3>4, <3>5
    <3> QED
      BY <1>1, <2>3, <3>3, <3>5, <3>6, <3>7, <3>8
  <2> QED
    BY <2>5, <2>6
<1>7. CASE LogStr
  <2>1. g_log' = g_log /\ pc' \in {"idle", "rotate"} /\ (pc' = "rotate" => g_log.wrap)
    BY <1>7 DEF LogStr, LoggingInv
  <2>2. CASE g_log.wrap
    BY <1>7, <2>1, <2>2 DEF LogStr, LoggingInv
  <2>3. CASE ~g_log.wrap
    BY <1>7, <2>1, <2>3 DEF LogStr, LoggingInv, Text!Next, Text!Read, View
  <2> QED
    BY <2>2, <2>3
<1>8. CASE LogStrRotate
  <2> DEFINE moved == Lesser(g_log.length, Chunk)
  <2>1. g_log \in Rings /\ g_log.wrap /\ moved \in 0 .. g_log.length /\ Size \in Nat
    BY <1>8, SizeAssumption DEF LogStrRotate, LoggingInv, Rings, Lesser
  <2>2. PICK lower \in Copied(moved) :
            /\ g_log' = [g_log EXCEPT !.text = Turned(moved, lower), !.length = @ - moved]
            /\ torn' = (torn \/ lower # Rest(moved))
    BY <1>8 DEF LogStrRotate, Rotate
  <2>3. UNCHANGED <<enabled, pc, out>>
    BY <1>8 DEF LogStrRotate
  <2> HIDE DEF moved
  <2>4. g_log \in Rings /\ \A i \in 1 .. Size : g_log.text[i] \in Byte
    BY <2>1 DEF Rings
  <2>5. g_log' \in Rings /\ g_log'.wrap
    <3>1. lower \in [1 .. Size - moved -> Byte]
      <4>1. ASSUME NEW i \in 1 .. Size - moved PROVE g_log.text[i + moved] \in Byte
        <5>1. i + moved \in 1 .. Size
          BY <2>1 DEF Rings
        <5> QED
          BY <2>4, <5>1
      <4>2. Rest(moved) \in [1 .. Size - moved -> Byte]
        BY <4>1 DEF Rest
      <4> QED
        BY <2>2, <4>2 DEF Copied
    <3>2. ASSUME NEW i \in 1 .. Size
          PROVE  (IF i <= Size - moved THEN lower[i] ELSE g_log.text[i - (Size - moved)]) \in Byte
      BY <2>1, <2>4, <3>1 DEF Rings
    <3>3. Turned(moved, lower) \in [1 .. Size -> Byte]
      BY <3>2 DEF Turned
    <3>4. g_log' = [text |-> Turned(moved, lower), length |-> g_log.length - moved, wrap |-> TRUE]
      BY <2>1, <2>2 DEF Rings
    <3>5. g_log.length - moved \in 0 .. Size
      BY <2>1 DEF Rings
    <3> QED
      BY <3>3, <3>4, <3>5 DEF Rings
  <2>6. CASE lower = Rest(moved)
    <3>1. Turned(moved, lower) = [i \in 1..Size |-> IF i <= Size - moved THEN g_log.text[i + moved]
                                                    ELSE g_log.text[i - (Size - moved)]]
      <4>1. ASSUME NEW i \in 1 .. Size, i <= Size - moved PROVE lower[i] = g_log.text[i + moved]
        BY <2>1, <2>6, <4>1 DEF Rest, Rings
      <4> QED
        BY <4>1 DEF Turned
    <3>2. g_log' = [g_log EXCEPT !.text = [i \in 1..Size |-> IF i <= Size - moved THEN g_log.text[i + moved]
                                                             ELSE g_log.text[i - (Size - moved)]],
                                 !.length = @ - moved]
      BY <2>2, <3>1
    <3>3. View(g_log') = View(g_log)
      BY <2>1, <3>2, TurnKeepsView
    <3> QED
      BY <2>3, <2>5, <3>3 DEF LoggingInv
  <2>7. CASE lower # Rest(moved)
    BY <2>2, <2>3, <2>5, <2>7 DEF LoggingInv
  <2> QED
    BY <2>6, <2>7
<1>9. CASE LogStrEnd
  <2>1. g_log \in Rings /\ g_log.wrap /\ g_log.length = 0 /\ Size \in Nat
    BY <1>9, SizeAssumption DEF LogStrEnd, LoggingInv
  <2>2. g_log' = [text |-> g_log.text, length |-> Size, wrap |-> FALSE]
    BY <1>9, <2>1 DEF LogStrEnd, Straighten, Rings
  <2>7. g_log' \in Rings
    BY <2>1, <2>2, SizeAssumption DEF Rings
  <2>8. pc' = "idle" /\ UNCHANGED enabled /\ out' = SubSeq(g_log.text, 1, Size)
    <3>1. g_log'.text = g_log.text /\ g_log'.length = Size
      BY <2>2
    <3> QED
      BY <1>9, <3>1, Zenon DEF LogStrEnd
  <2> DEFINE whole == SubSeq(g_log.text, 1, Size)
  <2>3. whole \in Seq(Byte)
    <3>1. \A i \in 1 .. Size : g_log.text[i] \in Byte
      BY <2>1 DEF Rings
    <3> QED
      BY <2>1, <3>1, SubSeqProperties
  <2>4. View(g_log') = whole
    BY <2>2 DEF View
  <2>5. SubSeq(g_log.text, 1, 0) = <<>> /\ 0 + 1 = 1
    BY SubSeqEmpty
  <2>6. View(g_log) = whole
    BY <2>1, <2>3, <2>5, ConcatEmptySeq DEF View
  <2> QED
    BY <2>4, <2>6, <2>7, <2>8 DEF LoggingInv, Text!Next, Text!Read
<1> QED
  BY <1>2, <1>3, <1>4, <1>5, <1>6, <1>7, <1>8, <1>9 DEF Next, Reading

\* The log is the last LOG_SIZE bytes written since it was cleared, and log_str returns
\* them in order, for every size of the log, of a message and of the block it turns by,
\* and whatever memcpy makes of overlapping bytes until it does not move them.
THEOREM LogIsLastBytes == Spec => IsLastBytes
<1>1. Init => LoggingInv /\ Text!Init
  <2> SUFFICES ASSUME Init PROVE LoggingInv /\ Text!Init
    OBVIOUS
  <2>1. PICK text \in [1 .. Size -> Byte] : g_log = [text |-> text, length |-> 0, wrap |-> FALSE]
    <3>1. g_log \in [text : [1..Size -> Byte], length : {0}, wrap : {FALSE}]
      BY DEF Init
    <3>2. g_log.text \in [1 .. Size -> Byte] /\ g_log = [text |-> g_log.text, length |-> 0, wrap |-> FALSE]
      BY <3>1
    <3> QED
      BY <3>2
  <2>3. g_log \in Rings
    BY <2>1, SizeAssumption DEF Rings
  <2>2. View(g_log) = <<>>
    BY <2>1, SubSeqEmpty DEF View
  <2> QED
    BY <2>2, <2>3 DEF Init, LoggingInv, Text!Init
<1>2. LoggingInv /\ [Next]_vars => LoggingInv' /\ [Text!Next \/ torn']_<<View(g_log), out>>
  <2>1. LoggingInv /\ UNCHANGED vars => LoggingInv' /\ UNCHANGED <<View(g_log), out>>
    BY DEF vars, LoggingInv
  <2> QED
    BY <2>1, LoggingStep
<1>3. QED
  BY <1>1, <1>2, PTL DEF Spec, IsLastBytes, Text!vars
=============================================================================
