------------------------------ MODULE Algorithm ------------------------------
(***************************************************************************)
(* core/algorithm.h: the sorts and searches its macros generate.  An array *)
(* holds items 1 .. num by number, so that each is told from its equals;   *)
(* the comparator compares their keys.  Places count from 0, as in C.      *)
(***************************************************************************)
EXTENDS Integers, Sequences

CONSTANTS
    SortKeys,   \* the keys, integers
    MaxItems    \* bound: items of an array

ASSUME AlgorithmAssumption == SortKeys \subseteq Int /\ MaxItems \in Nat

VARIABLES
    key,     \* of each item
    array,   \* the item in each place
    sort,    \* the function that runs: "insertion", "selection", "shell", "lower", "upper"
    loop,    \* where it is
    i, j, k, \* its indices: i, j and k; for a search first, count and the key sought
    temp

algorithmVars == <<key, array, sort, loop, i, j, k, temp>>

AlgorithmInit ==
    /\ key = <<>> /\ array = <<>> /\ sort = "none" /\ loop = "start"
    /\ i = 0 /\ j = 0 /\ k = 0 /\ temp = 0

num      == Len(array)
Item(n)  == array[n + 1]
Placed(n, item) == [array EXCEPT ![n + 1] = item]
Above(a, b)  == key[a] > key[b]

SortBegin(name, keys) ==
    /\ loop = "start"
    /\ key' = keys /\ array' = [n \in DOMAIN keys |-> n] /\ sort' = name
    /\ loop' = (CASE name = "insertion" -> "insert" [] name = "selection" -> "select" [] OTHER -> "widen")
    /\ i' = (IF name = "insertion" THEN 1 ELSE 0)
    /\ k' = 1
    /\ UNCHANGED <<j, temp>>

-----------------------------------------------------------------------------
\* GENERATE_INSERTION_SORT, and a pass of GENERATE_SHELL_SORT over every k-th item;
\* its last pass has k = 0 and moves nothing.
Widen ==
    /\ loop = "widen"
    /\ IF k < num THEN k' = 3 * k + 1 /\ UNCHANGED loop ELSE loop' = "gap" /\ UNCHANGED k
    /\ UNCHANGED <<key, array, sort, i, j, temp>>

Gap ==
    /\ loop = "gap"
    /\ IF k > 0 THEN k' = k \div 3 /\ i' = k' /\ loop' = "insert"
                ELSE loop' = "sorted" /\ UNCHANGED <<i, k>>
    /\ UNCHANGED <<key, array, sort, j, temp>>

Insert ==
    /\ loop = "insert" /\ i < num
    /\ temp' = Item(i) /\ j' = i - k /\ loop' = "shift"
    /\ UNCHANGED <<key, array, sort, i, k>>

\* Faulty variant: the first place is not compared.
GoesOnAbove == j > 0 /\ Above(Item(j), temp)
GoesOn      == j >= 0 /\ Above(Item(j), temp)

Shift ==
    /\ loop = "shift" /\ GoesOn
    /\ array' = Placed(j + k, Item(j)) /\ j' = j - k
    /\ UNCHANGED <<key, sort, loop, i, k, temp>>

Settle ==
    /\ loop = "shift" /\ ~GoesOn
    /\ array' = Placed(j + k, temp) /\ i' = i + 1 /\ loop' = "insert"
    /\ UNCHANGED <<key, sort, j, k, temp>>

Inserted ==
    /\ loop = "insert" /\ i >= num
    /\ loop' = (IF sort = "shell" THEN "gap" ELSE "sorted")
    /\ UNCHANGED <<key, array, sort, i, j, k, temp>>

\* GENERATE_SELECTION_SORT
Select ==
    /\ loop = "select" /\ i < num - 1
    /\ k' = i /\ j' = i + 1 /\ loop' = "scan"
    /\ UNCHANGED <<key, array, sort, i, temp>>

Scan ==
    /\ loop = "scan" /\ j < num
    /\ k' = (IF Above(Item(k), Item(j)) THEN j ELSE k) /\ j' = j + 1
    /\ UNCHANGED <<key, array, sort, loop, i, temp>>

Swap ==
    /\ loop = "scan" /\ j >= num
    /\ array' = [Placed(i, Item(k)) EXCEPT ![k + 1] = Item(i)]
    /\ temp' = Item(i) /\ i' = i + 1 /\ loop' = "select"
    /\ UNCHANGED <<key, sort, j, k>>

Selected ==
    /\ loop = "select" /\ i >= num - 1
    /\ loop' = "sorted"
    /\ UNCHANGED <<key, array, sort, i, j, k, temp>>

-----------------------------------------------------------------------------
\* GENERATE_LOWER_BOUND and GENERATE_UPPER_BOUND
SearchBegin(name, sought) ==
    /\ loop = "sorted"
    /\ sort' = name /\ i' = 0 /\ j' = num /\ k' = sought /\ loop' = "search"
    /\ UNCHANGED <<key, array, temp>>

Before(item) == IF sort = "lower" THEN key[item] < k ELSE key[item] <= k

Halve ==
    /\ loop = "search" /\ j > 0
    /\ LET step == j \div 2
       IN  IF Before(Item(i + step)) THEN i' = i + step + 1 /\ j' = j - (step + 1)
                                     ELSE j' = step /\ UNCHANGED i
    /\ UNCHANGED <<key, array, sort, loop, k, temp>>

Found ==
    /\ loop = "search" /\ j <= 0
    /\ loop' = "found"
    /\ UNCHANGED <<key, array, sort, i, j, k, temp>>

AlgorithmNext ==
    \/ \E n \in 0 .. MaxItems : \E keys \in [1 .. n -> SortKeys], name \in {"insertion", "selection", "shell"} :
         SortBegin(name, keys)
    \/ Widen \/ Gap \/ Insert \/ Shift \/ Settle \/ Inserted \/ Select \/ Scan \/ Swap \/ Selected
    \/ \E name \in {"lower", "upper"}, sought \in SortKeys : SearchBegin(name, sought)
    \/ Halve \/ Found

AlgorithmSpec == AlgorithmInit /\ [][AlgorithmNext]_algorithmVars

-----------------------------------------------------------------------------

\* A sort loses and repeats no item and leaves the keys in order; a search in the
\* sorted array ends between what is before the key sought and what is not.
SortedAndSplit ==
    /\ loop \in {"sorted", "search", "found"} =>
         /\ {array[n] : n \in 1 .. num} = DOMAIN key
         /\ \A m, n \in 1 .. num : m < n => key[array[m]] <= key[array[n]]
    /\ loop = "found" =>
         \A n \in 0 .. num - 1 : n < i <=> Before(Item(n))

=============================================================================
