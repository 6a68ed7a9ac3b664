------------------------------ MODULE Observers ------------------------------
(***************************************************************************)
(* core/list.c and the observers of phy/wireless.c kept in such a list: a  *)
(* circular doubly linked list threaded through its items, changed by      *)
(* wifi_observer_add and wifi_observer_del while raise_event walks it.     *)
(*                                                                         *)
(* A callback may add and delete observers, its own one included, whose    *)
(* node then points at itself while raise_event still stands on it.        *)
(***************************************************************************)
EXTENDS Naturals, Sequences, FiniteSets

CONSTANTS
    Obs,     \* the observers
    Anchor   \* g_observer_list

ASSUME ObsAssumption == IsFiniteSet(Obs) /\ Anchor \notin Obs

Nodes == Obs \cup {Anchor}

VARIABLES
    prev, next,   \* the links of every node
    it,           \* raise_event's iterator, Anchor when no walk is in progress
    called,       \* how often each observer was called in the last walk: 2 is "more"
    steady,       \* history: registered since the walk began
    stranded      \* history: in this walk an observer was deleted while being called

vars == <<prev, next, it, called, steady, stranded>>

Linked(n) == next[n] # n     \* list_connected

\* Every node is linked to itself: list_init.
Init ==
    /\ prev = [n \in Nodes |-> n] /\ next = [n \in Nodes |-> n]
    /\ it = Anchor /\ called = [o \in Obs |-> 0] /\ steady = {}
    /\ stranded = FALSE

-----------------------------------------------------------------------------
(* core/list.c *)

\* Faulty variant: the item's own links are the wrong way round.
PrependSwapped(self, item) ==
    /\ prev' = [prev EXCEPT ![item] = self, ![self] = item]
    /\ next' = [next EXCEPT ![item] = prev[self], ![prev[self]] = item]

\* Faulty variant: _list_append, which inserts at the other end.
PrependFirst(self, item) ==
    /\ prev' = [prev EXCEPT ![item] = self, ![next[self]] = item]
    /\ next' = [next EXCEPT ![item] = next[self], ![self] = item]

\* _list_prepend(self, item), which is what list_append calls.
Prepend(self, item) ==
    /\ prev' = [prev EXCEPT ![item] = prev[self], ![self] = item]
    /\ next' = [next EXCEPT ![item] = self, ![prev[self]] = item]

\* Faulty variant: the links of the neighbours only.
RemoveUnlinked(self) ==
    /\ next' = [next EXCEPT ![prev[self]] = next[self]]
    /\ prev' = [prev EXCEPT ![next[self]] = prev[self]]

\* _list_remove(self): also of a node that is in no list.
Remove(self) ==
    /\ next' = [next EXCEPT ![prev[self]] = next[self], ![self] = self]
    /\ prev' = [prev EXCEPT ![next[self]] = prev[self], ![self] = self]

-----------------------------------------------------------------------------
(* phy/wireless.c *)

\* wifi_observer_add of an observer that is not registered: nothing in the code
\* tests this, and a second insertion would cut the list.
Add(o) ==
    /\ ~Linked(o)
    /\ Prepend(Anchor, o)
    /\ UNCHANGED <<it, called, steady, stranded>>

\* wifi_observer_del, of a registered observer or not.
Del(o) ==
    /\ Remove(o)
    /\ steady' = steady \ {o}
    /\ stranded' = (stranded \/ o = it)
    /\ UNCHANGED <<it, called>>

\* raise_event begins: list_begin.
RaiseBegin ==
    /\ it = Anchor /\ Linked(Anchor)
    /\ it' = next[Anchor]
    /\ called' = [o \in Obs |-> IF o = it' THEN 1 ELSE 0]
    /\ steady' = {o \in Obs : Linked(o)} /\ stranded' = FALSE
    /\ UNCHANGED <<prev, next>>

\* Faulty variant: the walk goes the other way round after the first call.
RaiseBack == it' = prev[it]

\* it = it->next, after the callback.
Advance == it' = next[it]

\* The callback of the next observer runs, or the walk is over.
RaiseNext ==
    /\ it # Anchor
    /\ Advance
    /\ called' = [o \in Obs |-> IF o = it' /\ called[o] < 2 THEN called[o] + 1 ELSE called[o]]
    /\ UNCHANGED <<prev, next, steady, stranded>>

Next == RaiseBegin \/ RaiseNext \/ \E o \in Obs : Add(o) \/ Del(o)

\* Every callback returns.
Spec == Init /\ [][Next]_vars /\ WF_vars(RaiseNext)

-----------------------------------------------------------------------------
(* Properties *)

TypeOK ==
    /\ prev \in [Nodes -> Nodes] /\ next \in [Nodes -> Nodes]
    /\ it \in Nodes /\ steady \subseteq Obs
    /\ called \in [Obs -> 0..2] /\ stranded \in BOOLEAN

\* The two directions agree for every node, in a list or not: the list can be
\* walked either way and any node unlinked without knowing its list.
LinksAgree == \A n \in Nodes : prev[next[n]] = n /\ next[prev[n]] = n

\* The registered observers, in the order of next.
Walk ==
    LET from[n \in 0..Cardinality(Obs)] ==
            IF n = 0 THEN <<>>
            ELSE LET s == from[n - 1]
                     l == IF s = <<>> THEN Anchor ELSE s[Len(s)]
                 IN  IF next[l] = Anchor THEN s ELSE Append(s, next[l])
    IN  from[Cardinality(Obs)]

List == INSTANCE ObserverList WITH list <- Walk

\* The links implement a sequence: an added observer comes last, a deleted one
\* leaves the order of the others alone, during a walk as well.
IsSequence == List!Spec

\* An observer registered while the whole walk lasted was called exactly once,
\* whatever the callbacks added and deleted meanwhile, unless one of them deleted
\* its own observer.
EveryoneIsTold ==
    it = Anchor /\ ~stranded => \A o \in steady : called[o] = 1

\* raise_event comes to an end unless its callbacks prevent it in one of two ways:
\* it stands on an observer that deleted itself and did not register again, which
\* is then called for ever, or callbacks register observers again and again, each
\* time behind the one being called.  Any number of deletions ends.
Registers == it # Anchor /\ \E o \in Obs : Add(o)
RaiseEnds == \/ it # Anchor ~> it = Anchor \/ ~Linked(it)
             \/ []<><<Registers>>_vars
=============================================================================
