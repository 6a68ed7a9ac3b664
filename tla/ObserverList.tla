---------------------------- MODULE ObserverList ----------------------------
(***************************************************************************)
(* What core/list.c promises the observers of phy/wireless.c: a sequence   *)
(* without repetition, in the order of registration.                       *)
(***************************************************************************)
EXTENDS SequencesExt

CONSTANT Obs
VARIABLE list

Members == {list[i] : i \in DOMAIN list}

Init == list = <<>>

Add(o) == o \notin Members /\ list' = Append(list, o)
Del(o) == \/ o \notin Members /\ UNCHANGED list
          \/ \E i \in DOMAIN list : list[i] = o /\ list' = RemoveAt(list, i)

Spec == Init /\ [][\E o \in Obs : Add(o) \/ Del(o)]_list
=============================================================================
