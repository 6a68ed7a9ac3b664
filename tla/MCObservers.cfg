CONSTANTS
    Obs = {o1, o2, o3}
    Anchor = head
SPECIFICATION Spec
INVARIANTS LinksAgree EveryoneIsTold
PROPERTIES IsSequence RaiseEnds
