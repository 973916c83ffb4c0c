CONSTANTS
    Datagrams = {"a", "b"}
    Layout <- TwoLayouts
    KeyOf <- OwnKeys
    Interval = 2
    Limit = 2
SPECIFICATION FairSpec
INVARIANTS WholeDatagrams NoneCompleteHeld
PROPERTY Released
