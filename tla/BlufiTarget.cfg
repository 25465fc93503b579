SPECIFICATION BlufiSpec
CONSTANTS
    MaxFragments = 3
    SequenceLimit = 2
    Wirings = {"callbacks"}
    Faults = {"allocate"}
INVARIANT NegotiatedIsUsable
CHECK_DEADLOCK FALSE
