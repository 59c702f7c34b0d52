CONSTANTS
    PinThreads = {"t", "u"}
    Sources = {"s"}
    Fallback = ""
    Callbacks = {"yes", "small", "large"}
    GivesPin = {"yes"}
    Files <- PinFiles
    MaxRegistrations = 2
    MaxPins = 2
    MaxShares = 2
SPECIFICATION LibrarySpec
CHECK_DEADLOCK FALSE
INVARIANT TextReadsBack
INVARIANT DictIsMap
INVARIANT FirstLayerWins
 
INVARIANT CallbacksKept
INVARIANT SlotsStable
INVARIANT WrapperReachesOwn
 
INVARIANT LogFaithful
