CONSTANTS
    MaxMessages = 4
SPECIFICATION FairSpec
INVARIANTS ListenerListens
PROPERTIES EverythingIsShown ListenerStops LeaveTerminates
CHECK_DEADLOCK FALSE
