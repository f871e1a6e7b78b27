CONSTANTS
    MaxStatus = 2
    MaxWire = 2
SPECIFICATION Spec
INVARIANTS ReceiverStays
PROPERTIES StatusNeverGoesBack StatusArrives StopEnds
CHECK_DEADLOCK FALSE
