SPECIFICATION Spec
CONSTANTS
    p1 = p1
    p2 = p2
    p3 = p3
    Publishers = {p1, p2}
    Subscribers = {p3}
    Nobody = Nobody
    MaxFrames = 2
    MaxFaults = 2
    Buffer = 1
INVARIANTS
    OneBus
    FailureNeedsAFault
    AttachedMissNothing
    EachPublisherInOrder
PROPERTIES
    CallsGetThrough
CHECK_DEADLOCK FALSE
