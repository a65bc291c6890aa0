SPECIFICATION FairSerialSpec
CONSTANTS
    OrderIds = {o1, o2}
    Requests = {r1, r2}
    NoJob = NoJob
    MaxFaults = 1
PROPERTIES
    ImplementsLifecycle
    TimelineInOrder
    NoticesAreCurrent
    NoticeFollows
