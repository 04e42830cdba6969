\* The stream is stopped and started again.
SPECIFICATION Spec
CONSTANTS
    p1 = p1
    p2 = p2
    None = None
    Pools <- OnePool
    Incarnations <- Twice
    MaxFrames = 2
PROPERTIES FramesAdvance
