\* One incarnation: forwarder, keepalive, reconnects, an abort, viewers that join late.
SPECIFICATION FairSpec
CONSTANTS
    p1 = p1
    p2 = p2
    None = None
    Pools <- TwoPools
    Incarnations <- Once
    MaxFrames = 3
INVARIANTS TypeOK CacheCurrent
PROPERTIES FramesAdvance LateJoinerServed
