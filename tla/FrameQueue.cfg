CONSTANTS
    Conns = {c1, c2}
    Workers = {w1, w2}
    Frames = {f1, f2, f3, f4}
    Cap = 2
    Nil = Nil
SPECIFICATION FairSpec
INVARIANTS TypeOK RingWindow ExclusiveOwnership RightClient NoLostWakeup
PROPERTIES RefinesFIFO QueuedIsHandled
