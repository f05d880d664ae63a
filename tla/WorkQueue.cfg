CONSTANTS
    ui = ui
    pool = pool
    w1 = w1
    w2 = w2
    w3 = w3
    Posters <- MCPosters
    UI = ui
    Loop = Loop
    Free = Free
    Works <- MCWorks
    Notifying <- MCNotifying
    ThreadMayFail = FALSE
SPECIFICATION Spec
INVARIANTS TypeOK OnePacket NoLostWakeup
PROPERTIES EveryWorkRuns ImplementsFIFO
