CONSTANTS
    ref1 = ref1
    ref3 = ref3
    n4m = n4m
    A = A
    B = B
    Cells = {ref1, ref3, n4m}
    Canonical = {ref1, ref3}
    Seeds = {A}
    Threads = {"w1", "w2"}
    Launches <- ResumedLaunches
    Outcomes = {"ok", "mute"}
    MaxLaunches = 3
    MaxKills = 1
SPECIFICATION Spec
CHECK_DEADLOCK FALSE
INVARIANTS
    NothingLost
PROPERTIES
    RunsEnd
