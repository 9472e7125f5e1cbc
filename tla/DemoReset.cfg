SPECIFICATION DemoSpec
CONSTANTS
    r1 = r1
    r2 = r2
    r3 = r3
    r4 = r4
    None = None
    Resets <- MCResets
    WantProof <- MCWantProof
    Requests = {q1}
    LastMatching = 2
SYMMETRY ResetSymmetry
INVARIANT DemoTypeOK
INVARIANT RunsAreFresh
INVARIANT RunsAreAsAsked
INVARIANT RaisesAfterTwoRivals
PROPERTY OnlyOverlapRewinds
CHECK_DEADLOCK FALSE
