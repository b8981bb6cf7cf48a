CONSTANTS
    s1 = s1
    s2 = s2
    s3 = s3
    s4 = s4
    s5 = s5
    NoSnap = NoSnap
    Snaps <- MCSnaps
    Base = 2
    Digits = 3

SPECIFICATION Spec
PROPERTY
    TopologyRefinesLog
