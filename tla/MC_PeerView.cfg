CONSTANTS
    p1 = p1
    p2 = p2
    p3 = p3
    NoNode = NoNode
    Peers <- MCPeers
SPECIFICATION FairSpec
INVARIANTS
    TypeOK
PROPERTIES
    AdmissionWithinChange
    MemberEventuallyAdmitted
