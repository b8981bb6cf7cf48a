CONSTANTS
    p1 = p1
    p2 = p2
    p3 = p3
    h1 = h1
    h2 = h2
    NoPoint = NoPoint
    Peers <- MCPeers
    Genesis <- MCGenesis
    Hashes <- MCHashes
    MaxRound <- MCMaxRound
    Nil <- NoPoint
INIT Init
NEXT Next
INVARIANTS
    CatchUpInformed
