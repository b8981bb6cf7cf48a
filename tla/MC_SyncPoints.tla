---------------------------- MODULE MC_SyncPoints ----------------------------
EXTENDS SyncPoints

CONSTANTS p1, p2, p3, h1, h2, NoPoint

\* Three peers, so the threshold (3 of 4) needs every report but one, and
\* two departures leave it unreachable from current peers alone; two hashes
\* for a matching and a forked cache round; two rounds, so a peer can lag
\* two rounds behind.
MCPeers == {p1, p2, p3}
\* Two genesis peers: the third can join, depart and be removed, while the
\* base never drops below the genesis nodes (ConsensusThreshold panics).
MCGenesis == {p1, p2}
MCHashes == {h1, h2}
MCMaxRound == 2
=============================================================================
