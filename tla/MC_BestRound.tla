---------------------------- MODULE MC_BestRound ----------------------------
EXTENDS BestRound

CONSTANTS s, g, a, b

\* The own node, a genesis node and two joined nodes.
MCIds == {s, g, a, b}
MCGenesis == {s, g}

\* The fields the function ignores are fixed: the own history (skipped by
\* id) would otherwise win every comparison, and a genesis node's round
\* number is not read.
MCInit ==
    /\ Init
    /\ roundHistory[s] = [number |-> 9, start |-> 0, len |-> 2]
    /\ roundHistory[g].number = 9
=============================================================================
