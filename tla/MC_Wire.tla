------------------------------ MODULE MC_Wire ------------------------------
EXTENDS Wire

\* Two members, the own id, two field values and a 2-byte listener; the
\* clock well past 255 so the timestamp uses two bytes; forged payloads up
\* to two bytes past the longest fixed layout (104 bytes).
MCMembers == {1, 2}
MCSelf == 9
MCVals == {1, 2}
MCMasks == {0, 258}
MCListener == <<7, 7>>
MCNow == 1000
MCMaxPayload == 106
=============================================================================
