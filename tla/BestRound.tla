----------------------------- MODULE BestRound -----------------------------
(***************************************************************************)
(* determinBestRound (src/kernel/self.go): the choice of the external      *)
(* reference of a new round among the other nodes' round histories.        *)
(*                                                                         *)
(* A history is abstracted to what the function reads of it: the number    *)
(* and start time of rounds[0], the earliest round the graph still tracks, *)
(* and the number of rounds tracked.  The loop runs over a Go map, whose   *)
(* iteration order is unspecified and changes from call to call, so the    *)
(* order is an input: any arrangement of the map's keys.  The function is  *)
(* checked against a reference definition of the spec's rule (spec 4.3): *)
(* among the warm, causal and stable candidates, one maximizing            *)
(* (history length, start) lexicographically.                              *)
(*                                                                         *)
(* The model is a single-caller loop: the round graph is fixed, the clock  *)
(* advances, and each step is one call with some round time.  The loop    *)
(* reads time.Now() on every iteration, so a call sees a non-decreasing   *)
(* sequence of clock readings, one per visited history.                    *)
(***************************************************************************)
EXTENDS Naturals, Sequences, FiniteSets
LOCAL INSTANCE SequencesExt

CONSTANTS
    Ids,            \* node ids with a round history
    Genesis,        \* genesis node ids (genesisNodesMap)
    Self,           \* node.IdForNetwork
    RefThreshold,   \* config.SnapshotReferenceThreshold
    RoundGap,       \* config.SnapshotRoundGap
    Numbers,        \* round numbers rounds[0] may have
    Starts,         \* round start times
    MaxLen,         \* longest history tracked
    MaxNow,         \* last clock value
    NoRound         \* the nil *FinalRound

ASSUME BestRoundAssumption ==
    /\ Genesis \subseteq Ids /\ Self \in Ids
    /\ RefThreshold \in Nat /\ RoundGap \in Nat \ {0}
    /\ Numbers \subseteq Nat /\ Starts \subseteq Nat
    /\ MaxLen \in Nat \ {0} /\ MaxNow \in Nat
    /\ NoRound \notin Ids

\* What determinBestRound reads of one history.
History == [number : Numbers, start : Starts, len : 1..MaxLen]

VARIABLES
    roundHistory,   \* id -> History (node.Graph.RoundHistory)
    now,            \* time.Now()
    best            \* the result of the last call

vars == <<roundHistory, now, best>>

-----------------------------------------------------------------------------
(* The implementation: one iteration of the loop over the map, carrying    *)
(* <<best, start, height>>.                                                *)

Warm(id) == id \in Genesis \/ roundHistory[id].number >= 7 + RefThreshold * 2

\* Mutant of Step: the update condition `rh > height || rts > start` with
\* && in place of ||.
StepOr(acc, id, roundTime, clock) ==
    LET rts == roundHistory[id].start
        rh  == roundHistory[id].len
    IN  IF ~Warm(id) \/ id = Self \/ rh < acc[3] \/ rts > roundTime
           \/ rts + RoundGap * rh > clock
        THEN acc
        ELSE IF rh > acc[3] /\ rts > acc[2] THEN <<id, rts, rh>> ELSE acc

\* One iteration; `clock` is the time.Now() the iteration reads.
Step(acc, id, roundTime, clock) ==
    LET rts == roundHistory[id].start
        rh  == roundHistory[id].len
    IN  IF ~Warm(id) \/ id = Self \/ rh < acc[3] \/ rts > roundTime
           \/ rts + RoundGap * rh > clock
        THEN acc
        ELSE IF rh > acc[3] \/ rts > acc[2] THEN <<id, rts, rh>> ELSE acc

\* The loop: the i-th iteration visits order[i] and reads clocks[i].
determinBestRound(order, roundTime, clocks) ==
    FoldLeft(LAMBDA acc, i : Step(acc, order[i], roundTime, clocks[i]),
             <<NoRound, 0, 0>>, [i \in 1..Len(order) |-> i])[1]

\* The orders a Go map of these keys can be iterated in.
MapOrders == SetToSeqs(DOMAIN roundHistory)

\* The clock readings of one call: time.Now() is read afresh on every
\* iteration, so the readings are non-decreasing and start no earlier
\* than the clock at the call.
ClockReadings ==
    LET n == Cardinality(DOMAIN roundHistory)
    IN  {c \in [1..n -> now..MaxNow] : \A i \in 1..n-1 : c[i] <= c[i+1]}

-----------------------------------------------------------------------------
(* The reference: spec 4.3's rule.                                         *)

Candidates(roundTime, clock) ==
    {id \in DOMAIN roundHistory :
        /\ id # Self
        /\ Warm(id)
        /\ roundHistory[id].start <= roundTime
        /\ roundHistory[id].start + RoundGap * roundHistory[id].len <= clock}

\* (len, start) of a is at least that of b, lexicographically.
AtLeast(a, b) ==
    \/ roundHistory[a].len > roundHistory[b].len
    \/ /\ roundHistory[a].len = roundHistory[b].len
       /\ roundHistory[a].start >= roundHistory[b].start

-----------------------------------------------------------------------------

Init ==
    /\ roundHistory \in [Ids -> History]
    /\ now = 0
    /\ best = NoRound

Tick ==
    /\ now < MaxNow
    /\ now' = now + 1
    /\ UNCHANGED <<roundHistory, best>>

\* One call of determinBestRound(roundTime), in any map order; the clock
\* has advanced to the last reading when it returns.
DeterminBestRound ==
    \E roundTime \in Starts, order \in MapOrders, clocks \in ClockReadings :
        /\ best' = determinBestRound(order, roundTime, clocks)
        /\ now' = clocks[Len(clocks)]
        /\ UNCHANGED roundHistory

Next == Tick \/ DeterminBestRound

Spec == Init /\ [][Next]_vars

-----------------------------------------------------------------------------

\* Every history has the fields the function reads.
TypeOK ==
    /\ roundHistory \in [Ids -> History]
    /\ now \in 0..MaxNow
    /\ best \in Ids \cup {NoRound}

\* Whatever order the map is iterated in, whatever the round time and
\* however the clock moves while the loop runs (time.Now() is read on every
\* iteration, self.go 90), the result is bracketed by the candidates of the
\* first and the last reading: nil only if no other node's history is warm,
\* causal and stable at the first reading; otherwise a candidate at the
\* last reading whose (length, start) is lexicographically at least that of
\* every candidate at the first.  The running comparison with `rh < height`
\* and `rh > height || rts > start` never lets the accumulator go down, and
\* a history stable at the first reading is stable when it is visited.
BestBetweenClocks ==
    \A roundTime \in Starts, order \in MapOrders, clocks \in ClockReadings :
        LET r     == determinBestRound(order, roundTime, clocks)
            first == Candidates(roundTime, clocks[1])
            last  == Candidates(roundTime, clocks[Len(clocks)])
        IN  IF r = NoRound THEN first = {}
            ELSE /\ r \in last
                 /\ \A o \in first : AtLeast(r, o)
=============================================================================
