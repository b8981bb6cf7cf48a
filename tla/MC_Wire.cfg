CONSTANTS
    Members <- MCMembers
    Self <- MCSelf
    Vals <- MCVals
    Masks <- MCMasks
    Listener <- MCListener
    Now <- MCNow
    MaxPayload <- MCMaxPayload
    Nil = Nil
INIT Init
NEXT Next
INVARIANTS
    RoundTrip
    ParseNoPanic
