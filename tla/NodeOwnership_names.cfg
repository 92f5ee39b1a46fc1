CONSTANTS
    c1 = c1
    c2 = c2
    Setups <- BoardSetups
    Claims = {c1, c2}
    Requests = {0, 3}
SPECIFICATION Spec
SYMMETRY ClaimSymmetry
INVARIANTS DistinctDevices NumberedByIndex DecoderClaimGetsDecoder WholeCountIsExclusive SettledOwnVideoNode MockMatchesBoard
