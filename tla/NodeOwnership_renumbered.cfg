CONSTANTS
    c1 = c1
    c2 = c2
    Setups <- RenumberedSetups
    Claims = {c1, c2}
    Requests = {1}
SPECIFICATION Spec
INVARIANTS NodeHasOneOwner
