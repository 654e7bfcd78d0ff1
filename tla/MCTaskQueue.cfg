SPECIFICATION Spec
CONSTANTS
    c1 = c1
    c2 = c2
    None = None
    Callers = {c1, c2}
    MaxCalls = 2
    GroupMaxSize = 2
    MaxFaults = 1
SYMMETRY Symmetry
INVARIANTS LostOnlyToTTL OnePlace NoLateDuplicate MortalKey
