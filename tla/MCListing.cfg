SPECIFICATION Spec
CONSTANTS
    MaxId = 5
    Initial = 3
    Sizes = {1, 2}
    MaxPage = 7
INVARIANTS MissedBounded RepeatsBounded
PROPERTY WalkEnds
