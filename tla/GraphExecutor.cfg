SPECIFICATION Spec
CONSTANTS
    Ops <- MCOps
    Graphs <- MCGraphs
    Profiles <- MCProfiles
INVARIANTS
    MacrosOrdered
    NoOverlap
    Intact
    NeverMissing
    AllReleased
PROPERTIES
    CompleteGradients
