\* Every topology of four nodes over five layers, and every sequence of failures.
CONSTANTS
    Node = {1, 2, 3, 4}
    Layouts <- AllLayouts
SPECIFICATION Spec
INVARIANT TypeOK
PROPERTIES
    DisjointKept
    CoverageKept
    OrphansAdopted
    GainsFlagged
