\* Elements put anywhere in a list of up to eight, of keys made of four digits, the
\* list rewritten when a key grows past four.
SPECIFICATION Spec
CONSTANTS
    Base = 4
    Longest = 4
    MaxKeys = 8
INVARIANTS
    InOrder
    MidpointAsWritten
PROPERTIES
    RewritingMakesRoom
