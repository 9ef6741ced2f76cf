\* Pages of six bytes: records of one to ten bytes end before, at and behind
\* the end of a page and take up to three pages.
CONSTANTS
    SPOOL_DATA_SIZE = 6
    Lengths = {1, 2, 3, 4, 10}
    Wants = {2, 10}
    Texts = {x, y}
    MaxRecs = 3
SPECIFICATION Spec
SYMMETRY TextSymmetry
INVARIANTS
    Tiled
    NoPageLost
PROPERTIES
    ImplementsRecordFifo
    UnsplitIntact
