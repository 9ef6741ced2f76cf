\* The slab of 512-byte objects, seven to a page, with a page on either side of
\* the 2GB line.
CONSTANTS
    Pages = {p1, p2}
    LowPages = {p1}
    objsize = 512
    align = 8
    PAGE_SIZE = 4096
    HeaderSize = 40
SPECIFICATION SlabSpec
INVARIANTS
    NoDoubleUse
