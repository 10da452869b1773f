\* Two objects that share a heap, reloads that fail included.
SPECIFICATION Spec
CONSTANTS
    Object = {o1, o2}
    Block = {b1, b2, b3, b4, b5}
    Null = null
SYMMETRY Symmetry
INVARIANTS
    TypeOK
    NothingLost
    OwnedOnce
