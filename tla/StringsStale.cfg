\* A reload that fails.
SPECIFICATION Spec
CONSTANTS
    Object = {o1, o2}
    Block = {b1, b2, b3, b4}
    Null = null
INVARIANTS
    StringsValid
CHECK_DEADLOCK FALSE
