CONSTANTS
    c1 = c1
    c2 = c2
    Clients <- Both
    NONE = NONE
SPECIFICATION Spec
SYMMETRY Symmetry
INVARIANTS RegistrySound StatusCurrent
