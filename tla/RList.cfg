\* Two lists and four items: lists that are empty, have one item or more.
SPECIFICATION Spec
CONSTANTS
    Heads = {h1, h2}
    Items = {i1, i2, i3, i4}
    NULL = NULL
SYMMETRY ListSymmetry
VIEW WithoutCall
INVARIANTS
    WellLinked
PROPERTIES
    ImplementsLists
