CONSTANTS
    Addr = {a1, a2, a3, a4}
    Null = Null
    Contract <- MCContractFull
SPECIFICATION Spec
SYMMETRY MCSymmetry
INVARIANTS
    TypeOK
    HandlesValid
PROPERTIES
    NativeCallsSafe
    ImplementsRegistry
