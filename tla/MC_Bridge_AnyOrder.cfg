CONSTANTS
    Addr = {a1, a2, a3, a4}
    Null = Null
    Contract <- MCContractAnyOrder
SPECIFICATION Spec
SYMMETRY MCSymmetry
PROPERTIES
    NativeCallsSafe
