SPECIFICATION Spec
CONSTANTS
    None = None
    Inputs <- MCInputs
INVARIANT
    FieldBeforeValue
