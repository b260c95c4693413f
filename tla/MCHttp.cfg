SPECIFICATION Spec
CONSTANTS
    None = None
    Inputs <- MCInputs
INVARIANTS
    HeadsReported
    ReportsAreTails
    BytesReported
    OnlyJunkIsMalformed
