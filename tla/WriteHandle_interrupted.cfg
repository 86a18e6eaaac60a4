SPECIFICATION Spec
CONSTANTS
    None = None
    h1 = h1
    h2 = h2
    Handles <- TwoHandles
    Payloads <- MCPayloads
    MaxAttempts = 2
INVARIANTS
    InterruptedDeferredLeavesNothing
SYMMETRY HandleSymmetry
CHECK_DEADLOCK FALSE
