CONSTANTS
    N = 4
    Width = 3
    DEC = 3
    Regs = {"A", "C"}
    start_fields <- MCStart
    end_fields <- MCEnd
    Fields = {"P", "WP", "M"}
    W_FIELD = "W"
    A_FIELD = "A"
    ConstantsAdded = {1, 4}
    NR_RSTK = 2
    Addresses = {0, 1, 2}
    MaxCalls = 5
SPECIFICATION MCSpec
VIEW MCView
INVARIANT InnermostCallsAreKept
PROPERTY ArithmeticIsExact
