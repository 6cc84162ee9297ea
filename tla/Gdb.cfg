CONSTANTS
    N = 2
    Cell = {x}
    Byte = {0, 1}
    Image <- MCImage
    Programs <- MCPrograms
    Messages <- MCMessages
    MaxSteps = 3
    MaxSent = 3
SPECIFICATION Spec
INVARIANTS InStep
PROPERTIES StopsAtBreakpoints EndedStaysEnded ServeReturns AllAnswered
CHECK_DEADLOCK FALSE
