CONSTANTS
    ReadSize = 2
    MaxHeader = 7
    MaxBody = 2
    MaxResponse = 2
    MaxLine = 3
    ContentLength <- Lengths
    SizeOf <- Sizes
    Inputs <- AllInputs
SPECIFICATION Spec
INVARIANTS
    TypeOK
    ResponseIsExpected
    RequestIsExpected
    TruncationIsDetected
    ForwardedIsFramed
    BuffersAreBounded
