\* Two processes with different inputs under one request id.
CONSTANTS
    packA = packA
    packB = packB
    cell1 = cell1
    cell2 = cell2
    i1 = i1
    i2 = i2
    r1 = r1
    c1 = c1
    c2 = c2
    c3 = c3
    Cell = {cell1, cell2}
    Content <- MCContent
    Synthetic = Synthetic
    NoBundle = NoBundle
    None = None
    Offsets = {0}
    Chunks <- MCChunks
    Input = {i1, i2}
    RequestId = {r1}
    Steps <- MCSteps
    MaxBatch = 2
    Ask <- MCAsk
    Name <- MCName
    Pack = {packA, packB}
    Process = {c1, c2}
    Widths <- EveryWidth
    MaxStarts = 3
    MaxTime = 0
SPECIFICATION ClientSpec
INVARIANTS
    AnswersAreExact
    ClientsGetTheirAnswers
PROPERTIES
    StartsAreIdempotent
