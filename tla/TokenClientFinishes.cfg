\* Three processes, reruns, a warm model and one start.
CONSTANTS
    packA = packA
    packB = packB
    cell1 = cell1
    cell2 = cell2
    i1 = i1
    i2 = i2
    r1 = r1
    c1 = c1
    c2 = c2
    c3 = c3
    Cell = {cell1, cell2}
    Content <- MCContent
    Synthetic = Synthetic
    NoBundle = NoBundle
    None = None
    Offsets = {0}
    Chunks <- MCChunks
    Input = {i1, i2}
    RequestId = {r1}
    Steps <- MCSteps
    MaxBatch = 2
    Ask <- SameAsk
    Name <- MCName
    Pack = {packA, packB}
    Process = {c1, c2, c3}
    Widths <- WidestOnly
    MaxStarts = 1
    MaxTime = 1
SPECIFICATION WarmSpec
PROPERTIES
    RerunsFinish
CHECK_DEADLOCK FALSE
