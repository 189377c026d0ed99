CONSTANTS
    packA = packA
    packB = packB
    cell1 = cell1
    cell2 = cell2
    cell3 = cell3
    c1 = c1
    e1 = e1
    e2 = e2
    s1 = s1
    k1 = k1
    Pack = {packA, packB}
    Cell = {cell1, cell2, cell3}
    Content <- MCContent
    Synthetic = Synthetic
    NoBundle = NoBundle
    None = None
    Offsets = {0, 1, 2}
    Chunks <- MCChunks
    Caller = {c1}
    EvaluationId = {e1, e2}
    Schema = {s1}
    Qtype <- MCQtype
    FixtureCell = FixtureCell
    Calibration = {k1}
    Calibrated <- MCCalibrated
    Request <- MCRequest
    PerMinute = {1, 2}
    Minute = 2
    Horizon = 2
    MaxCached = 2
    MaxTime = 2
SPECIFICATION EngineSpec
INVARIANTS
    ReceiptsFitRequests
    ReceiptsAreFresh
    OneInferencePerId
    QuotaHolds
CHECK_DEADLOCK FALSE
