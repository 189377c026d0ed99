\* Runs of the tools, among them one with --keep-state after a complete one.
CONSTANTS
    packA = packA
    packB = packB
    cell1 = cell1
    cell2 = cell2
    cell3 = cell3
    idM = idM
    idI = idI
    ex = ex
    s1 = s1
    kA = kA
    kB = kB
    kF = kF
    t1 = t1
    t2 = t2
    Pack = {packA, packB}
    Cell = {cell1, cell2, cell3}
    Content <- MCContent
    Synthetic = Synthetic
    NoBundle = NoBundle
    None = None
    Offsets = {0}
    Chunks = {}
    Caller = {idM, idI, ex}
    EvaluationId <- MCIds
    Schema = {s1}
    Qtype <- MCQtype
    FixtureCell = FixtureCell
    Calibration = {kA, kB, kF}
    Calibrated <- MCCalibrated
    Request <- MCRequest
    PerMinute = {1000}
    Minute = 1
    Horizon = 2
    MaxCached = 8
    MaxTime = 0
    Process = {t1, t2}
    Assignment <- MCAssignment
    ExecutorId = ex
    Budgeted = packB
    Granted = 1000
    Signals = 2
    Question <- MCQuestion
    Signal <- MCSignal
SPECIFICATION HarnessSpec
INVARIANTS
    KeptStateUpgrades
CHECK_DEADLOCK FALSE
