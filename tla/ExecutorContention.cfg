\* Two requests compete for one operation, with a plan of two signals; continuations may trap,
\* and a request expires before the clock stops.
CONSTANTS
    d = d
    l = l
    o1 = o1
    o2 = o2
    g1 = g1
    p = p
    None = None
    Delegate = {d}
    Ledger = {l}
    Operation = {o1}
    Grant = {g1}
    Plan = {p}
    Block = {0}
    Proposal <- MCProposal
    Terms <- WideTerms
    Signals <- TwoSignals
    MaxRequests = 2
    MaxRegistry = 1
    MaxWindows = 2
    MaxLedgers = 1
    RequestTTL = 1
    DedupWindow = 1
    MaxTime = 1
    MaxRevision = 2
    OwnerModes = {"ReportOnly", "Shadow", "Mock"}
    CallbacksMayTrap = TRUE
    IndicesMayBeBad = TRUE
SPECIFICATION Spec
INVARIANTS
    OneTransferPerOperation
    EvidenceComplete
    OneEngineCall
PROPERTIES
    UnknownKeepsReservation
    SettlementIsFinal
    OnlyCurrentRequestsPay
