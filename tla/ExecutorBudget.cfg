\* Two operations under a grant whose caps admit both, in different windows.
CONSTANTS
    d = d
    l = l
    o1 = o1
    o2 = o2
    g1 = g1
    p = p
    None = None
    Delegate = {d}
    Ledger = {l}
    Operation = {o1, o2}
    Grant = {g1}
    Plan = {p}
    Block = {0}
    Proposal <- MCProposal
    Terms <- TightTerms
    Signals <- OneSignal
    MaxRequests = 2
    MaxRegistry = 1
    MaxWindows = 2
    MaxLedgers = 1
    RequestTTL = 2
    DedupWindow = 1
    MaxTime = 1
    MaxRevision = 1
    OwnerModes = {"ReportOnly", "Shadow", "Mock"}
    CallbacksMayTrap = FALSE
    IndicesMayBeBad = FALSE
SPECIFICATION Spec
INVARIANTS
    CheckInvariants
    SettlementPossible
