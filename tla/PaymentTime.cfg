\* One request, revocations, and a clock that runs past the deduplication window.
CONSTANTS
    d = d
    l = l
    o1 = o1
    o2 = o2
    g1 = g1
    p = p
    None = None
    Delegate = {d}
    Ledger = {l}
    Operation = {o1}
    Grant = {g1}
    Plan = {p}
    Block <- Numbers
    Proposal <- MCProposal
    Terms <- WideTerms
    Signals <- OneSignal
    MaxRequests = 1
    MaxRegistry = 1
    MaxWindows = 2
    MaxLedgers = 1
    RequestTTL = 2
    DedupWindow = 1
    MaxTime = 2
    MaxRevision = 2
    OwnerModes = {"Mock"}
    CallbacksMayTrap = TRUE
    IndicesMayBeBad = FALSE
    Self = self
    InitialBalance = 6
    RequiredFee = 1
    Skew = 0
    MaxRecords = 2
    MaxAccounts = 1
SPECIFICATION PaymentSpec
INVARIANTS
    VerdictsAreTrue
    DebitsAreBudgeted
