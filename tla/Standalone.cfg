\* Each component alone.
CONSTANTS
    packA = packA
    packB = packB
    da = da
    db = db
    pq = pq
    pr = pr
    pa = pa
    pb = pb
    oc = oc
    Caller = {a, b}
    Memo = {m, n}
    InitialBalance = 7
    RequiredFee = 1
    DedupWindow = 0
    Skew = 0
    MaxRecords = 3
    MaxAccounts = 2
    MaxTime = 1
    Amounts = {2}
    Bundle = {packA, packB}
    Benchmarked = packA
    Phases <- MCPhases
    Unset = Unset
    Asked <- MCAsked
    Retries = 2
    Process = {pq, pr}
    Directory = {da, db}
    Works <- MCWorks
    Configs <- MCConfigs
    Defects <- MCDefects
    MaxTotal = 350
    Nothing = Nothing
    Parameter = {pa, pb}
    Other = {oc}
    Proposals <- MCProposals
    Review = 2
    Extreme = 10
    Absent = Absent
    Odd = Odd
SPECIFICATION ApartSpec
INVARIANTS
    TypesOK
    BooksAreTrue
    AnswersOfOnePack
    RefusedWidthsStayRefused
    PriorityIsDeserved
    CoverageIsReal
    PacksAreSound
PROPERTIES
    FinishCompletes
CHECK_DEADLOCK FALSE
