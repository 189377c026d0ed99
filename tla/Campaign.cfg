\* Two cases of two inferences.
CONSTANTS
    packA = packA
    packB = packB
    m1 = m1
    m2 = m2
    Pack = {packA, packB}
    Calibrated = packA
    Module = {m1, m2}
    Built = m1
    Cases = 2
    Sessions = 2
    Scripts <- EveryScript
    None = None
    Torn = Torn
SPECIFICATION FairCampaignSpec
INVARIANTS
    RowsOfNamedPack
    CertifiedIsTrue
PROPERTIES
    RowsAreKept
    CampaignEnds
CHECK_DEADLOCK FALSE
