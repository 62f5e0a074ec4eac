SPECIFICATION Spec
CONSTANTS
    None = None
    refunds = refunds
    Question = {refunds}
    FaqWords <- MCFaqWords
    Policies <- MCPolicies
    Client = {c1, crowd}
    crowd = crowd
    Call = {k1, k2, k3, k4}
    Nobody = Nobody
    Window = 1
    MaxRequests = 2
    EvictionPeriod = 1
    Request <- MCRequest
    Slot = {1, 2}
    CacheKey <- MCCacheKey
    PROPERTY_SEARCH = 0
    FAQ_ANSWER = 1
    SESSION_STATE = 1
    PRICING = 0
    MaxEntries = 1
    Registries <- MCRegistries
    MaxTime = 3
    ShortTime = 1
SYMMETRY AlikeCalls
CONSTRAINT WithinBounds
INVARIANTS TypeOK AdmittedWithinLimit CapacityKept PoliciesDecide
PROPERTIES RefusedForCause CachedAnswerStands KeepsAdmissionContract
