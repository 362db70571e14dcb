SPECIFICATION HSpec
CONSTANTS
    NULL = NULL
    Reqs = {1, 2}
    Failures = TRUE
    Typed = {"Bank", "bank ", "other"}
    Normal <- MCNormal
    Collections = {"categories", "suppliers"}
    Deposited <- MCDeposited
    Keys = {"alerts_en", "alerts_it", "insight_en", "insight_it", "translation"}
    Texts <- MCTexts
    Devices = {"phone", "tablet"}
    Tokens = {"token", "other token"}
    OldDevices <- MCOldDevices
    Languages <- MCLanguages
    Titles = {"down", "volatile"}
    Forms <- MCForms
    Edits <- MCEdits
    Quantities = {0, 1, 2}
    MaxItems = 1
    MaxStock = 4
    ContextLimit = 2
    MemoryLimit = 3
    HydrateLimit = 4
    OldMessages <- MCOldMessages
    LowerCase <- MCLowerCase
    DefaultPlan <- MCDefaultPlan
    PlanForms <- MCPlanForms
    PlanEdits <- MCPlanEdits
    UpperCase <- MCUpperCase
    CouponForms <- MCCouponForms
    CouponEdits <- MCCouponEdits
    OldCoupons <- MCOldCoupons
    Contents = {"new"}
    OldSettings <- MCOldSettings
    SubscribedTo = "Core"
    Topics <- MCTopics
INVARIANTS
    TypeOK
    ItemsAsIfAtomic
    NamesServe
    NewestReplyFits
    GenerationsShared
    PlansAsAsked
    CheckoutSound
    OfficeAsAsked
PROPERTIES
    PushesAsAsked
    ChatMovesOn
    EveryRequestEnds
CHECK_DEADLOCK FALSE
