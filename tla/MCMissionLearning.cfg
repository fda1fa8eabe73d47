CONSTANTS
    ann = ann
    bob = bob
    Users = {ann, bob}
    PlanRequests <- MCPlanRequests
    RawAnswers <- MCRawAnswers
    Reactions <- MCReactions
    OldFiles <- MCOldFiles
    MaxItems = 2
    MaxStops = 1
SPECIFICATION Spec
INVARIANTS
    AckedIsDurable
    PlanKnowsFeedback
    PromptIsConsented
    PlanIsSound
PROPERTIES
    LearnedAsShown
    RejectionSinks
CHECK_DEADLOCK FALSE
