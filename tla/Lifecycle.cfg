SPECIFICATION FairSpec
CONSTANTS
    Handlers <- AllHandlers
    Scenario <- SomeScenario
INVARIANTS
    
    AllTracked
    
    NoLostUpdate
PROPERTIES
    AllHonest
    AllForgetOnlyTheGone
    AllKeepPower
    ApplySettles
    Converges
