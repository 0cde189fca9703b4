SPECIFICATION Spec
CONSTANTS
    Handlers <- AllHandlers
    Scenario <- Vapp
PROPERTIES
    OnlyGoneIsForgotten
