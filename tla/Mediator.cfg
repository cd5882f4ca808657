SPECIFICATION Spec
CONSTANTS
    PrimaryLooks <- MCPrimaryLooks
    ExternalLooks <- MCExternalLooks
    Inputs <- MCInputs
    MaxBesideExternal = 2
INVARIANTS
    TypeOK
    EveryLayerDrawnOnce
    SlotsInOrder
    HardwareLayersFit
PROPERTIES
    StillSceneSkips
