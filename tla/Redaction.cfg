SPECIFICATION Spec
CONSTANTS
    Settings <- MCSettings
    Policies <- MCPolicies
    Opening <- MCOpening
    Utterances <- MCUtterances
    Inventions <- MCInventions
    MaxMessages = 3
    MaxEdits = 1
INVARIANTS WireHoldsNoSecret EchoIsRestored RebuiltViewIsTheWire AlarmsAreReal
CHECK_DEADLOCK FALSE
