SPECIFICATION TurnsFairSpec
CONSTANTS
    a1 = a1
    a2 = a2
    None = None
    Asks = {a1, a2}
    MaxResumes = 1
    MaxMessages = 2
    MaxDeltas = 1
    MaxFaults = 2
INVARIANTS StreamShowsTheTurn OneTurnPerAsk SearchesKeepTheScope OneGatewaySession
    ReplayIsHandedOver
PROPERTIES AsksEnd
CHECK_DEADLOCK FALSE
