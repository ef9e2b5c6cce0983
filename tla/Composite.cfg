SPECIFICATION Spec
CONSTANTS
    Inputs <- MCInputs
    PanelInput <- MCPanel
    InitReplies = {"quiet", "load", "both"}
    Replies = {"quiet", "emit", "load", "work", "cancel", "once", "reload"}
    MaxPending = 1
    MaxInFlight = 2
CHECK_DEADLOCK FALSE
INVARIANTS
    TypeOK
    ParserExact
    MessagesComeHome
    KeysStayApart
    CompositionIsTransparent
