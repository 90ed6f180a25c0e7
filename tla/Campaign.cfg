SPECIFICATION LiveCampaign
CONSTANTS
    p1 = p1
    p2 = p2
    Nobody = Nobody
    Nothing = Nothing
    Processes = {p1, p2}
    Predicted <- MCPredicted
    Readings <- MCReadings
    Policy <- MCPolicy
    MaxEvents = 1
CHECK_DEADLOCK FALSE
INVARIANTS
    CampaignInv
    VerdictIsMeasured
    OnlyCalibratedOpens
    DriftOnlyInWindow
PROPERTIES
    EndsOrIsBlocked
