\* Two tenants, two periods, two submissions that may overlap.
SPECIFICATION FairSpec
CONSTANTS
    Tenant = {t1, t2}
    Period = {p1, p2}
    HomeTenant = t1
    HomePeriod = p1
    Task = {x, y}
    Nothing = Nothing
    MaxSubmissions = 2
    MaxEdits = 1
    MaxTroubles = 2
CHECK_DEADLOCK FALSE
INVARIANTS
    TypeOK
    ConnectedShowsConfig
    
    PanelIsStored
    OrphansAreFree
    ButtonTellsTruth

    
