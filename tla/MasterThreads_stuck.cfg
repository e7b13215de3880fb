SPECIFICATION Spec
CONSTANTS
    None = None
    intake = intake
    u1 = u1
    e1 = e1
    Intake = intake
    Users <- MCUsers
    Edits <- MCEdits
    MaxClarifications = 0
    Misfits <- MCMisfits
    MaxFaults = 0
PROPERTY RunsEnd
CHECK_DEADLOCK FALSE
