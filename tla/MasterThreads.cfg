SPECIFICATION Spec
CONSTANTS
    None = None
    intake = intake
    u1 = u1
    e1 = e1
    Intake = intake
    Users <- MCUsers
    Edits <- MCEdits
    MaxClarifications = 1
    Misfits <- MCMisfits
    MaxFaults = 1
INVARIANT TypeOK
INVARIANT StatusesAreTrue
PROPERTY OnlyReviewedPlansLand
PROPERTY CallsReturn
PROPERTY RunsEndUnlessOvertaken
CHECK_DEADLOCK FALSE
