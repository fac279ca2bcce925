SPECIFICATION Spec
CONSTANTS
    MaxLives = 2
    MaxUpdates = 2
    Unreadable = Unreadable
    None = None
INVARIANTS TypeOK OneLifeAtATime UpdatesSurvive
CHECK_DEADLOCK FALSE
