CONSTANTS
    N = 2
    Warn = 2
    Alarm = 3
    Temps = {1, 2, 3}
    None = None
    MaxRounds = 3
    MaxViews = 3
SPECIFICATION TelemetrySpec
INVARIANTS
    LastMessageTrue
PROPERTIES
    SensorThreadEnds
CHECK_DEADLOCK FALSE
