\* Half seconds for three seconds: rounds without a pause, and up to three of them a second apart.
SPECIFICATION Spec
CONSTANTS
    PerSecond = 2
    Boot = 1
    Delays = {0, 1, 2}
    MaxClock = 6
INVARIANTS TypeOK DifferencesAddUp PercentsBesideCounts PercentsDefined
PROPERTY TimeoutRefreshes
