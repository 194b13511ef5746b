CONSTANTS
    Intervals <- MCIntervals
    Numbers <- MCNumbers
    Durations <- MCDurations
    Longest = 8
SPECIFICATION FairSpec
INVARIANTS TypeOK NeverEarly LatenessBounded
PROPERTY Expires
