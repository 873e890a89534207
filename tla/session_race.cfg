\* Three processes: an old one stops, one is newer, and one starts meanwhile.
CHECK_DEADLOCK FALSE
SPECIFICATION SessionSpec
CONSTANTS
    Sessions = {s1, s2, s3}
    NoSession = NoSession
    MaxMishaps = 0
INVARIANTS
    NewerSessionKept
