SPECIFICATION Spec
CONSTANTS
    Names <- MCNames
    Canon <- MCCanon
    Submissions <- MCSubmissions
    HandFiles <- MCHandFiles
    MAX_OPS = 3
    MAX_GLITCHES = 0
    Junk = Junk NoName = NoName Absent = Absent Damaged = Damaged
INVARIANT PresetOwnsItsScale
PROPERTIES SavesTouchOnlyTheirOwn ReadBackAsSaved
CHECK_DEADLOCK FALSE
