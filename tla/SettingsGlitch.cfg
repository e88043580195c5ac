SPECIFICATION Spec
CONSTANTS
    Names <- MCNames
    Canon <- MCCanon
    Submissions <- MCSubmissions
    HandFiles <- MCHandFiles
    MAX_OPS = 3
    MAX_GLITCHES = 1
    Junk = Junk NoName = NoName Absent = Absent Damaged = Damaged
PROPERTY GlitchClobbersNothing
CHECK_DEADLOCK FALSE
