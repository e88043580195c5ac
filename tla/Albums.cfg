SPECIFICATION Spec
CONSTANTS
    default = default tv = tv n1 = n1 n2 = n2 n3 = n3 p1 = p1 p2 = p2
    Names = {n1, n2, n3}
    Photos = {p1, p2}
    Screens = {default, tv}
    DEFAULT = default
    FIRST = n1
    MAX_ALBUMS = 3
    BY_HAND = TRUE
    MAX_OPS = 4
    MAX_FAULTS = 1
    NoName = NoName NoPage = NoPage NoRecord = NoRecord
INVARIANTS TypeOK BinRemembersHome
PROPERTIES RenameAllOrNothing SaveFollowsThePage TicksMeanAlbums
SYMMETRY Symmetry
CHECK_DEADLOCK FALSE
