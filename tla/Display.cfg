SPECIFICATION Spec
CONSTANTS
    Server <- MCServer
    NoPhoto = NoPhoto AllAlbums = AllAlbums
    CYCLE = 2
    MAX_TURNS = 2 MAX_SHOWN = 2 MAX_FAILED = 3
INVARIANTS OverlaysInPlace EveryTeaserHasAPlace
PROPERTIES ShuffleShowsEachOnce NewestBoardShows UpcomingTakesTurns
