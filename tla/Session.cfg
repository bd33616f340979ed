SPECIFICATION FairSpec
CONSTANTS
    Names = {"t1", "t2"}
    Schemas = {"wide", "narrow"}
    Columns <- MCColumns
    Rows <- MCRows
    Keys = {1}
    MaxStarts = 3
INVARIANTS
    OpenTablesAreWhole
    LostNameHasACause
    CreatedStaysOpen
    RowsReadBack
PROPERTIES
    WriteStateBlocks
    LostNamesStayLost
    StartEnds
CHECK_DEADLOCK FALSE
