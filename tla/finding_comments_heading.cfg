SPECIFICATION Spec
CONSTANTS
    Columns <- MCColumns
    Keys <- MCKeys
    FirstBoard <- MCFirstBoard
    FirstDone <- MCFirstDone
    Descriptions <- CommentsDescription
    Values <- MCValues
    Bodies <- MCBodies
    HandLines <- NoLines
    MaxEdits = 0
    MaxWrites = 2
PROPERTY WriteTouchesOnePart
CHECK_DEADLOCK FALSE
