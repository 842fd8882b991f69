SPECIFICATION Spec
CONSTANTS
    Columns <- MCColumns
    Keys <- MCKeys
    FirstBoard <- MCFirstBoard
    FirstDone <- MCFirstDone
    Descriptions <- MCDescriptions
    Values <- MCValues
    Bodies <- MCBodies
    HandLines <- MCHandLines
    MaxEdits = 1
    MaxWrites = 2
PROPERTY WriteTouchesOnePart
CHECK_DEADLOCK FALSE
