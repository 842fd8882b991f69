SPECIFICATION Spec
CONSTANTS
    Columns <- MCColumns
    Keys <- MCKeys
    FirstBoard <- OneCard
    FirstDone <- NoCards
    Descriptions <- NoDescription
    Values <- MCValues
    Bodies <- MCBodies
    HandLines <- CardLine
    MaxEdits = 2
    MaxWrites = 3
PROPERTY CompletedIsArchived
CHECK_DEADLOCK FALSE
