SPECIFICATION Spec
CONSTANTS
    Columns <- MCColumns
    Keys <- MCKeys
    FirstBoard <- OneCard
    FirstDone <- NoCards
    Descriptions <- NoDescription
    Values <- MCValues
    Bodies <- MCBodies
    HandLines <- TextLine
    MaxEdits = 1
    MaxWrites = 1
PROPERTY TextSurvives
CHECK_DEADLOCK FALSE
