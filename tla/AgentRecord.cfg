CONSTANTS
    id1 = id1
    id2 = id2
    id3 = id3
    Ids <- MCIds
    Checkins <- MCCheckins
SPECIFICATION Spec
INVARIANT TypeOK
INVARIANT FilterSeesCheckin
