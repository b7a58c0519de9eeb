\* Two peers that report about each other, one of them about itself too, and two
\* infos: maps change and change back.
CONSTANTS
    p1 = p1
    p2 = p2
    i1 = i1
    i2 = i2
    Peers = {p1, p2}
    Others = {}
    Infos = {i1, i2}
    Nothing = Nothing
    Reports <- MCReports
    TTL = 2
SPECIFICATION LiveSpec
INVARIANTS
    GroupExact PolledMeansCurrent
PROPERTIES
    StaleForgotten
