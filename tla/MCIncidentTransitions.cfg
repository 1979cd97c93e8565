\* Which changes of status the store accepts.
SPECIFICATION ServiceSpec
CONSTANTS
    i1 = i1
    i2 = i2
    h1 = h1
    h2 = h2
    Incidents = {i1, i2}
    Handlers = {h1, h2}
    Instants = {1, 2}
    ClaimedVersions = {0, 1}
    MaxVersion = 3
    NoIncident = NoIncident
    Candidates <- SomeIncidents
    EdgeIds <- MCEdgeIds
    Times <- MCTimes
    MaxIncidents = 3
SYMMETRY Symmetry
CHECK_DEADLOCK FALSE
PROPERTIES
    TransitionsAreLegal
