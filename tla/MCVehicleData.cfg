\* Two cars at five stations; three sightings or troubles.
SPECIFICATION Spec
CONSTANTS
    Stations <- MCStations
    NPlates = 2
    MaxEvents = 3
CHECK_DEADLOCK FALSE
INVARIANTS
    AllAccounted
    VisitsApart
    SeenIsStored
    
    
PROPERTIES
    RecordsHandled
