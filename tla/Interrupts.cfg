SPECIFICATION Spec
INVARIANTS
    DiesInKnownWays
PROPERTIES
    RequestsServed
