\* Two processes of either release start beside each other; two faults.
SPECIFICATION StartingSpec
CONSTANTS
    Processes = {p1, p2}
    Releases = {1, 9}
    MaxFaults = 2
INVARIANTS
    ServesOnItsSchema
PROPERTY
    StartsInTheEnd
CHECK_DEADLOCK FALSE
