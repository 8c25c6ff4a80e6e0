CONSTANTS
    Keys = {w, a}
    MaxEvents = 4
    MaxFaults = 1
SPECIFICATION FairSpec
INVARIANTS TypeOK NeverStuck KeysFollow
PROPERTIES PressesActedOn ReleaseArrives
