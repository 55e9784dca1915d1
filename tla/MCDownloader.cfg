SPECIFICATION LiveSpec
CONSTANTS
    NSections = 2
    NItems <- OneEach
    MaxRelease = 2
    MaxFaults = 1
INVARIANTS TypeOK SuccessMeansComplete NoFailureWithoutCause
PROPERTIES FilesAreVouchedFor RepairedInTheEnd
