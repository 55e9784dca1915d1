SPECIFICATION Spec
CONSTANTS
    NSections = 2
    NItems <- TwoAndOne
    MaxRelease = 1
    MaxFaults = 1
PROPERTIES MissingChecksumReported
