SPECIFICATION Spec
CONSTANTS
    Companies = {a, b}
    NoCompany = NoCompany
    MaxSessions = 2
    MaxRenewals = 1
    MaxPending = 1
    MaxCrashes = 1
INVARIANTS TypeOK ToldKeysAreKept OneCompanyPerKey
SYMMETRY CompanySymmetry
CONSTRAINT NotSpoilt
