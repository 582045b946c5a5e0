CONSTANTS
    Families <- MCFamilies
    Sites <- MCSites
SPECIFICATION ProviderSpec
INVARIANT HandlersGetTheirVersion
PROPERTY VersionsServedOnce
