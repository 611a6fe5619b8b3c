\* A download overtakes the choice of another version.
SPECIFICATION PageSpec
CONSTANTS
    Null = Null
    None = Null
    Nothing = Nothing
    Servers <- MCServers
    Versions <- MCVersions
    Specs <- MCSpecs
    Standalone <- TheStandalone
    JavaVersions <- TheJavaVersions
    DefaultJava = "SE8"
    Ordinal <- MCOrdinal
    MpVersions <- MCMpVersions
    GradleServers <- MCGradleServers
    SpecVersions <- MCSpecVersions
    JavaRules <- MCJavaRules
    Restrictions <- TheRestrictions
    Jobs = {1, 2}
    MaxQueue = 2
    MaxClicks = 4
INVARIANTS
    ListedSpecsOnly
CHECK_DEADLOCK FALSE
