\* A user who does not wait, with requests that get lost.
SPECIFICATION PageSpec
CONSTANTS
    Null = Null
    None = Null
    Nothing = Nothing
    Servers <- MCServers
    Versions <- MCVersions
    Specs <- MCSpecs
    Standalone <- TheStandalone
    JavaVersions <- TheJavaVersions
    DefaultJava = "SE8"
    Ordinal <- MCOrdinal
    MpVersions <- MCMpVersions
    GradleServers <- MCGradleServers
    SpecVersions <- MCSpecVersions
    JavaRules <- MCJavaRules
    Restrictions <- TheRestrictions
    Jobs = {1, 2}
    MaxQueue = 2
    MaxClicks = 4
INVARIANTS
    OneAtATime
    InStep
PROPERTIES
    PageAnswers
    ImplementsForm
CHECK_DEADLOCK FALSE
